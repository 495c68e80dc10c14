----------------------- MODULE ThreadSafeDataBlock_proofs -----------------------
(***************************************************************************)
(* Proofs about the lock and the data block, for every finite set of       *)
(* threads, every number of registers and every queue bound.               *)
(***************************************************************************)
EXTENDS ThreadSafeDataBlock, FiniteSetTheorems, TLAPS

USE ThreadsAssumption, ConditionAssumption, QueueAssumption, DataAssumption

-------------------------------------------------------------------------------
(* The lock *)

ReaderLockStep(t) == acquire_reader(t) \/ wake_reader(t) \/ release_reader(t)
WriterLockStep(t) == acquire_writer(t) \/ wake_writer(t) \/ release_writer(t)

LEMMA LockSteps ==
  [Next]_vars => \/ \E t \in Readers : ReaderLockStep(t)
                 \/ \E t \in Writers : WriterLockStep(t)
                 \/ UNCHANGED lockVars
BY DEF Next, Read, Write, EnterRead, validate, LeaveRead, ReadCell, getValues,
       CallSetValues, WriteOn, ResumeSetValues, WriteCell, setValues, vars,
       ReaderLockStep, WriterLockStep

LEMMA PopHeadType ==
  ASSUME LockTypeOK, NEW t \in Writers
  PROVE  PopHead(t) \in Seq(Writers \cup {read_condition, Nobody})
<1>1. Len(queue) \in Nat
  BY DEF LockTypeOK
<1>2. CASE queue = <<>>
  <2>1. 1 .. Len(queue) - 1 = 1 .. 0
    BY <1>2
  <2>2. PopHead(t) = [i \in 1 .. 0 |->
                         IF queue[i + 1] = t THEN Nobody ELSE queue[i + 1]]
    BY <2>1, Zenon DEF PopHead
  <2>3. QED
    BY <2>2
<1>3. CASE queue # <<>>
  <2>1. Len(queue) >= 1
    BY <1>1, <1>3 DEF LockTypeOK
  <2>2. \A i \in 1 .. Len(queue) - 1 :
           queue[i + 1] \in Writers \cup {read_condition, Nobody}
    BY <2>1 DEF LockTypeOK
  <2>3. QED
    BY <2>1, <2>2 DEF PopHead
<1>4. QED
  BY <1>2, <1>3

LEMMA LockTypeStep == LockTypeOK /\ [Next]_vars => LockTypeOK'
<1> SUFFICES ASSUME LockTypeOK, [Next]_vars
             PROVE  LockTypeOK'
  OBVIOUS
<1>1. ASSUME NEW t \in Readers, acquire_reader(t)
      PROVE  LockTypeOK'
  <2>1. queue' \in Seq(Writers \cup {read_condition, Nobody})
    BY <1>1 DEF acquire_reader, QueueReaders, LockTypeOK
  <2>2. QED
    BY <1>1, <2>1 DEF acquire_reader, EnterReader, LockTypeOK, Threads
<1>2. ASSUME NEW t \in Readers, wake_reader(t)
      PROVE  LockTypeOK'
  <2>1. queue' \in Seq(Writers \cup {read_condition, Nobody})
    BY <1>2 DEF wake_reader, QueueHeadIs, LockTypeOK
  <2>2. QED
    BY <1>2, <2>1 DEF wake_reader, EnterReader, LockTypeOK, Threads
<1>3. ASSUME NEW t \in Readers, release_reader(t)
      PROVE  LockTypeOK'
  BY <1>3 DEF release_reader, LockTypeOK, Threads
<1>4. ASSUME NEW t \in Writers, acquire_writer(t)
      PROVE  LockTypeOK'
  <2>1. queue' \in Seq(Writers \cup {read_condition, Nobody})
    <3>1. queue' = queue \/ queue' = Append(queue, t)
      BY <1>4 DEF acquire_writer, QueueUncontended
    <3>2. QED
      BY <1>4, <3>1 DEF LockTypeOK
  <2>2. QED
    BY <1>4, <2>1 DEF acquire_writer, EnterWriter, LockTypeOK, Threads
<1>5. ASSUME NEW t \in Writers, wake_writer(t)
      PROVE  LockTypeOK'
  <2>1. queue' \in Seq(Writers \cup {read_condition, Nobody})
    BY <1>5, PopHeadType DEF wake_writer
  <2>2. QED
    BY <1>5, <2>1 DEF wake_writer, EnterWriter, LockTypeOK, Threads
<1>6. ASSUME NEW t \in Writers, release_writer(t)
      PROVE  LockTypeOK'
  BY <1>6 DEF release_writer, LockTypeOK, Threads
<1>7. CASE UNCHANGED lockVars
  BY <1>7 DEF lockVars, LockTypeOK
<1>8. QED
  BY <1>1, <1>2, <1>3, <1>4, <1>5, <1>6, <1>7, LockSteps
     DEF ReaderLockStep, WriterLockStep

\* The sets that MutualExclusion counts, after a step that moves one thread.
LEMMA ReadingFinite == IsFiniteSet(Reading) /\ Cardinality(Reading) \in Nat
BY FS_Subset, FS_CardinalityType DEF Reading

LEMMA MutualExclusionStep ==
  LockTypeOK /\ MutualExclusion /\ [Next]_vars => MutualExclusion'
<1> SUFFICES ASSUME LockTypeOK, MutualExclusion, [Next]_vars
             PROVE  MutualExclusion'
  OBVIOUS
<1>1. ASSUME NEW t \in Readers, pc[t] # "reading", pc[t] # "writing",
             ~writer, EnterReader(t)
      PROVE  MutualExclusion'
  <2>1. Reading' = Reading \cup {t} /\ t \notin Reading
    BY <1>1 DEF EnterReader, LockTypeOK, Reading, Threads
  <2>2. Writing' = Writing /\ Writing = {}
    BY <1>1 DEF EnterReader, LockTypeOK, Writing, MutualExclusion
  <2>3. Cardinality(Reading') = Cardinality(Reading) + 1
    BY <2>1, ReadingFinite, FS_AddElement
  <2>4. QED
    BY <1>1, <2>2, <2>3 DEF EnterReader, MutualExclusion
<1>2. ASSUME NEW t \in Writers, pc[t] # "reading", pc[t] # "writing",
             ~Busy, EnterWriter(t)
      PROVE  MutualExclusion'
  <2>1. Writing' = {t}
    BY <1>2 DEF EnterWriter, Busy, LockTypeOK, Writing, MutualExclusion, Threads
  <2>2. Reading' = Reading
    BY <1>2 DEF EnterWriter, LockTypeOK, Reading
  <2>3. readers = 0 /\ Reading = {}
    BY <1>2, ReadingFinite, FS_EmptySet DEF Busy, LockTypeOK, MutualExclusion
  <2>4. QED
    BY <1>2, <2>1, <2>2, <2>3 DEF EnterWriter, MutualExclusion
<1>3. ASSUME NEW t \in Threads, pc[t] \notin {"reading", "writing"},
             pc' = [pc EXCEPT ![t] = "rwait"] \/ pc' = [pc EXCEPT ![t] = "wwait"],
             UNCHANGED <<readers, writer>>
      PROVE  MutualExclusion'
  <2>1. Reading' = Reading /\ Writing' = Writing
    BY <1>3 DEF LockTypeOK, Reading, Writing
  <2>2. QED
    BY <1>3, <2>1 DEF MutualExclusion
<1>4. ASSUME NEW t \in Readers, release_reader(t)
      PROVE  MutualExclusion'
  <2>1. Reading' = Reading \ {t} /\ t \in Reading
    BY <1>4 DEF release_reader, LockTypeOK, Reading, Threads
  <2>2. Writing' = Writing /\ Writing = {}
    BY <1>4, <2>1 DEF release_reader, LockTypeOK, Writing, MutualExclusion
  <2>3. Cardinality(Reading') = Cardinality(Reading) - 1
    BY <2>1, ReadingFinite, FS_RemoveElement
  <2>4. readers' = readers - 1
    BY <1>4, <2>1, ReadingFinite, FS_EmptySet DEF release_reader, MutualExclusion, LockTypeOK
  <2>5. QED
    BY <1>4, <2>2, <2>3, <2>4 DEF release_reader, MutualExclusion
<1>5. ASSUME NEW t \in Writers, release_writer(t)
      PROVE  MutualExclusion'
  <2>1. Writing' = {} /\ Reading' = Reading
    BY <1>5 DEF release_writer, LockTypeOK, Reading, Writing, MutualExclusion, Threads
  <2>2. QED
    BY <1>5, <2>1 DEF release_writer, MutualExclusion
<1>6. CASE UNCHANGED lockVars
  BY <1>6 DEF lockVars, MutualExclusion, Reading, Writing
<1>7. ASSUME NEW t \in Readers, ReaderLockStep(t)
      PROVE  MutualExclusion'
  BY <1>1, <1>3, <1>4, <1>7
     DEF ReaderLockStep, acquire_reader, wake_reader, is_pending_writer, Threads
<1>8. ASSUME NEW t \in Writers, WriterLockStep(t)
      PROVE  MutualExclusion'
  BY <1>2, <1>3, <1>5, <1>8
     DEF WriterLockStep, acquire_writer, wake_writer, Threads
<1>9. QED
  BY <1>6, <1>7, <1>8, LockSteps

LEMMA LockInitOK == Init => LockTypeOK /\ MutualExclusion
<1> SUFFICES ASSUME Init
             PROVE  LockTypeOK /\ MutualExclusion
  OBVIOUS
<1>1. Reading = {} /\ Writing = {}
  BY DEF Init, LockInit, Reading, Writing
<1>2. LockTypeOK
  <2>1. queue \in Seq(Writers \cup {read_condition, Nobody})
    BY DEF Init, LockInit
  <2>2. QED
    BY <2>1 DEF Init, LockInit, LockTypeOK
<1>3. MutualExclusion
  BY <1>1, FS_EmptySet DEF Init, LockInit, MutualExclusion
<1>4. QED
  BY <1>2, <1>3

\* The lock excludes: one writer alone, or any number of readers, whatever the
\* stale conditions left in its queue.
THEOREM Exclusion == Spec => []MutualExclusion
<1>1. QED
  BY LockInitOK, LockTypeStep, MutualExclusionStep, PTL DEF Spec

-------------------------------------------------------------------------------
(* The queue *)

LEMMA QueuedFinite ==
  LockTypeOK => IsFiniteSet(QueuedWriters) /\ Cardinality(QueuedWriters) \in Nat
<1> SUFFICES ASSUME LockTypeOK
             PROVE  IsFiniteSet(QueuedWriters) /\ Cardinality(QueuedWriters) \in Nat
  OBVIOUS
<1>1. DOMAIN queue = 1 .. Len(queue) /\ Len(queue) \in Nat
  BY DEF LockTypeOK
<1>2. IsFiniteSet(1 .. Len(queue))
  BY <1>1, FS_Interval
<1>3. IsFiniteSet(QueuedWriters)
  BY <1>1, <1>2, FS_Subset DEF QueuedWriters
<1>4. QED
  BY <1>3, FS_CardinalityType

LEMMA WaitingFinite == IsFiniteSet(WaitingWriters) /\ Cardinality(WaitingWriters) \in Nat
BY FS_Subset, FS_CardinalityType DEF WaitingWriters

\* What pop(0) does to the places of the writers' conditions.
LEMMA PopMovesUp ==
  ASSUME LockTypeOK, LockTypeOK', queue # <<>>, Len(queue') = Len(queue) - 1,
         \A i \in 1 .. Len(queue) - 1 :
            queue'[i] = read_condition <=> queue[i + 1] = read_condition
  PROVE  Cardinality(QueuedWriters') = Cardinality(QueuedWriters \ {1})
<1> DEFINE S == QueuedWriters \ {1}
           T == QueuedWriters'
           f == [i \in S |-> i - 1]
<1>1. /\ DOMAIN queue = 1 .. Len(queue) /\ Len(queue) \in Nat \ {0}
      /\ DOMAIN queue' = 1 .. Len(queue) - 1
  BY DEF LockTypeOK
<1>2. S = {i \in 2 .. Len(queue) : queue[i] # read_condition}
  BY <1>1 DEF QueuedWriters
<1>3. T = {i \in 1 .. Len(queue) - 1 : queue[i + 1] # read_condition}
  BY <1>1 DEF QueuedWriters
<1> HIDE DEF S, T
<1>4. f \in [S -> T]
  BY <1>1, <1>2, <1>3
<1>5. \A a, b \in S : f[a] = f[b] => a = b
  BY <1>1, <1>2
<1>6. \A j \in T : \E i \in S : f[i] = j
  <2>1. ASSUME NEW j \in T
        PROVE  j + 1 \in S /\ f[j + 1] = j
    BY <1>1, <1>2, <1>3, <2>1
  <2>2. QED
    BY <2>1
<1>7. f \in Bijection(S, T)
  <2>1. DOMAIN f = S
    OBVIOUS
  <2> HIDE DEF f
  <2>2. f \in Injection(S, T)
    BY <1>4, <1>5, <2>1, Zenon DEF Injection, IsInjective
  <2>3. f \in Surjection(S, T)
    BY <1>4, <1>6, Zenon DEF Surjection
  <2>4. QED
    BY <2>2, <2>3, Zenon DEF Bijection
<1>8. IsFiniteSet(S)
  BY QueuedFinite, FS_Subset DEF S
<1>9. QED
  BY <1>7, <1>8, FS_Bijection DEF ExistsBijection, S, T

LEMMA QueueStep ==
  LockTypeOK /\ LockTypeOK' /\ QueueCoversWaiters /\ [Next]_vars => QueueCoversWaiters'
<1> SUFFICES ASSUME LockTypeOK, LockTypeOK', QueueCoversWaiters, [Next]_vars
             PROVE  QueueCoversWaiters'
  OBVIOUS
<1>1. /\ DOMAIN queue = 1 .. Len(queue) /\ Len(queue) \in Nat
      /\ DOMAIN queue' = 1 .. Len(queue') /\ Len(queue') \in Nat
  BY DEF LockTypeOK
<1>2. /\ IsFiniteSet(QueuedWriters) /\ Cardinality(QueuedWriters) \in Nat
      /\ IsFiniteSet(WaitingWriters) /\ Cardinality(WaitingWriters) \in Nat
  BY QueuedFinite, WaitingFinite
\* A reader gets in, or lines up.
<1>3. ASSUME NEW t \in Readers, acquire_reader(t), is_pending_writer
      PROVE  QueueCoversWaiters'
  <2>1. /\ pc[t] = "idle" /\ pc' = [pc EXCEPT ![t] = "rwait"]
        /\ queue' = QueueReaders
    BY <1>3 DEF acquire_reader
  <2>2. WaitingWriters' = WaitingWriters /\ \E u \in Threads : pc'[u] = "rwait"
    BY <2>1 DEF WaitingWriters, LockTypeOK, Threads
  <2>3. QueuedWriters' = QueuedWriters /\ \A i, j \in DOMAIN queue' \ QueuedWriters' : i = j
    <3>1. CASE read_condition \in ToSet(queue)
      BY <2>1, <3>1 DEF QueueReaders, QueuedWriters, QueueCoversWaiters
    <3>2. CASE read_condition \notin ToSet(queue)
      <4>1. queue' = Append(queue, read_condition)
        BY <2>1, <3>2 DEF QueueReaders
      <4>2. \A i \in DOMAIN queue : queue[i] # read_condition
        BY <3>2 DEF ToSet
      <4>3. /\ Len(queue') = Len(queue) + 1
            /\ queue'[Len(queue) + 1] = read_condition
            /\ \A i \in 1 .. Len(queue) : queue'[i] = queue[i]
        BY <4>1 DEF LockTypeOK
      <4>4. QueuedWriters = 1 .. Len(queue) /\ QueuedWriters' = 1 .. Len(queue)
        BY <1>1, <4>2, <4>3 DEF QueuedWriters
      <4>5. QED
        BY <1>1, <4>3, <4>4
    <3>3. QED
      BY <3>1, <3>2
  <2>4. QED
    BY <2>2, <2>3 DEF QueueCoversWaiters
<1>4. ASSUME NEW t \in Threads, pc[t] # "rwait", pc[t] # "wwait",
             pc' = [pc EXCEPT ![t] = "reading"] \/ pc' = [pc EXCEPT ![t] = "writing"]
                \/ pc' = [pc EXCEPT ![t] = "idle"],
             queue' = queue
      PROVE  QueueCoversWaiters'
  <2>1. /\ WaitingWriters' = WaitingWriters
        /\ \A u \in Threads : pc[u] = "rwait" => pc'[u] = "rwait"
    BY <1>4 DEF WaitingWriters, LockTypeOK
  <2>2. QED
    BY <1>4, <2>1 DEF QueueCoversWaiters, QueuedWriters
<1>5. ASSUME NEW t \in Readers, wake_reader(t)
      PROVE  QueueCoversWaiters'
  <2>1. /\ pc[t] = "rwait" /\ pc' = [pc EXCEPT ![t] = "reading"]
        /\ queue = <<>> \/ QueueHeadIs(read_condition)
        /\ queue' = IF QueueHeadIs(read_condition) THEN Tail(queue) ELSE queue
    BY <1>5 DEF wake_reader, EnterReader, is_pending_writer
  <2>2. WaitingWriters' = WaitingWriters
    BY <2>1 DEF WaitingWriters, LockTypeOK
  <2>3. CASE queue = <<>>
    <3>1. queue' = queue /\ DOMAIN queue = {}
      BY <2>1, <2>3 DEF QueueHeadIs
    <3>2. QED
      BY <2>2, <3>1 DEF QueueCoversWaiters, QueuedWriters
  <2>4. CASE QueueHeadIs(read_condition)
    <3>1. /\ queue # <<>> /\ queue[1] = read_condition /\ queue' = Tail(queue)
          /\ Len(queue') = Len(queue) - 1 /\ Len(queue) >= 1
          /\ \A i \in 1 .. Len(queue) - 1 : queue'[i] = queue[i + 1]
      BY <2>1, <2>4 DEF QueueHeadIs, LockTypeOK
    <3>2. 1 \in DOMAIN queue \ QueuedWriters
      BY <1>1, <3>1 DEF QueuedWriters
    <3>3. \A i \in DOMAIN queue : i # 1 => queue[i] # read_condition
      BY <3>2 DEF QueueCoversWaiters, QueuedWriters
    <3>4. \A i \in DOMAIN queue' : queue'[i] # read_condition
      BY <1>1, <3>1, <3>3
    <3>5. DOMAIN queue' = QueuedWriters'
      BY <3>4 DEF QueuedWriters
    <3>6. QueuedWriters \ {1} = QueuedWriters
      BY <3>2
    <3>7. Cardinality(QueuedWriters') = Cardinality(QueuedWriters)
      BY <3>1, <3>6, PopMovesUp
    <3>8. QED
      BY <2>2, <3>5, <3>7 DEF QueueCoversWaiters
  <2>5. QED
    BY <2>1, <2>3, <2>4
\* A writer lines up, or gets in after it has waited.
<1>6. ASSUME NEW t \in Writers, acquire_writer(t), Busy
      PROVE  QueueCoversWaiters'
  <2>1. /\ pc[t] = "idle" /\ pc' = [pc EXCEPT ![t] = "wwait"]
        /\ queue' = Append(queue, t)
    BY <1>6 DEF acquire_writer
  <2>2. /\ WaitingWriters' = WaitingWriters \cup {t} /\ t \notin WaitingWriters
        /\ \A u \in Threads : pc[u] = "rwait" => pc'[u] = "rwait"
    BY <2>1 DEF WaitingWriters, LockTypeOK, Threads
  <2>3. /\ Len(queue') = Len(queue) + 1
        /\ queue'[Len(queue) + 1] = t /\ t # read_condition
        /\ \A i \in 1 .. Len(queue) : queue'[i] = queue[i]
    BY <2>1 DEF LockTypeOK
  <2>4. /\ QueuedWriters' = QueuedWriters \cup {Len(queue) + 1}
        /\ Len(queue) + 1 \notin QueuedWriters
    BY <1>1, <2>3 DEF QueuedWriters
  <2>5. /\ Cardinality(QueuedWriters') = Cardinality(QueuedWriters) + 1
        /\ Cardinality(WaitingWriters') = Cardinality(WaitingWriters) + 1
    BY <1>2, <2>2, <2>4, FS_AddElement
  <2>6. DOMAIN queue' \ QueuedWriters' = DOMAIN queue \ QueuedWriters
    BY <1>1, <2>3 DEF QueuedWriters
  <2>7. DOMAIN queue' # QueuedWriters' => DOMAIN queue # QueuedWriters
    BY <2>6 DEF QueuedWriters
  <2>8. QED
    BY <1>2, <2>2, <2>5, <2>6, <2>7 DEF QueueCoversWaiters
<1>7. ASSUME NEW t \in Writers, wake_writer(t)
      PROVE  QueueCoversWaiters'
  <2>1. /\ pc[t] = "wwait" /\ pc' = [pc EXCEPT ![t] = "writing"]
        /\ queue' = PopHead(t)
    BY <1>7 DEF wake_writer, EnterWriter
  <2>2. /\ WaitingWriters' = WaitingWriters \ {t} /\ t \in WaitingWriters
        /\ \A u \in Threads : pc[u] = "rwait" => pc'[u] = "rwait"
    BY <2>1 DEF WaitingWriters, LockTypeOK, Threads
  <2>3. Cardinality(WaitingWriters') = Cardinality(WaitingWriters) - 1
    BY <1>2, <2>2, FS_RemoveElement
  <2>4. queue # <<>>
    <3>1. Cardinality(WaitingWriters) # 0
      BY <1>2, <2>2, FS_EmptySet
    <3>2. Cardinality(QueuedWriters) # 0
      BY <1>2, <3>1 DEF QueueCoversWaiters
    <3>3. QueuedWriters # {}
      BY <3>2, FS_EmptySet
    <3>4. QED
      BY <3>3 DEF QueuedWriters
  <2>5. Len(queue) >= 1
    BY <2>4 DEF LockTypeOK
  <2>6. /\ Len(queue') = Len(queue) - 1
        /\ \A i \in 1 .. Len(queue) - 1 :
              queue'[i] = IF queue[i + 1] = t THEN Nobody ELSE queue[i + 1]
    BY <1>1, <2>1, <2>5 DEF PopHead
  <2>7. \A i \in 1 .. Len(queue) - 1 :
           queue'[i] = read_condition <=> queue[i + 1] = read_condition
    BY <2>6
  <2>8. Cardinality(QueuedWriters') = Cardinality(QueuedWriters \ {1})
    BY <2>4, <2>6, <2>7, PopMovesUp
  <2>9. Cardinality(QueuedWriters \ {1}) >= Cardinality(QueuedWriters) - 1
    <3>1. CASE 1 \in QueuedWriters
      <4>1. Cardinality(QueuedWriters \ {1}) = Cardinality(QueuedWriters) - 1
        BY <1>2, <3>1, FS_RemoveElement
      <4>2. QED
        BY <1>2, <4>1
    <3>2. CASE 1 \notin QueuedWriters
      <4>1. QueuedWriters \ {1} = QueuedWriters
        BY <3>2
      <4>2. QED
        BY <1>2, <4>1
    <3>3. QED
      BY <3>1, <3>2
  <2>10. Cardinality(QueuedWriters') >= Cardinality(WaitingWriters')
    <3>1. Cardinality(QueuedWriters \ {1}) \in Nat
      BY <1>2, FS_Subset, FS_CardinalityType
    <3>2. QED
      BY <1>2, <2>3, <2>8, <2>9, <3>1 DEF QueueCoversWaiters
  <2>11. \A i \in DOMAIN queue' \ QueuedWriters' : i + 1 \in DOMAIN queue \ QueuedWriters
    BY <1>1, <2>6, <2>7 DEF QueuedWriters
  <2>12. \A i, j \in DOMAIN queue' \ QueuedWriters' : i = j
    <3>1. ASSUME NEW i \in DOMAIN queue' \ QueuedWriters', NEW j \in DOMAIN queue' \ QueuedWriters'
          PROVE  i = j
      <4>1. i + 1 = j + 1
        BY <2>11, <3>1 DEF QueueCoversWaiters
      <4>2. i \in Nat /\ j \in Nat
        BY <1>1, <3>1
      <4>3. QED
        BY <4>1, <4>2
    <3>2. QED
      BY <3>1
  <2>13. DOMAIN queue' # QueuedWriters' => DOMAIN queue # QueuedWriters
    BY <2>11 DEF QueuedWriters
  <2>14. QED
    BY <2>2, <2>10, <2>12, <2>13 DEF QueueCoversWaiters
<1>8. CASE UNCHANGED lockVars
  BY <1>8 DEF lockVars, QueueCoversWaiters, QueuedWriters, WaitingWriters
<1>9. ASSUME NEW t \in Readers, ReaderLockStep(t)
      PROVE  QueueCoversWaiters'
  BY <1>3, <1>4, <1>5, <1>9
     DEF ReaderLockStep, acquire_reader, release_reader, EnterReader, Threads
<1>10. ASSUME NEW t \in Writers, WriterLockStep(t)
      PROVE  QueueCoversWaiters'
  BY <1>4, <1>6, <1>7, <1>10
     DEF WriterLockStep, acquire_writer, QueueUncontended, release_writer, EnterWriter, Threads
<1>11. QED
  BY <1>8, <1>9, <1>10, LockSteps

\* Whichever thread wakes first, and whosever condition it pops: pop(0) always
\* finds one, and the readers' condition is in line at most once.
THEOREM QueueCovered == Spec => []QueueCoversWaiters
<1>1. Init => QueueCoversWaiters
  <2> SUFFICES ASSUME Init
               PROVE  QueueCoversWaiters
    OBVIOUS
  <2>1. DOMAIN queue = {} /\ QueuedWriters = {} /\ WaitingWriters = {}
    BY DEF Init, LockInit, QueuedWriters, WaitingWriters
  <2>2. Cardinality(QueuedWriters) = 0 /\ Cardinality(WaitingWriters) = 0
    BY <2>1, FS_EmptySet
  <2>3. QED
    BY <2>1, <2>2 DEF QueueCoversWaiters
<1>2. QED
  BY <1>1, LockInitOK, LockTypeStep, QueueStep, PTL DEF Spec

-------------------------------------------------------------------------------
(* The block *)

DataTypeOK ==
    /\ cells \in [Cells -> Vals]
    /\ pos \in [Threads -> 0 .. DataCount]
    /\ arg \in [Threads -> Vals]
    /\ buf \in [Readers -> [Cells -> Vals]]
    /\ got \in [Readers -> [Cells -> Vals]]

LastCell == cells[DataCount]

\* Who holds the lock, and how far the holder has got, determine the block.
Copied == \A t \in Reading : \A c \in 1 .. pos[t] : buf[t][c] = cells[c]

Uniform == Writing = {} => \A c \in Cells : cells[c] = LastCell

HalfWritten == \A t \in Writing : \A c \in Cells :
                  cells[c] = IF c <= pos[t] THEN arg[t] ELSE LastCell

Outside == \A t \in Threads : t \notin Reading \cup Writing => pos[t] = 0

BlockInv == Copied /\ Uniform /\ HalfWritten /\ Outside

IInv == LockTypeOK /\ MutualExclusion /\ DataTypeOK /\ BlockInv

LEMMA TypeParts == TypeOK <=> LockTypeOK /\ DataTypeOK
BY DEF TypeOK, DataTypeOK

LEMMA DataTypeStep == LockTypeOK /\ DataTypeOK /\ [Next]_vars => DataTypeOK'
<1> SUFFICES ASSUME LockTypeOK, DataTypeOK, [Next]_vars
             PROVE  DataTypeOK'
  OBVIOUS
<1> USE DEF DataTypeOK, Threads
<1>1. ASSUME NEW t \in Readers, Read(t)
      PROVE  DataTypeOK'
  <2>1. CASE ReadCell(t)
    <3>1. pos[t] + 1 \in Cells /\ pos[t] + 1 \in 0 .. DataCount
      BY <2>1 DEF ReadCell, Cells
    <3>2. buf' \in [Readers -> [Cells -> Vals]]
      BY <2>1, <3>1 DEF ReadCell
    <3>3. QED
      BY <2>1, <3>1, <3>2 DEF ReadCell
  <2>2. CASE getValues(t)
    BY <2>2 DEF getValues, Blank
  <2>3. CASE EnterRead(t) \/ validate(t)
    BY <2>3 DEF EnterRead, validate, dataVars
  <2>4. QED
    BY <1>1, <2>1, <2>2, <2>3 DEF Read, LeaveRead
<1>2. ASSUME NEW t \in Writers, Write(t)
      PROVE  DataTypeOK'
  <2>1. CASE CallSetValues(t)
    BY <2>1 DEF CallSetValues
  <2>2. CASE ResumeSetValues(t)
    BY <2>2 DEF ResumeSetValues, dataVars
  <2>3. CASE WriteCell(t)
    <3>1. pos[t] + 1 \in Cells /\ pos[t] + 1 \in 0 .. DataCount
      BY <2>3 DEF WriteCell, Cells
    <3>2. QED
      BY <2>3, <3>1 DEF WriteCell
  <2>4. CASE setValues(t)
    BY <2>4 DEF setValues
  <2>5. QED
    BY <1>2, <2>1, <2>2, <2>3, <2>4 DEF Write, WriteOn
<1>3. CASE UNCHANGED vars
  BY <1>3 DEF vars, dataVars
<1>4. QED
  BY <1>1, <1>2, <1>3 DEF Next

LEMMA DataInit == Init => DataTypeOK /\ BlockInv
<1> SUFFICES ASSUME Init
             PROVE  DataTypeOK /\ BlockInv
  OBVIOUS
<1>1. Reading = {} /\ Writing = {}
  BY DEF Init, LockInit, Reading, Writing
<1>2. DataTypeOK
  BY DEF Init, DataTypeOK, Blank
<1>3. DataCount \in Cells
  BY DEF Cells
<1>4. BlockInv
  BY <1>1, <1>3 DEF Init, Blank, BlockInv, Copied, Uniform, HalfWritten, Outside, LastCell
<1>5. QED
  BY <1>2, <1>4

\* Every behaviour of the data block keeps the types of lock and block.
THEOREM Typing == Spec => []TypeOK
<1>1. QED
  BY LockInitOK, LockTypeStep, DataInit, DataTypeStep, TypeParts, PTL DEF Spec

LEMMA BlockStep == IInv /\ [Next]_vars => BlockInv'
<1> SUFFICES ASSUME LockTypeOK, MutualExclusion, DataTypeOK, BlockInv, [Next]_vars
             PROVE  BlockInv'
  BY DEF IInv
<1>1. ASSUME UNCHANGED dataVars, Reading' = Reading, Writing' = Writing
      PROVE  BlockInv'
  BY <1>1 DEF dataVars, BlockInv, Copied, Uniform, HalfWritten, Outside, LastCell
<1>2. ASSUME NEW t \in Readers, Read(t)
      PROVE  BlockInv'
  <2>1. CASE EnterRead(t)
    <3>1. UNCHANGED dataVars
      BY <2>1 DEF EnterRead
    <3>2. CASE pc[t] \in {"idle", "rwait"} /\ ~writer /\ EnterReader(t)
      <4>1. Reading' = Reading \cup {t} /\ t \notin Reading
        BY <3>2 DEF EnterReader, Reading, LockTypeOK, Threads
      <4>2. Writing' = Writing
        BY <3>2 DEF EnterReader, Writing, LockTypeOK, Threads
      <4>3. pos[t] = 0
        BY <3>2 DEF BlockInv, Outside, Reading, Writing, Threads
      <4>4. Copied'
        BY <3>1, <4>1, <4>3 DEF dataVars, BlockInv, Copied
      <4>5. Uniform' /\ HalfWritten' /\ Outside'
        BY <3>1, <4>1, <4>2
           DEF dataVars, BlockInv, Uniform, HalfWritten, Outside, LastCell
      <4>6. QED
        BY <4>4, <4>5 DEF BlockInv
    <3>3. CASE pc[t] = "idle" /\ pc' = [pc EXCEPT ![t] = "rwait"]
      <4>1. Reading' = Reading /\ Writing' = Writing
        BY <3>3 DEF Reading, Writing, LockTypeOK, Threads
      <4>2. QED
        BY <1>1, <3>1, <4>1
    <3>4. QED
      BY <2>1, <3>2, <3>3
         DEF EnterRead, acquire_reader, wake_reader, is_pending_writer
  <2>2. CASE validate(t) \/ getValues(t)
    <3>1. /\ Reading' = Reading \ {t} /\ Writing' = Writing /\ t \in Reading
          /\ cells' = cells /\ arg' = arg
      BY <2>2 DEF validate, getValues, release_reader, dataVars, Reading, Writing,
                  LockTypeOK, Threads
    <3>2. /\ pos' = [pos EXCEPT ![t] = 0]
          /\ \A u \in Readers \ {t} : buf'[u] = buf[u]
      BY <2>2 DEF validate, getValues, dataVars, DataTypeOK
    <3>3. t \notin Writing
      BY <3>1 DEF MutualExclusion
    <3>4. Copied'
      BY <3>1, <3>2 DEF BlockInv, Copied, LockTypeOK, DataTypeOK, Reading
    <3>5. Uniform' /\ HalfWritten'
      BY <3>1, <3>2, <3>3
         DEF BlockInv, Uniform, HalfWritten, LastCell, DataTypeOK, Writing
    <3>6. Outside'
      BY <3>1, <3>2 DEF BlockInv, Outside, DataTypeOK
    <3>7. QED
      BY <3>4, <3>5, <3>6 DEF BlockInv
  <2>3. CASE ReadCell(t)
    <3>1. /\ Reading' = Reading /\ Writing' = Writing /\ t \in Reading
          /\ cells' = cells /\ arg' = arg
      BY <2>3 DEF ReadCell, lockVars, Reading, Writing, Threads
    <3>2. Writing = {}
      BY <3>1 DEF MutualExclusion
    <3>3. pos[t] + 1 \in Cells /\ pos[t] \in Nat
      BY <2>3 DEF ReadCell, DataTypeOK, Cells, Threads
    <3>4. ASSUME NEW u \in Reading, NEW c \in 1 .. pos'[u]
          PROVE  buf'[u][c] = cells[c]
      <4>1. u \in Readers
        BY DEF Reading, LockTypeOK
      <4>2. CASE u # t
        BY <2>3, <3>4, <4>1, <4>2 DEF ReadCell, BlockInv, Copied, DataTypeOK, Reading
      <4>3. CASE u = t /\ c = pos[t] + 1
        BY <2>3, <3>3, <4>3 DEF ReadCell, DataTypeOK
      <4>4. CASE u = t /\ c # pos[t] + 1
        <5>0. pos'[t] = pos[t] + 1
          BY <2>3 DEF ReadCell, DataTypeOK, Threads
        <5>1. c \in 1 .. pos[t]
          BY <3>3, <3>4, <4>4, <5>0
        <5>2. buf'[t][c] = buf[t][c]
          BY <2>3, <3>3, <4>4 DEF ReadCell, DataTypeOK
        <5>3. QED
          BY <3>1, <4>4, <5>1, <5>2 DEF BlockInv, Copied
      <4>5. QED
        BY <4>2, <4>3, <4>4
    <3>5. Copied'
      BY <3>1, <3>4 DEF Copied
    <3>6. Uniform' /\ HalfWritten'
      BY <3>1, <3>2 DEF BlockInv, Uniform, HalfWritten, LastCell
    <3>7. Outside'
      BY <2>3, <3>1 DEF ReadCell, BlockInv, Outside, DataTypeOK
    <3>8. QED
      BY <3>5, <3>6, <3>7 DEF BlockInv
  <2>4. QED
    BY <1>2, <2>1, <2>2, <2>3 DEF Read, LeaveRead
<1>3. ASSUME NEW t \in Writers, Write(t)
      PROVE  BlockInv'
  <2>1. CASE CallSetValues(t) \/ ResumeSetValues(t)
    <3>1. /\ cells' = cells /\ pos' = pos /\ buf' = buf
          /\ \A u \in Threads \ {t} : arg'[u] = arg[u]
      BY <2>1 DEF CallSetValues, ResumeSetValues, dataVars, DataTypeOK
    <3>2. pc[t] \in {"idle", "wwait"}
      BY <2>1 DEF CallSetValues, ResumeSetValues, acquire_writer, wake_writer
    <3>3. t \notin Reading /\ t \notin Writing /\ pos[t] = 0
      BY <3>2 DEF BlockInv, Outside, Reading, Writing, Threads
    <3>4. CASE ~Busy /\ EnterWriter(t)
      <4>1. Reading' = Reading /\ Writing' = {t} /\ Writing = {}
        BY <3>2, <3>4 DEF EnterWriter, Busy, Reading, Writing, LockTypeOK,
                          MutualExclusion, Threads
      <4>2. Copied' /\ Uniform'
        BY <3>1, <4>1 DEF BlockInv, Copied, Uniform
      <4>3. HalfWritten'
        BY <3>1, <3>3, <4>1 DEF BlockInv, Uniform, HalfWritten, LastCell, Cells
      <4>4. Outside'
        BY <3>1, <4>1 DEF BlockInv, Outside
      <4>5. QED
        BY <4>2, <4>3, <4>4 DEF BlockInv
    <3>5. CASE pc' = [pc EXCEPT ![t] = "wwait"]
      <4>1. Reading' = Reading /\ Writing' = Writing
        BY <3>3, <3>5 DEF Reading, Writing, LockTypeOK, Threads
      <4>2. \A u \in Writing : arg'[u] = arg[u]
        BY <3>1, <3>3 DEF Writing
      <4>3. Copied' /\ Uniform' /\ Outside'
        BY <3>1, <4>1 DEF BlockInv, Copied, Uniform, Outside, LastCell
      <4>4. HalfWritten'
        BY <3>1, <4>1, <4>2 DEF BlockInv, HalfWritten, LastCell
      <4>5. QED
        BY <4>3, <4>4 DEF BlockInv
    <3>6. QED
      BY <2>1, <3>4, <3>5
         DEF CallSetValues, ResumeSetValues, acquire_writer, wake_writer
  <2>2. CASE WriteCell(t)
    <3>1. /\ Reading' = Reading /\ Writing' = Writing /\ t \in Writing
          /\ arg' = arg /\ buf' = buf
      BY <2>2 DEF WriteCell, lockVars, Reading, Writing, Threads
    <3>2. Reading = {} /\ Writing = {t}
      BY <3>1 DEF MutualExclusion
    <3>3. pos[t] \in Nat /\ pos[t] < DataCount /\ pos'[t] = pos[t] + 1
      BY <2>2 DEF WriteCell, DataTypeOK, Threads
    <3>4. \A c \in Cells : cells'[c] = IF c = pos[t] + 1 THEN arg[t] ELSE cells[c]
      BY <2>2, <3>3 DEF WriteCell, DataTypeOK, Cells
    <3>5. \A c \in Cells : cells[c] = IF c <= pos[t] THEN arg[t] ELSE LastCell
      BY <3>1 DEF BlockInv, HalfWritten
    <3>6. ASSUME NEW c \in Cells
          PROVE  cells'[c] = IF c <= pos'[t] THEN arg[t] ELSE LastCell'
      BY <3>3, <3>4, <3>5 DEF LastCell, Cells
    <3>7. HalfWritten'
      BY <3>1, <3>2, <3>6 DEF HalfWritten
    <3>8. Copied' /\ Uniform'
      BY <3>1, <3>2 DEF Copied, Uniform
    <3>9. Outside'
      BY <2>2, <3>1 DEF WriteCell, BlockInv, Outside, DataTypeOK
    <3>10. QED
      BY <3>7, <3>8, <3>9 DEF BlockInv
  <2>3. CASE setValues(t)
    <3>1. /\ Reading' = Reading /\ Writing' = Writing \ {t} /\ t \in Writing
          /\ cells' = cells /\ buf' = buf /\ pos' = [pos EXCEPT ![t] = 0]
      BY <2>3 DEF setValues, release_writer, Reading, Writing, LockTypeOK, Threads
    <3>2. Reading = {} /\ Writing' = {}
      BY <3>1 DEF MutualExclusion
    <3>3. \A c \in Cells : cells[c] = arg[t]
      BY <2>3, <3>1 DEF setValues, BlockInv, HalfWritten, Cells
    <3>4. Uniform'
      BY <3>1, <3>3 DEF Uniform, LastCell, Cells
    <3>5. Copied' /\ HalfWritten'
      BY <3>1, <3>2 DEF Copied, HalfWritten
    <3>6. Outside'
      BY <3>1, <3>2 DEF BlockInv, Outside, DataTypeOK
    <3>7. QED
      BY <3>4, <3>5, <3>6 DEF BlockInv
  <2>4. QED
    BY <1>3, <2>1, <2>2, <2>3 DEF Write, WriteOn
<1>4. CASE UNCHANGED vars
  BY <1>1, <1>4 DEF vars, lockVars, Reading, Writing
<1>5. QED
  BY <1>2, <1>3, <1>4 DEF Next

LEMMA Inductive == Spec => []IInv
<1>1. Init => IInv
  BY LockInitOK, DataInit DEF IInv
<1>2. IInv /\ [Next]_vars => IInv'
  BY LockTypeStep, MutualExclusionStep, DataTypeStep, BlockStep DEF IInv
<1>3. QED
  BY <1>1, <1>2, PTL DEF Spec

-------------------------------------------------------------------------------
(* The block implements an atomic one *)

LEMMA NextAtomic == IInv /\ [Next]_vars => [AB!Next]_(AB!vars)
<1> SUFFICES ASSUME LockTypeOK, MutualExclusion, DataTypeOK, BlockInv, [Next]_vars
             PROVE  AB!Next \/ UNCHANGED AB!vars
  BY DEF IInv
<1> DEFINE value == [c \in Cells |-> cells[DataCount]]
<1>1. ASSUME NEW t \in Readers, getValues(t)
      PROVE  AB!Next
  <2>1. t \in Reading /\ pos[t] = DataCount
    BY <1>1 DEF getValues, release_reader, Reading, Threads
  <2>2. Writing = {}
    BY <2>1 DEF MutualExclusion
  <2>3. \A c \in Cells : buf[t][c] = cells[DataCount]
    BY <2>1, <2>2 DEF BlockInv, Copied, Uniform, LastCell, Cells
  <2>4. buf[t] = value
    BY <2>3 DEF DataTypeOK
  <2>5. got' = [got EXCEPT ![t] = value] /\ value' = value
    BY <1>1, <2>4 DEF getValues
  <2>6. AB!getValues(t)
    BY <2>5 DEF AB!getValues
  <2>7. QED
    BY <2>6 DEF AB!Next
<1>2. ASSUME NEW t \in Writers, WriteCell(t)
      PROVE  AB!Next \/ UNCHANGED AB!vars
  <2>1. pos[t] \in Nat /\ DataCount \in Cells /\ got' = got
    BY <1>2 DEF WriteCell, DataTypeOK, Threads, Cells
  <2>2. CASE pos[t] + 1 = DataCount
    <3>1. cells'[DataCount] = arg[t]
      BY <1>2, <2>1, <2>2 DEF WriteCell, DataTypeOK
    <3>2. arg[t] \in Vals
      BY DEF DataTypeOK, Threads
    <3>3. AB!setValues(arg[t])
      BY <2>1, <3>1 DEF AB!setValues
    <3>4. QED
      BY <3>2, <3>3 DEF AB!Next
  <2>3. CASE pos[t] + 1 # DataCount
    <3>1. cells'[DataCount] = cells[DataCount]
      BY <1>2, <2>1, <2>3 DEF WriteCell, DataTypeOK
    <3>2. QED
      BY <2>1, <3>1 DEF AB!vars
  <2>4. QED
    BY <2>2, <2>3
<1>3. CASE cells' = cells /\ got' = got
  BY <1>3 DEF AB!vars
<1>4. \/ \E t \in Readers : getValues(t)
      \/ \E t \in Writers : WriteCell(t)
      \/ cells' = cells /\ got' = got
  BY DEF Next, Read, Write, EnterRead, validate, LeaveRead, ReadCell, CallSetValues,
         WriteOn, ResumeSetValues, setValues, vars, dataVars
<1>5. QED
  BY <1>1, <1>2, <1>3, <1>4

\* Under the lock, a register-by-register copy behaves as an indivisible one:
\* what a read returns is what one write, or the initialisation, stored.
THEOREM Atomicity == Spec => RefinesAtomicBlock
<1>1. Init => AB!Init
  <2> SUFFICES ASSUME Init
               PROVE  AB!Init
    OBVIOUS
  <2>1. DataCount \in Cells
    BY DEF Cells
  <2>2. [c \in Cells |-> cells[DataCount]] = [c \in Cells |-> Zero]
    BY <2>1 DEF Init, Blank
  <2>3. QED
    BY <2>2 DEF Init, Blank, AB!Init
<1>2. QED
  BY <1>1, Inductive, NextAtomic, PTL DEF RefinesAtomicBlock, AB!Spec, Spec
=================================================================================
