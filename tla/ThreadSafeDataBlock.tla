--------------------------- MODULE ThreadSafeDataBlock ---------------------------
(***************************************************************************)
(* A Modbus outstation keeps each table of registers in a data block that  *)
(* its TCP handler threads read for the masters while its ping_outstation  *)
(* threads overwrite it, whole, with what the Lua script generates.  The   *)
(* block itself copies the registers one after the other; the decorator    *)
(* holds the ReadWriteLock around every call.                              *)
(***************************************************************************)
EXTENDS ReadWriteLock

CONSTANTS
    DataCount,  \* how many registers the block has
    Vals,       \* what a register can hold; setValues is given a list of one
    Zero        \* the initial value of every register

Cells == 1 .. DataCount

ASSUME DataAssumption == DataCount \in Nat \ {0} /\ Zero \in Vals

VARIABLES
    cells,  \* the registers
    pos,    \* pos[t]: how many registers the call of t has copied
    arg,    \* arg[t]: the value that the call of setValues of t writes
    buf,    \* buf[t]: what the call of getValues of t has copied
    got     \* got[t]: what the last getValues of t returned

dataVars == <<cells, pos, arg, buf, got>>
vars == <<lockVars, dataVars>>

Blank == [c \in Cells |-> Zero]

Init == /\ LockInit
        /\ cells = Blank
        /\ pos = [t \in Threads |-> 0]
        /\ arg = [t \in Threads |-> Zero]
        /\ buf = [t \in Readers |-> Blank]
        /\ got = [t \in Readers |-> Blank]

\* get_reader_lock: entered by validate and by getValues alike.
EnterRead(t) == /\ acquire_reader(t) \/ wake_reader(t)
                /\ UNCHANGED dataVars

\* validate looks at the bounds of the block only, and those never change.
validate(t) == /\ pos[t] = 0
               /\ release_reader(t)
               /\ UNCHANGED dataVars

\* One register of block.getValues.
ReadCell(t) ==
    /\ pc[t] = "reading"
    /\ pos[t] < DataCount
    /\ buf' = [buf EXCEPT ![t][pos[t] + 1] = cells[pos[t] + 1]]
    /\ pos' = [pos EXCEPT ![t] = @ + 1]
    /\ UNCHANGED <<lockVars, cells, arg, got>>

getValues(t) ==
    /\ pos[t] = DataCount
    /\ release_reader(t)
    /\ got' = [got EXCEPT ![t] = buf[t]]
    /\ buf' = [buf EXCEPT ![t] = Blank]
    /\ pos' = [pos EXCEPT ![t] = 0]
    /\ UNCHANGED <<cells, arg>>

CallSetValues(t) == /\ acquire_writer(t)
                    /\ \E v \in Vals : arg' = [arg EXCEPT ![t] = v]
                    /\ UNCHANGED <<cells, pos, buf, got>>

ResumeSetValues(t) == wake_writer(t) /\ UNCHANGED dataVars

\* Mutant: one register too many is written.
WriteCellPastEnd(t) ==
    /\ pc[t] = "writing"
    /\ pos[t] <= DataCount
    /\ cells' = [cells EXCEPT ![pos[t] + 1] = arg[t]]
    /\ pos' = [pos EXCEPT ![t] = @ + 1]
    /\ UNCHANGED <<lockVars, arg, buf, got>>

\* One register of block.setValues.
WriteCell(t) ==
    /\ pc[t] = "writing"
    /\ pos[t] < DataCount
    /\ cells' = [cells EXCEPT ![pos[t] + 1] = arg[t]]
    /\ pos' = [pos EXCEPT ![t] = @ + 1]
    /\ UNCHANGED <<lockVars, arg, buf, got>>

setValues(t) ==
    /\ pos[t] = DataCount
    /\ release_writer(t)
    /\ pos' = [pos EXCEPT ![t] = 0]
    /\ arg' = [arg EXCEPT ![t] = Zero]
    /\ UNCHANGED <<cells, buf, got>>

\* What a thread does once it has called: it waits at most, and then goes on.
ReadOn(t) == wake_reader(t) /\ UNCHANGED dataVars
WriteOn(t) == ResumeSetValues(t) \/ WriteCell(t) \/ setValues(t)
LeaveRead(t) == ReadCell(t) \/ getValues(t)

Read(t) == EnterRead(t) \/ validate(t) \/ LeaveRead(t)
Write(t) == CallSetValues(t) \/ WriteOn(t)

Next == \/ \E t \in Readers : Read(t)
        \/ \E t \in Writers : Write(t)

Spec == Init /\ [][Next]_vars

\* No thread has to make a call; one that has made it is scheduled until the
\* call returns, and a waiting one looks at its condition every second.
Fairness == /\ \A t \in Readers : WF_vars(ReadOn(t)) /\ WF_vars(validate(t) \/ LeaveRead(t))
            /\ \A t \in Writers : WF_vars(WriteOn(t))

FairSpec == Spec /\ Fairness

-------------------------------------------------------------------------------
(* Properties *)

\* The types of the lock and of the block.
TypeOK ==
    /\ LockTypeOK
    /\ cells \in [Cells -> Vals]
    /\ pos \in [Threads -> 0 .. DataCount]
    /\ arg \in [Threads -> Vals]
    /\ buf \in [Readers -> [Cells -> Vals]]
    /\ got \in [Readers -> [Cells -> Vals]]

\* A read never mixes two writes: the block under its lock implements one whose
\* calls are atomic.  A write takes effect with its last register.
AB == INSTANCE AtomicBlock WITH value <- [c \in Cells |-> cells[DataCount]]
RefinesAtomicBlock == AB!Spec
===============================================================================
