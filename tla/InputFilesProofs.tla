-------------------------- MODULE InputFilesProofs --------------------------
(***************************************************************************)
(* Proofs about InputFiles: its invariants, for any number of files and    *)
(* processors, and that it implements InOrderInputs.                       *)
(***************************************************************************)
EXTENDS InputFiles, TLAPS, FiniteSetTheorems

-----------------------------------------------------------------------------
(* The constants.                                                          *)

\* The linker permits at least one worker and at most one per file.
LEMMA WorkerCount ==
    /\ MaxWorkers \in Nat \ {0}
    /\ MaxWorkers <= NFiles
    /\ 1 \in Workers
    /\ MainThread \notin Workers
    /\ Free \notin Workers
    /\ Free # MainThread
BY NFilesAssumption, NCPUAssumption
   DEF MaxWorkers, Workers, MainThread, Free

\* A set of slots has at most NFiles elements, and none if its size is zero.
LEMMA SlotSets ==
    ASSUME NEW T \in SUBSET Slots
    PROVE  /\ IsFiniteSet(T)
           /\ Cardinality(T) \in 0 .. NFiles
           /\ Cardinality(T) = 0 <=> T = {}
<1>1. IsFiniteSet(Slots) /\ Cardinality(Slots) = NFiles
    BY FS_Interval, NFilesAssumption DEF Slots
<1>2. IsFiniteSet(T) /\ Cardinality(T) <= NFiles
    BY <1>1, FS_Subset
<1>3. Cardinality(T) \in Nat
    BY <1>2, FS_CardinalityType
<1>. QED
    BY <1>2, <1>3, FS_EmptySet, NFilesAssumption

\* A set of workers has at most MaxWorkers elements.
LEMMA WorkerSets ==
    ASSUME NEW T \in SUBSET Workers
    PROVE  /\ IsFiniteSet(T)
           /\ Cardinality(T) \in 0 .. MaxWorkers
           /\ Cardinality(T) = 0 <=> T = {}
<1>1. IsFiniteSet(Workers) /\ Cardinality(Workers) = MaxWorkers
    BY FS_Interval, WorkerCount DEF Workers
<1>2. IsFiniteSet(T) /\ Cardinality(T) <= MaxWorkers
    BY <1>1, FS_Subset
<1>3. Cardinality(T) \in Nat
    BY <1>2, FS_CardinalityType
<1>. QED
    BY <1>2, <1>3, FS_EmptySet, WorkerCount

-----------------------------------------------------------------------------
(* The inductive invariant.                                                *)

\* The state that the constructor leaves satisfies the invariant.
LEMMA InitInv == Init => IInv
<1>. SUFFICES ASSUME Init PROVE IInv
    OBVIOUS
<1>. USE WorkerCount, NFilesAssumption, PipelineAssumption, FilesAssumption
<1>1. InitiallyReady \in SUBSET Slots /\ ListedFiles \in SUBSET Slots
    BY DEF InitiallyReady, ListedFiles
<1>2. TypeOK
    BY <1>1, SlotSets, SpuriousAssumption DEF Init, TypeOK, Slots, Workers
<1>3. LockInv
    BY DEF Init, LockInv, Workers
<1>4. FileStageInv
    BY <1>1 DEF Init, FileStageInv, InitiallyReady, ListedFiles, Slots
<1>5. CountInv
    <2>1. IdleSet = {} /\ Unpublished = Slots
        BY DEF Init, IdleSet, Unpublished
    <2>2. Cardinality(Slots) = NFiles
        BY FS_Interval DEF Slots
    <2>. QED
        BY <2>1, <2>2, FS_EmptySet DEF Init, CountInv
<1>6. WorkerInv /\ SleepInv /\ ProgressInv /\ FailInv /\ ReadyWorkIsServed
    BY DEF Init, WorkerInv, SleepInv, ProgressInv, FailInv, ReadyWorkIsServed,
           Workers, Slots
<1>. QED
    BY <1>2, <1>3, <1>4, <1>5, <1>6 DEF IInv

\* The next lemmas: every action preserves the invariant.  In each, the
\* conjuncts that the action cannot disturb together are proved in one step.

\* A worker enters its loop.
LEMMA WorkerStartInv ==
    ASSUME IInv, NEW w \in Workers, WorkerStart(w)
    PROVE  IInv'
<1>. USE WorkerCount DEF IInv, WorkerStart, workVars, poolVars,
           workerVars, listenerVars, mainVars
<1>1. TypeOK' /\ LockInv' /\ WorkerInv'
    BY NFilesAssumption, SpuriousAssumption
       DEF TypeOK, LockInv, WorkerInv, Workers
<1>2. FileStageInv' /\ CountInv'
    BY DEF TypeOK, FileStageInv, CountInv, IdleSet, Unpublished
<1>3. SleepInv' /\ ProgressInv' /\ ReadyWorkIsServed'
    BY DEF TypeOK, LockInv, FileStageInv, SleepInv, ProgressInv,
           ReadyWorkIsServed, Slots
<1>4. FailInv'
    BY DEF TypeOK, FileStageInv, FailInv, Unpublished
<1>. QED
    BY <1>1, <1>2, <1>3, <1>4

\* A worker reports a parse error.
LEMMA WorkerFailedInv ==
    ASSUME IInv, NEW w \in Workers, WorkerFailed(w)
    PROVE  IInv'
<1>. USE WorkerCount DEF IInv, WorkerFailed, workVars, poolVars,
           workerVars, listenerVars, mainVars
<1>1. TypeOK' /\ LockInv' /\ WorkerInv'
    BY NFilesAssumption, SpuriousAssumption
       DEF TypeOK, LockInv, WorkerInv, Workers
<1>2. FileStageInv' /\ CountInv'
    BY DEF TypeOK, FileStageInv, CountInv, IdleSet, Unpublished
<1>3. SleepInv' /\ ProgressInv' /\ ReadyWorkIsServed'
    BY DEF TypeOK, LockInv, FileStageInv, SleepInv, ProgressInv,
           ReadyWorkIsServed, Slots
<1>4. FailInv'
    BY DEF TypeOK, FileStageInv, FailInv, Unpublished
<1>. QED
    BY <1>1, <1>2, <1>3, <1>4

\* A worker goes round its loop.
LEMMA WorkerAgainInv ==
    ASSUME IInv, NEW w \in Workers, WorkerAgain(w)
    PROVE  IInv'
<1>. USE WorkerCount DEF IInv, WorkerAgain, workVars, poolVars,
           workerVars, listenerVars, mainVars
<1>1. TypeOK' /\ LockInv' /\ WorkerInv'
    BY NFilesAssumption, SpuriousAssumption
       DEF TypeOK, LockInv, WorkerInv, Workers
<1>2. FileStageInv' /\ CountInv'
    BY DEF TypeOK, FileStageInv, CountInv, IdleSet, Unpublished
<1>3. SleepInv' /\ ProgressInv' /\ ReadyWorkIsServed'
    BY DEF TypeOK, LockInv, FileStageInv, SleepInv, ProgressInv,
           ReadyWorkIsServed, Slots
<1>4. FailInv'
    BY DEF TypeOK, FileStageInv, FailInv, Unpublished
<1>. QED
    BY <1>1, <1>2, <1>3, <1>4

\* The listener opens the fifo.
LEMMA ListenerOpenInv ==
    ASSUME IInv, ListenerOpen
    PROVE  IInv'
<1>. USE WorkerCount DEF IInv, ListenerOpen, workVars, poolVars,
           workerVars, listenerVars, mainVars
<1>1. TypeOK' /\ LockInv' /\ WorkerInv'
    BY NFilesAssumption, SpuriousAssumption
       DEF TypeOK, LockInv, WorkerInv, Workers
<1>2. FileStageInv' /\ CountInv'
    BY DEF TypeOK, FileStageInv, CountInv, IdleSet, Unpublished
<1>3. SleepInv' /\ ProgressInv' /\ ReadyWorkIsServed'
    BY DEF TypeOK, LockInv, FileStageInv, SleepInv, ProgressInv,
           ReadyWorkIsServed, Slots
<1>4. FailInv'
    BY DEF TypeOK, FileStageInv, FailInv, Unpublished
<1>. QED
    BY <1>1, <1>2, <1>3, <1>4

\* The listener reports a pipeline error.
LEMMA ListenerFailedInv ==
    ASSUME IInv, ListenerFailed
    PROVE  IInv'
<1>. USE WorkerCount DEF IInv, ListenerFailed, SignalNewFile, workVars, poolVars,
           workerVars, listenerVars, mainVars
<1>1. TypeOK' /\ LockInv' /\ WorkerInv'
    BY NFilesAssumption, SpuriousAssumption
       DEF TypeOK, LockInv, WorkerInv, Workers
<1>2. FileStageInv' /\ CountInv'
    BY DEF TypeOK, FileStageInv, CountInv, IdleSet, Unpublished
<1>3. SleepInv' /\ ProgressInv' /\ ReadyWorkIsServed'
    BY DEF TypeOK, LockInv, FileStageInv, SleepInv, ProgressInv,
           ReadyWorkIsServed, Slots
<1>4. FailInv'
    BY DEF TypeOK, FileStageInv, FailInv, Unpublished
<1>. QED
    BY <1>1, <1>2, <1>3, <1>4

\* The listener has seen every file.
LEMMA ListenerEndInv ==
    ASSUME IInv, ListenerEnd
    PROVE  IInv'
<1>. USE WorkerCount DEF IInv, ListenerEnd, workVars, poolVars,
           workerVars, listenerVars, mainVars
<1>1. TypeOK' /\ LockInv' /\ WorkerInv'
    BY NFilesAssumption, SpuriousAssumption
       DEF TypeOK, LockInv, WorkerInv, Workers
<1>2. FileStageInv' /\ CountInv'
    BY DEF TypeOK, FileStageInv, CountInv, IdleSet, Unpublished
<1>3. SleepInv' /\ ProgressInv' /\ ReadyWorkIsServed'
    BY DEF TypeOK, LockInv, FileStageInv, SleepInv, ProgressInv,
           ReadyWorkIsServed, Slots
<1>4. FailInv'
    BY DEF TypeOK, FileStageInv, FailInv, Unpublished
<1>. QED
    BY <1>1, <1>2, <1>3, <1>4

\* The main thread locks the mutex for the next file.
LEMMA MainLockInv ==
    ASSUME IInv, MainLock
    PROVE  IInv'
<1>. USE WorkerCount DEF IInv, MainLock, workVars, poolVars,
           workerVars, listenerVars, mainVars
<1>1. TypeOK' /\ LockInv' /\ WorkerInv'
    BY NFilesAssumption, SpuriousAssumption
       DEF TypeOK, LockInv, WorkerInv, Workers
<1>2. FileStageInv' /\ CountInv'
    BY DEF TypeOK, FileStageInv, CountInv, IdleSet, Unpublished
<1>3. SleepInv' /\ ProgressInv' /\ ReadyWorkIsServed'
    BY DEF TypeOK, LockInv, FileStageInv, SleepInv, ProgressInv,
           ReadyWorkIsServed, Slots
<1>4. FailInv'
    BY DEF TypeOK, FileStageInv, FailInv, Unpublished
<1>. QED
    BY <1>1, <1>2, <1>3, <1>4

\* The main thread returns from its wait.
LEMMA MainWakeInv ==
    ASSUME IInv, MainWake
    PROVE  IInv'
<1>. USE WorkerCount DEF IInv, MainWake, workVars, poolVars,
           workerVars, listenerVars, mainVars
<1>1. TypeOK' /\ LockInv' /\ WorkerInv'
    BY NFilesAssumption, SpuriousAssumption
       DEF TypeOK, LockInv, WorkerInv, Workers
<1>2. FileStageInv' /\ CountInv'
    BY DEF TypeOK, FileStageInv, CountInv, IdleSet, Unpublished
<1>3. SleepInv' /\ ProgressInv' /\ ReadyWorkIsServed'
    BY DEF TypeOK, LockInv, FileStageInv, SleepInv, ProgressInv,
           ReadyWorkIsServed, Slots
<1>4. FailInv'
    BY DEF TypeOK, FileStageInv, FailInv, Unpublished
<1>. QED
    BY <1>1, <1>2, <1>3, <1>4

\* The main thread throws.
LEMMA MainThrowInv ==
    ASSUME IInv, MainThrow
    PROVE  IInv'
<1>. USE WorkerCount DEF IInv, MainThrow, workVars, poolVars,
           workerVars, listenerVars, mainVars
<1>1. TypeOK' /\ LockInv' /\ WorkerInv'
    BY NFilesAssumption, SpuriousAssumption
       DEF TypeOK, LockInv, WorkerInv, Workers
<1>2. FileStageInv' /\ CountInv'
    BY DEF TypeOK, FileStageInv, CountInv, IdleSet, Unpublished
<1>3. SleepInv' /\ ProgressInv' /\ ReadyWorkIsServed'
    BY DEF TypeOK, LockInv, FileStageInv, SleepInv, ProgressInv,
           ReadyWorkIsServed, Slots
<1>4. FailInv'
    BY DEF TypeOK, FileStageInv, FailInv, Unpublished
<1>. QED
    BY <1>1, <1>2, <1>3, <1>4

\* The main thread takes a parsed file.
LEMMA MainTakeInv ==
    ASSUME IInv, MainTake
    PROVE  IInv'
<1>. USE WorkerCount DEF IInv, MainTake, workVars, poolVars,
           workerVars, listenerVars, mainVars
<1>1. TypeOK' /\ LockInv' /\ WorkerInv'
    BY NFilesAssumption, SpuriousAssumption
       DEF TypeOK, LockInv, WorkerInv, Workers
<1>2. FileStageInv' /\ CountInv'
    BY DEF TypeOK, FileStageInv, CountInv, IdleSet, Unpublished
<1>3. SleepInv' /\ ProgressInv' /\ ReadyWorkIsServed'
    BY DEF TypeOK, LockInv, FileStageInv, SleepInv, ProgressInv,
           ReadyWorkIsServed, Slots
<1>4. FailInv'
    BY DEF TypeOK, FileStageInv, FailInv, Unpublished
<1>. QED
    BY <1>1, <1>2, <1>3, <1>4

\* The main thread wakes up without a signal.
LEMMA SpuriousMainInv ==
    ASSUME IInv, SpuriousMain
    PROVE  IInv'
<1>. USE WorkerCount DEF IInv, SpuriousMain, workVars, poolVars,
           workerVars, listenerVars, mainVars
<1>1. TypeOK' /\ LockInv' /\ WorkerInv'
    BY NFilesAssumption, SpuriousAssumption
       DEF TypeOK, LockInv, WorkerInv, Workers
<1>2. FileStageInv' /\ CountInv'
    BY DEF TypeOK, FileStageInv, CountInv, IdleSet, Unpublished
<1>3. SleepInv' /\ ProgressInv' /\ ReadyWorkIsServed'
    BY DEF TypeOK, LockInv, FileStageInv, SleepInv, ProgressInv,
           ReadyWorkIsServed, Slots
<1>4. FailInv'
    BY DEF TypeOK, FileStageInv, FailInv, Unpublished
<1>. QED
    BY <1>1, <1>2, <1>3, <1>4

\* A worker wakes up without a signal.
LEMMA SpuriousWorkerInv ==
    ASSUME IInv, NEW w \in Workers, SpuriousWorker(w)
    PROVE  IInv'
<1>. USE WorkerCount DEF IInv, SpuriousWorker, workVars, poolVars,
           workerVars, listenerVars, mainVars
<1>1. TypeOK' /\ LockInv' /\ WorkerInv'
    BY NFilesAssumption, SpuriousAssumption
       DEF TypeOK, LockInv, WorkerInv, Workers
<1>2. FileStageInv' /\ CountInv'
    BY DEF TypeOK, FileStageInv, CountInv, IdleSet, Unpublished
<1>3. SleepInv' /\ ProgressInv' /\ ReadyWorkIsServed'
    BY DEF TypeOK, LockInv, FileStageInv, SleepInv, ProgressInv,
           ReadyWorkIsServed, Slots
<1>4. FailInv'
    BY DEF TypeOK, FileStageInv, FailInv, Unpublished
<1>. QED
    BY <1>1, <1>2, <1>3, <1>4

\* A worker goes to sleep: it joins the idle set, and no file is ready.
LEMMA WorkerIdleInv ==
    ASSUME IInv, NEW w \in Workers, WorkerIdle(w)
    PROVE  IInv'
<1>. USE WorkerCount DEF IInv, workVars, poolVars, workerVars, listenerVars,
                        mainVars
<1>1. LockInv' /\ WorkerInv' /\ FileStageInv'
    BY DEF WorkerIdle, TypeOK, LockInv, WorkerInv, FileStageInv, Workers
<1>2. CountInv'
    <2>1. IdleSet' = IdleSet \cup {w} /\ w \notin IdleSet
        BY DEF WorkerIdle, TypeOK, IdleSet
    <2>2. IsFiniteSet(IdleSet)
        BY WorkerSets DEF IdleSet
    <2>3. Cardinality(IdleSet') = Cardinality(IdleSet) + 1
        BY <2>1, <2>2, FS_AddElement
    <2>. QED
        BY <2>3 DEF WorkerIdle, CountInv, Unpublished
<1>3. TypeOK'
    <2>1. idleWorkers' \in 0 .. MaxWorkers
        BY <1>2, WorkerSets DEF CountInv, IdleSet
    <2>. QED
        BY <2>1 DEF WorkerIdle, TypeOK
<1>4. SleepInv' /\ ProgressInv'
    BY DEF WorkerIdle, TypeOK, LockInv, SleepInv, ProgressInv
<1>5. ReadyWorkIsServed'
    <2>1. readyToParse = {}
        BY SlotSets DEF WorkerIdle, TypeOK, CountInv
    <2>. QED
        BY <2>1 DEF WorkerIdle, ReadyWorkIsServed
<1>6. FailInv'
    BY DEF WorkerIdle, FailInv, Unpublished
<1>. QED
    BY <1>1, <1>2, <1>3, <1>4, <1>5, <1>6

\* A worker returns from its wait: it leaves the idle set.
LEMMA WorkerWakeInv ==
    ASSUME IInv, NEW w \in Workers, WorkerWake(w)
    PROVE  IInv'
<1>. USE WorkerCount DEF IInv, workVars, poolVars, workerVars, listenerVars,
                        mainVars
<1>1. LockInv' /\ WorkerInv' /\ FileStageInv'
    BY DEF WorkerWake, TypeOK, LockInv, WorkerInv, FileStageInv, Workers
<1>2. CountInv'
    <2>1. IdleSet' = IdleSet \ {w} /\ w \in IdleSet
        BY DEF WorkerWake, TypeOK, IdleSet
    <2>2. IsFiniteSet(IdleSet)
        BY WorkerSets DEF IdleSet
    <2>3. Cardinality(IdleSet') = Cardinality(IdleSet) - 1
        BY <2>1, <2>2, FS_RemoveElement
    <2>. QED
        BY <2>3 DEF WorkerWake, CountInv, Unpublished
<1>3. TypeOK'
    <2>1. idleWorkers' \in 0 .. MaxWorkers
        BY <1>2, WorkerSets DEF CountInv, IdleSet
    <2>. QED
        BY <2>1 DEF WorkerWake, TypeOK
<1>4. SleepInv' /\ ProgressInv' /\ ReadyWorkIsServed'
    BY DEF WorkerWake, TypeOK, LockInv, SleepInv, ProgressInv,
           ReadyWorkIsServed
<1>5. FailInv'
    BY DEF WorkerWake, FailInv, Unpublished
<1>. QED
    BY <1>1, <1>2, <1>3, <1>4, <1>5

\* A worker claims the first candidate: ready files stay at or after the
\* cursor because the candidate is the least of them.
LEMMA WorkerClaimInv ==
    ASSUME IInv, NEW w \in Workers, WorkerClaim(w)
    PROVE  IInv'
<1>. USE WorkerCount DEF IInv, workVars, poolVars, workerVars, listenerVars,
                        mainVars
<1>1. PICK s \in Candidates :
        /\ \A t \in Candidates : s <= t
        /\ parseCursor' = s + 1
        /\ readyToParse' = readyToParse \ {s}
        /\ workerSlot' = [workerSlot EXCEPT ![w] = s]
    BY DEF WorkerClaim, ReadyAfterClaim
<1>2. s \in Slots /\ s \in readyToParse /\ s # NULL
    BY FilesAssumption DEF Candidates, TypeOK
<1>3. LockInv' /\ WorkerInv' /\ SleepInv' /\ ProgressInv' /\ ReadyWorkIsServed'
    BY DEF WorkerClaim, TypeOK, LockInv, WorkerInv, SleepInv, ProgressInv,
           ReadyWorkIsServed, Workers
<1>4. FileStageInv'
    BY <1>1, <1>2 DEF WorkerClaim, TypeOK, FileStageInv, Candidates, Slots
<1>5. CountInv'
    <2>1. Cardinality(readyToParse') = Cardinality(readyToParse) - 1
        BY <1>1, <1>2, SlotSets, FS_RemoveElement DEF TypeOK
    <2>2. IdleSet' = IdleSet
        BY DEF WorkerClaim, TypeOK, IdleSet
    <2>. QED
        BY <2>1, <2>2 DEF WorkerClaim, CountInv, Unpublished
<1>6. TypeOK'
    BY <1>1, <1>2, NFilesAssumption DEF WorkerClaim, TypeOK, Slots
<1>7. FailInv'
    BY <1>1, <1>2 DEF WorkerClaim, TypeOK, FailInv, Unpublished
<1>. QED
    BY <1>3, <1>4, <1>5, <1>6, <1>7

\* A worker publishes a file: one file less is unpublished, and the main
\* thread does not stay asleep if it was waiting for this one.
LEMMA WorkerParsedInv ==
    ASSUME IInv, NEW w \in Workers, NEW f \in Files, WorkerParsed(w, f)
    PROVE  IInv'
<1>. USE WorkerCount DEF IInv, workVars, poolVars, workerVars, listenerVars,
                        mainVars
<1>. DEFINE s == workerSlot[w]
<1>1. s \in Slots /\ inputFiles[s] = NULL /\ f # NULL
    BY FilesAssumption DEF WorkerParsed, TypeOK, FileStageInv
<1>2. LockInv' /\ WorkerInv' /\ ReadyWorkIsServed'
    BY DEF WorkerParsed, SignalNewFile, Decremented, TypeOK, LockInv,
           WorkerInv, ReadyWorkIsServed, Workers
<1>3. FileStageInv'
    BY <1>1 DEF WorkerParsed, TypeOK, FileStageInv
<1>4. SleepInv' /\ ProgressInv'
    BY <1>1 DEF WorkerParsed, SignalNewFile, Decremented, TypeOK, LockInv,
                SleepInv, ProgressInv, Slots
<1>5. CountInv'
    <2>1. Unpublished' = Unpublished \ {s} /\ s \in Unpublished
        BY <1>1 DEF WorkerParsed, TypeOK, Unpublished
    <2>2. /\ IsFiniteSet(Unpublished)
          /\ Cardinality(Unpublished) \in Nat
          /\ Cardinality(Unpublished) = 0 <=> Unpublished = {}
        BY SlotSets DEF Unpublished
    <2>3. Cardinality(Unpublished') = Cardinality(Unpublished) - 1
        BY <2>1, <2>2, FS_RemoveElement
    <2>4. IdleSet' = IdleSet
        BY DEF WorkerParsed, TypeOK, IdleSet
    <2>. QED
        BY <2>1, <2>2, <2>3, <2>4 DEF WorkerParsed, Decremented, CountInv
<1>6. TypeOK'
    <2>1. remainingInputFiles' \in 0 .. NFiles
        BY NFilesAssumption DEF WorkerParsed, Decremented, TypeOK
    <2>2. inputFiles' \in [Slots -> Files \cup {NULL}]
        BY <1>1 DEF WorkerParsed, TypeOK
    <2>. QED
        BY <2>1, <2>2 DEF WorkerParsed, SignalNewFile, TypeOK
<1>7. FailInv'
    BY <1>1, FilesAssumption DEF WorkerParsed, TypeOK, FailInv, Unpublished
<1>. QED
    BY <1>2, <1>3, <1>4, <1>5, <1>6, <1>7

\* A worker leaves: without an error everything is published, so that no file
\* is ready that would need it.
LEMMA WorkerExitInv ==
    ASSUME IInv, NEW w \in Workers, WorkerExit(w)
    PROVE  IInv'
<1>. USE WorkerCount DEF IInv, workVars, poolVars, workerVars, listenerVars,
                        mainVars
<1>1. TypeOK' /\ LockInv' /\ WorkerInv' /\ FileStageInv'
    BY DEF WorkerExit, SignalNewFile, TypeOK, LockInv, WorkerInv,
           FileStageInv, Workers
<1>2. CountInv'
    <2>1. IdleSet' = IdleSet
        BY DEF WorkerExit, TypeOK, IdleSet
    <2>. QED
        BY <2>1 DEF WorkerExit, CountInv, Unpublished
<1>3. SleepInv' /\ ProgressInv'
    BY DEF WorkerExit, SignalNewFile, TypeOK, SleepInv, ProgressInv
<1>4. ReadyWorkIsServed'
    <2>1. exception = "none" => Unpublished = {}
        BY SlotSets DEF WorkerExit, CountInv, Unpublished
    <2>2. exception = "none" => readyToParse = {}
        BY <2>1 DEF TypeOK, FileStageInv, Unpublished
    <2>. QED
        BY <2>2 DEF WorkerExit, ReadyWorkIsServed
<1>5. FailInv'
    BY DEF WorkerExit, FailInv, Unpublished
<1>. QED
    BY <1>1, <1>2, <1>3, <1>4, <1>5

\* A file becomes ready: some worker is awake, is woken up, or was never
\* asleep; none has left, because this file is not parsed yet.
LEMMA ListenerReadyInv ==
    ASSUME IInv, NEW s \in Slots, ListenerReady(s)
    PROVE  IInv'
<1>. USE WorkerCount DEF IInv, workVars, poolVars, workerVars, listenerVars,
                        mainVars
<1>1. IdleSet' = IdleSet
    BY DEF ListenerReady, WakeOneWorker, WaitingWorkers, TypeOK, IdleSet
<1>2. /\ readyToParse' = readyToParse \cup {s}
      /\ s \notin readyToParse /\ inputFiles[s] = NULL
    BY DEF ListenerReady, FileStageInv
<1>3. LockInv' /\ WorkerInv' /\ SleepInv' /\ ProgressInv'
    <2>1. LockInv' /\ WorkerInv'
        BY DEF ListenerReady, WakeOneWorker, WaitingWorkers, TypeOK, LockInv, WorkerInv, Workers
    <2>2. SleepInv' /\ ProgressInv'
        BY DEF ListenerReady, WakeOneWorker, WaitingWorkers, TypeOK, LockInv,
               WorkerInv, SleepInv, ProgressInv, Workers
    <2> QED BY <2>1, <2>2
<1>4. FileStageInv'
    BY <1>2 DEF ListenerReady, RewoundCursor, WakeOneWorker, WaitingWorkers,
                TypeOK, FileStageInv, Slots
<1>5. CountInv'
    <2>1. Cardinality(readyToParse') = Cardinality(readyToParse) + 1
        BY <1>2, SlotSets, FS_AddElement DEF TypeOK
    <2>. QED
        BY <1>1, <2>1 DEF ListenerReady, CountInv, Unpublished
<1>6. TypeOK'
    <2>1. readyToParse' \subseteq Slots
        BY <1>2 DEF TypeOK
    <2>2. availableInputFiles' \in 0 .. NFiles
        BY <1>5, <2>1, SlotSets DEF CountInv
    <2>3. parseCursor' \in 0 .. NFiles
        BY NFilesAssumption DEF ListenerReady, RewoundCursor, TypeOK, Slots
    <2>. QED
        BY <2>1, <2>2, <2>3
           DEF ListenerReady, WakeOneWorker, WaitingWorkers, TypeOK
<1>7. ReadyWorkIsServed'
    <2>. SUFFICES ASSUME exception = "none"
                  PROVE  \E w \in Workers : workerPc'[w] \in
                            {"new", "loop", "wake", "parse", "test"}
        BY DEF ListenerReady, ReadyWorkIsServed
    <2>1. remainingInputFiles # 0
        BY <1>2, SlotSets DEF CountInv, Unpublished
    <2>2. CASE idleWorkers = 0
        <3>1. IdleSet = {}
            BY <2>2, WorkerSets DEF CountInv, IdleSet
        <3>2. workerPc[1] \notin {"none", "done"}
            BY <2>1 DEF TypeOK, WorkerInv, Workers
        <3>3. workerPc' = workerPc
            BY <2>2 DEF ListenerReady
        <3>. QED
            BY <3>1, <3>2, <3>3 DEF TypeOK, IdleSet
    <2>3. CASE idleWorkers # 0 /\ WaitingWorkers # {}
        BY <2>3 DEF ListenerReady, WakeOneWorker, WaitingWorkers, TypeOK
    <2>4. CASE idleWorkers # 0 /\ WaitingWorkers = {}
        <3>1. IdleSet # {}
            BY <2>4, WorkerSets, FS_EmptySet DEF CountInv, IdleSet
        <3>. QED
            BY <2>4, <3>1
               DEF ListenerReady, WakeOneWorker, WaitingWorkers, IdleSet
    <2>. QED
        BY <2>2, <2>3, <2>4
<1>8. FailInv'
    BY DEF ListenerReady, FailInv, Unpublished
<1>. QED
    BY <1>3, <1>4, <1>5, <1>6, <1>7, <1>8

\* The main thread goes to sleep, perhaps after starting a worker.
LEMMA MainStarvedInv ==
    ASSUME IInv, MainStarved
    PROVE  IInv'
<1>. USE WorkerCount DEF IInv, workVars, poolVars, workerVars, listenerVars,
                        mainVars
<1>0. fileIndex \in Slots
    BY NFilesAssumption DEF MainStarved, TypeOK, ProgressInv, Slots
<1>1. CASE availableInputFiles > 0 /\ availableWorkers > 0
    <2>1. /\ NextWorker \in Workers /\ workerPc[NextWorker] = "none"
          /\ workerPc' = [workerPc EXCEPT ![NextWorker] = "new"]
          /\ availableWorkers' = availableWorkers - 1
        BY <1>1 DEF MainStarved, NextWorker, TypeOK, WorkerInv, Workers
    <2>2. TypeOK' /\ LockInv'
        BY <1>0, <2>1 DEF MainStarved, TypeOK, LockInv, Workers
    <2>3. WorkerInv'
        BY <2>1 DEF MainStarved, NextWorker, TypeOK, WorkerInv, Workers
    <2>4. FileStageInv'
        BY <2>1 DEF MainStarved, TypeOK, FileStageInv
    <2>5. IdleSet' = IdleSet
        BY <2>1 DEF TypeOK, IdleSet
    <2>6. CountInv'
        BY <2>5 DEF MainStarved, CountInv, Unpublished
    <2>7. SleepInv' /\ ProgressInv' /\ FailInv' /\ ReadyWorkIsServed'
        BY <2>1 DEF MainStarved, TypeOK, SleepInv, ProgressInv, FailInv,
                    Unpublished, ReadyWorkIsServed
    <2>. QED
        BY <2>2, <2>3, <2>4, <2>6, <2>7
<1>2. CASE ~(availableInputFiles > 0 /\ availableWorkers > 0)
    <2>1. UNCHANGED <<workerPc, availableWorkers>>
        BY <1>2 DEF MainStarved
    <2>2. TypeOK' /\ LockInv' /\ WorkerInv' /\ FileStageInv'
        BY <1>0, <2>1
           DEF MainStarved, TypeOK, LockInv, WorkerInv, FileStageInv, Workers
    <2>3. CountInv'
        BY <2>1 DEF MainStarved, CountInv, Unpublished, IdleSet
    <2>4. SleepInv' /\ ProgressInv' /\ FailInv' /\ ReadyWorkIsServed'
        BY <2>1 DEF MainStarved, TypeOK, SleepInv, ProgressInv, FailInv,
                    Unpublished, ReadyWorkIsServed
    <2>. QED
        BY <2>2, <2>3, <2>4
<1>. QED
    BY <1>1, <1>2

\* The main thread hands a file over and goes to the next one.
LEMMA MainAssimilateInv ==
    ASSUME IInv, MainAssimilate
    PROVE  IInv'
<1>. USE WorkerCount DEF IInv, workVars, poolVars, workerVars, listenerVars,
                        mainVars
<1>1. fileIndex \in Slots /\ inputFiles[fileIndex] \in Files
    BY NFilesAssumption DEF MainAssimilate, TypeOK, ProgressInv, Slots
<1>2. /\ searchLibraries' \in Seq(Slots)
      /\ dylibForPath' \in [InstallPaths -> Slots \cup {NULL}]
      /\ bundleLoader' \in Slots \cup {NULL}
    <2>1. Append(searchLibraries, fileIndex) \in Seq(Slots)
        BY <1>1 DEF TypeOK
    <2>. QED
        BY <1>1, <2>1 DEF MainAssimilate, AddDylib, TypeOK
<1>3. TypeOK' /\ LockInv' /\ WorkerInv'
    BY <1>1, <1>2, NFilesAssumption
       DEF MainAssimilate, AfterFile, TypeOK, LockInv, WorkerInv, Slots
<1>4. FileStageInv' /\ CountInv'
    BY DEF MainAssimilate, FileStageInv, CountInv, IdleSet, Unpublished
<1>5. SleepInv' /\ FailInv' /\ ReadyWorkIsServed'
    BY DEF MainAssimilate, AfterFile, SleepInv, FailInv, Unpublished,
           ReadyWorkIsServed
<1>6. ProgressInv'
    BY <1>1, NFilesAssumption
       DEF MainAssimilate, AfterFile, TypeOK, ProgressInv, Slots
<1>. QED
    BY <1>3, <1>4, <1>5, <1>6

-----------------------------------------------------------------------------
(* The theorems.                                                           *)

\* Every step of every thread preserves the invariant.
THEOREM StepInv == IInv /\ [Next]_vars => IInv'
<1>. SUFFICES ASSUME IInv, [Next]_vars PROVE IInv'
    OBVIOUS
<1>1. ASSUME NEW w \in Workers, WorkerStep(w) PROVE IInv'
    BY <1>1, WorkerStartInv, WorkerIdleInv, WorkerClaimInv, WorkerParsedInv,
       WorkerFailedInv, WorkerWakeInv, WorkerAgainInv, WorkerExitInv
       DEF WorkerStep
<1>2. ASSUME ListenerStep PROVE IInv'
    BY <1>2, ListenerOpenInv, ListenerReadyInv, ListenerFailedInv,
       ListenerEndInv DEF ListenerStep
<1>3. ASSUME MainStep PROVE IInv'
    BY <1>3, MainLockInv, MainStarvedInv, MainWakeInv, MainThrowInv,
       MainTakeInv, MainAssimilateInv DEF MainStep
<1>4. ASSUME UNCHANGED vars PROVE IInv'
    BY <1>4 DEF vars, workVars, poolVars, workerVars, listenerVars, mainVars,
       IInv, TypeOK, LockInv, FileStageInv, CountInv, WorkerInv, SleepInv,
       ProgressInv, FailInv, ReadyWorkIsServed, Unpublished, IdleSet
<1>. QED
    BY <1>1, <1>2, <1>3, <1>4, SpuriousMainInv, SpuriousWorkerInv
       DEF Next, Finished

\* The invariant holds in every reachable state, for every list of files,
\* number of processors and fifo.
THEOREM Invariance == Spec => []IInv
<1>. QED
    BY InitInv, StepInv, PTL DEF Spec

\* The variables keep their types.
THEOREM TypeCorrect == Spec => []TypeOK
<1>1. IInv => TypeOK
    BY DEF IInv
<1>. QED
    BY <1>1, Invariance, PTL

\* The assertion in parseWorkerThread never fails.
THEOREM AssertionHolds == Spec => []ScanFindsFile
<1>1. IInv => ScanFindsFile
    <2>. SUFFICES ASSUME IInv, availableInputFiles # 0
                  PROVE  Candidates # {}
        BY DEF ScanFindsFile
    <2>1. readyToParse # {}
        BY FS_EmptySet DEF IInv, CountInv
    <2>. QED
        BY <2>1 DEF IInv, FileStageInv, Candidates
<1>. QED
    BY <1>1, Invariance, PTL

\* No file is parsed twice.
THEOREM ParsedOnce == Spec => []OneParserPerFile
<1>1. IInv => OneParserPerFile
    BY DEF IInv, FileStageInv, OneParserPerFile
<1>. QED
    BY <1>1, Invariance, PTL

\* Workers leave neither early nor late.
THEOREM RemainingCounted == Spec => []RemainingExact
<1>1. IInv => RemainingExact
    BY DEF IInv, CountInv, RemainingExact, Unpublished
<1>. QED
    BY <1>1, Invariance, PTL

\* Neither condition variable loses a signal.
THEOREM NoLostWakeup == Spec => [](MainSleepsForAReason /\ ReadyWorkIsServed)
<1>1. IInv => MainSleepsForAReason /\ ReadyWorkIsServed
    BY WorkerCount
       DEF IInv, LockInv, SleepInv, MainSleepsForAReason
<1>. QED
    BY <1>1, Invariance, PTL

\* The link goes on only with every file parsed.
THEOREM DoneMeansParsed == Spec => []AllParsedWhenDone
<1>1. IInv => AllParsedWhenDone
    BY NFilesAssumption DEF IInv, TypeOK, ProgressInv, FailInv, Unpublished,
       AllParsedWhenDone, Slots
<1>. QED
    BY <1>1, Invariance, PTL

\* No ready file is stranded while all workers sleep.
THEOREM WorkServed == Spec => []ReadyWorkIsServed
BY NoLostWakeup, PTL

-----------------------------------------------------------------------------
(* The order of the libraries.                                             *)

\* The main thread adds the file it is at behind those before it.
LEMMA MainAssimilateOrder ==
    ASSUME IInv, OrderInv, MainAssimilate
    PROVE  OrderInv'
<1>. DEFINE n == fileIndex
            file == inputFiles[n]
            L == searchLibraries
            kept == IsSearched(n)
<1>1. n \in Slots /\ n \in Int /\ file \in Files /\ NULL \notin Slots
      /\ (\A s \in Slots : s \in Int /\ 0 <= s) /\ L \in Seq(Slots)
      /\ dylibForPath \in [InstallPaths -> Slots \cup {NULL}]
    BY NFilesAssumption, FilesAssumption
       DEF IInv, MainAssimilate, TypeOK, ProgressInv, Slots
<1>2. inputFiles' = inputFiles /\ fileIndex' = n + 1
    BY DEF MainAssimilate, workVars
<1>3. searchLibraries' = IF kept THEN Append(L, n) ELSE L
    BY <1>1 DEF MainAssimilate, AddDylib, IsSearched, mainVars
<1>4. \A path \in InstallPaths :
          dylibForPath'[path] = IF IsDylib(n, path) /\ dylibForPath[path] = NULL
                                THEN n ELSE dylibForPath[path]
    BY <1>1 DEF MainAssimilate, AddDylib, IsDylib, InstallPaths
<1>5. /\ \A i, j \in DOMAIN L : i < j => L[i] < L[j]
      /\ \A i \in DOMAIN L : L[i] < n
      /\ \A s \in Slots : s < n => (IsSearched(s) <=> \E i \in DOMAIN L : L[i] = s)
    BY DEF OrderInv, CommandLineOrder
<1>6. /\ \A s \in Slots : IsSearched(s)' <=> IsSearched(s)
      /\ \A s, path : IsDylib(s, path)' <=> IsDylib(s, path)
    BY <1>2 DEF IsSearched, IsDylib
<1>7. /\ \A i, j \in DOMAIN searchLibraries' : i < j => searchLibraries'[i] < searchLibraries'[j]
      /\ \A i \in DOMAIN searchLibraries' : searchLibraries'[i] < n + 1
      /\ \A s \in Slots : s < n + 1 =>
            (IsSearched(s) <=> \E i \in DOMAIN searchLibraries' : searchLibraries'[i] = s)
    <2>. HIDE DEF n, kept
    <2>1. CASE kept
        <3>. DEFINE k == Len(L)
                    M == Append(L, n)
        <3>1. /\ k \in Int /\ k >= 0 /\ DOMAIN L = 1 .. k
              /\ DOMAIN M = 1 .. k + 1 /\ M[k + 1] = n
              /\ \A i \in 1 .. k : M[i] = L[i] /\ L[i] \in Slots
            BY <1>1
        <3>2. searchLibraries' = M /\ IsSearched(n)
            BY <1>3, <2>1 DEF kept, n
        <3>. HIDE DEF k, M, L
        <3>3. \A i \in DOMAIN M : i = k + 1 \/ i \in 1 .. k
            BY <3>1
        <3>4. \A i, j \in DOMAIN M : i < j => M[i] < M[j]
            <4>. SUFFICES ASSUME NEW i \in DOMAIN M, NEW j \in DOMAIN M, i < j
                          PROVE  M[i] < M[j]
                OBVIOUS
            <4>1. i \in 1 .. k /\ i \in DOMAIN L /\ M[i] = L[i] /\ L[i] < n
                BY <1>5, <3>1, <3>3
            <4>2. CASE j = k + 1
                BY <3>1, <4>1, <4>2
            <4>3. CASE j \in 1 .. k
                BY <1>5, <3>1, <4>1, <4>3
            <4>. QED
                BY <3>3, <4>2, <4>3
        <3>5. \A i \in DOMAIN M : M[i] < n + 1
            <4>1. \A i \in 1 .. k : M[i] \in Int /\ M[i] < n
                BY <1>1, <1>5, <3>1
            <4>. QED
                BY <1>1, <3>1, <3>3, <4>1
        <3>6. ASSUME NEW s \in Slots, s < n + 1
              PROVE  IsSearched(s) <=> \E i \in DOMAIN M : M[i] = s
            <4>1. CASE s = n
                BY <3>1, <3>2, <4>1
            <4>2. CASE s # n
                <5>1. s < n /\ (IsSearched(s) <=> \E i \in DOMAIN L : L[i] = s)
                    BY <1>1, <1>5, <3>6, <4>2
                <5>. QED
                    BY <3>1, <3>3, <4>2, <5>1
            <4>. QED
                BY <4>1, <4>2
        <3>. QED
            BY <3>2, <3>4, <3>5, <3>6
    <2>2. CASE ~kept
        <3>1. searchLibraries' = L /\ ~IsSearched(n)
            BY <1>3, <2>2 DEF kept, n
        <3>2. \A s \in Slots : s < n + 1 => s < n \/ s = n
            BY <1>1
        <3>3. \A i \in DOMAIN L : L[i] < n + 1 /\ L[i] # n
            <4>1. \A i \in DOMAIN L : L[i] \in Slots
                BY <1>1
            <4>. HIDE DEF L
            <4>2. \A i \in DOMAIN L : L[i] \in Int /\ L[i] < n
                BY <1>1, <1>5, <4>1
            <4>. QED
                BY <1>1, <4>2
        <3>. QED
            BY <1>5, <3>1, <3>2, <3>3
    <2>. QED
        BY <2>1, <2>2
<1>8. ASSUME NEW s \in Slots, NEW path \in InstallPaths, s < n + 1, IsDylib(s, path)
      PROVE  \E t \in 0 .. s :
                /\ dylibForPath'[path] = t /\ IsDylib(t, path)
                /\ \A u \in 0 .. t - 1 : ~IsDylib(u, path)
    <2>1. CASE \E t \in 0 .. n - 1 : IsDylib(t, path)
        <3>1. PICK t0 \in 0 .. n - 1 : IsDylib(t0, path)
            BY <2>1
        <3>2. t0 \in Slots /\ t0 < n
            BY <1>1, NFilesAssumption DEF Slots
        <3>3. PICK t \in 0 .. t0 : /\ dylibForPath[path] = t /\ IsDylib(t, path)
                                   /\ \A u \in 0 .. t - 1 : ~IsDylib(u, path)
            BY <3>1, <3>2 DEF OrderInv, CommandLineOrder
        <3>4. t \in Slots /\ dylibForPath'[path] = t
            BY <1>1, <1>4, <3>2, <3>3, NFilesAssumption DEF Slots
        <3>5. t <= s
            BY <1>1, <1>8, <3>3, <3>4
        <3>. QED
            BY <1>1, <3>3, <3>4, <3>5
    <2>2. CASE ~ \E t \in 0 .. n - 1 : IsDylib(t, path)
        <3>1. s = n
            BY <1>1, <1>8, <2>2
        <3>2. dylibForPath[path] = NULL
            <4>. SUFFICES ASSUME NEW t \in Slots, dylibForPath[path] = t PROVE FALSE
                BY <1>1
            <4>1. t < n /\ IsDylib(t, path)
                BY DEF OrderInv
            <4>. QED
                BY <1>1, <2>2, <4>1
        <3>3. dylibForPath'[path] = n /\ IsDylib(n, path) /\ n \in 0 .. n
            BY <1>1, <1>4, <1>8, <3>1, <3>2
        <3>. QED
            BY <2>2, <3>1, <3>3
    <2>. QED
        BY <2>1, <2>2
<1>9. \A path \in InstallPaths, t \in Slots :
          dylibForPath'[path] = t => t < n + 1 /\ IsDylib(t, path)
    BY <1>1, <1>4 DEF OrderInv
<1>. HIDE DEF n, L
<1>10. CommandLineOrder'
    BY <1>2, <1>6, <1>7, <1>8 DEF CommandLineOrder, n
<1>. QED
    BY <1>2, <1>6, <1>7, <1>9, <1>10 DEF OrderInv, n

\* Every step keeps the order: a file that is published was not taken before.
LEMMA StepOrder == IInv /\ OrderInv /\ [Next]_vars => OrderInv'
<1>. SUFFICES ASSUME IInv, OrderInv, [Next]_vars PROVE OrderInv'
    OBVIOUS
<1>1. ASSUME UNCHANGED mainVars, \A s \in Slots : s < fileIndex => inputFiles'[s] = inputFiles[s]
      PROVE  OrderInv'
    <2>1. /\ fileIndex' = fileIndex /\ searchLibraries' = searchLibraries
          /\ dylibForPath' = dylibForPath
        BY <1>1 DEF mainVars
    <2>2. \A s \in Slots : s < fileIndex =>
              /\ IsSearched(s)' <=> IsSearched(s)
              /\ \A path : IsDylib(s, path)' <=> IsDylib(s, path)
        BY <1>1 DEF IsSearched, IsDylib
    <2>3. \A s \in Slots : \A t \in 0 .. s : t \in Slots /\ t <= s /\ t \in Int /\ s \in Int
        BY NFilesAssumption DEF Slots
    <2>4. /\ fileIndex \in Int
          /\ \A s \in Slots : s < fileIndex => \A t \in 0 .. s : t < fileIndex
        BY <2>3 DEF IInv, TypeOK
    <2>5. \A s \in Slots, path \in InstallPaths : s < fileIndex /\ IsDylib(s, path)' =>
            \E t \in 0 .. s :
                /\ dylibForPath[path] = t /\ IsDylib(t, path)'
                /\ \A u \in 0 .. t - 1 : ~IsDylib(u, path)'
        <3>. SUFFICES ASSUME NEW s \in Slots, NEW path \in InstallPaths,
                             s < fileIndex, IsDylib(s, path)'
                      PROVE  \E t \in 0 .. s :
                                /\ dylibForPath[path] = t /\ IsDylib(t, path)'
                                /\ \A u \in 0 .. t - 1 : ~IsDylib(u, path)'
            OBVIOUS
        <3>1. PICK t \in 0 .. s :
                /\ dylibForPath[path] = t /\ IsDylib(t, path)
                /\ \A u \in 0 .. t - 1 : ~IsDylib(u, path)
            BY <2>2 DEF OrderInv, CommandLineOrder
        <3>2. \A u \in 0 .. t - 1 : u \in 0 .. s
            BY <2>3
        <3>3. \A u \in 0 .. s : IsDylib(u, path)' <=> IsDylib(u, path)
            BY <2>2, <2>3, <2>4
        <3>. QED
            BY <3>1, <3>2, <3>3
    <2>6. CommandLineOrder'
        BY <2>1, <2>2, <2>5 DEF OrderInv, CommandLineOrder
    <2>7. \A path \in InstallPaths, t \in Slots :
            dylibForPath[path] = t => t < fileIndex /\ IsDylib(t, path)'
        BY <2>2 DEF OrderInv
    <2>. QED
        BY <2>1, <2>6, <2>7 DEF OrderInv
<1>2. ASSUME NEW w \in Workers, NEW f \in Files, WorkerParsed(w, f) PROVE OrderInv'
    <2>1. workerSlot[w] \in Slots /\ inputFiles[workerSlot[w]] = NULL
        BY <1>2 DEF WorkerParsed, IInv, TypeOK, FileStageInv
    <2>2. \A s \in Slots : s < fileIndex => inputFiles[s] # NULL
        BY DEF IInv, ProgressInv
    <2>3. UNCHANGED mainVars /\ \A s \in Slots : s < fileIndex => inputFiles'[s] = inputFiles[s]
        BY <1>2, <2>1, <2>2 DEF WorkerParsed, IInv, TypeOK
    <2>. QED
        BY <1>1, <2>3
<1>3. CASE MainAssimilate
    BY <1>3, MainAssimilateOrder
<1>4. CASE UNCHANGED <<mainVars, inputFiles>>
    BY <1>1, <1>4
<1>5. [Next]_vars => \/ \E w \in Workers, f \in Files : WorkerParsed(w, f)
                     \/ MainAssimilate \/ UNCHANGED <<mainVars, inputFiles>>
    BY DEF Next, WorkerStep, WorkerStart, WorkerIdle, WorkerClaim, WorkerFailed, WorkerWake,
           WorkerAgain, WorkerExit, ListenerStep, ListenerOpen, ListenerReady, ListenerFailed,
           ListenerEnd, MainStep, MainLock, MainStarved, MainWake, MainThrow, MainTake,
           SpuriousMain, SpuriousWorker, Finished, vars, workVars
<1>. QED
    BY <1>2, <1>3, <1>4, <1>5

\* Libraries are searched in command line order, and the first dylib with an
\* install path owns it, in whatever order the workers parse the files.
THEOREM OrderKept == Spec => []CommandLineOrder
<1>1. Init => OrderInv
    <2>1. \A path \in InstallPaths, t \in Slots :
              [p \in InstallPaths |-> NULL][path] # t
        BY FilesAssumption
    <2>. QED
        BY <2>1, NFilesAssumption DEF Init, OrderInv, CommandLineOrder, Slots
<1>2. OrderInv => CommandLineOrder
    BY DEF OrderInv
<1>. QED
    BY <1>1, <1>2, StepOrder, Invariance, PTL DEF Spec

-----------------------------------------------------------------------------
(* Refinement.                                                             *)

\* The states that the constructor leaves map to an initial state.
LEMMA InitRefines == Init => InOrder!Init
BY NFilesAssumption DEF Init, InOrder!Init, MainOver

\* Every step maps to a step of InOrderInputs or to a stutter: published files
\* are never overwritten, and files are taken only while no error is known.
LEMMA StepRefines == IInv /\ [Next]_vars => [InOrder!Next]_InOrder!vars
<1>. SUFFICES ASSUME IInv, [Next]_vars
              PROVE  InOrder!Next \/ UNCHANGED InOrder!vars
    OBVIOUS
<1>. DEFINE consumed == [i \in 1 .. fileIndex |-> inputFiles[i - 1]]
<1>. USE DEF workVars, poolVars, workerVars, listenerVars, mainVars
<1>. USE DEF InOrder!Next, InOrder!vars, MainOver
<1>1. ASSUME NEW w \in Workers, NEW f \in Files, WorkerParsed(w, f)
      PROVE  UNCHANGED InOrder!vars
    <2>1. workerSlot[w] \in Slots /\ inputFiles[workerSlot[w]] = NULL
        BY <1>1 DEF WorkerParsed, IInv, TypeOK, FileStageInv
    <2>2. \A i \in 1 .. fileIndex : i - 1 \in Slots /\ inputFiles[i - 1] # NULL
        BY NFilesAssumption DEF IInv, TypeOK, ProgressInv, Slots
    <2>3. consumed' = consumed
        BY <1>1, <2>1, <2>2 DEF WorkerParsed, IInv, TypeOK
    <2>. QED
        BY <1>1, <2>3 DEF WorkerParsed, SignalNewFile
<1>2. ASSUME NEW w \in Workers, WorkerFailed(w)
      PROVE  InOrder!Fail
    BY <1>2 DEF WorkerFailed, InOrder!Fail
<1>3. ASSUME NEW w \in Workers,
             \/ WorkerStart(w) \/ WorkerIdle(w) \/ WorkerClaim(w)
             \/ WorkerWake(w) \/ WorkerAgain(w) \/ WorkerExit(w)
             \/ SpuriousWorker(w)
      PROVE  UNCHANGED InOrder!vars
    BY <1>3 DEF WorkerStart, WorkerIdle, WorkerClaim, WorkerWake, WorkerAgain,
                WorkerExit, SpuriousWorker, SignalNewFile
<1>4. ASSUME ListenerStep PROVE InOrder!Fail \/ UNCHANGED InOrder!vars
    BY <1>4 DEF ListenerStep, ListenerOpen, ListenerReady, ListenerFailed,
                ListenerEnd, SignalNewFile, InOrder!Fail
<1>5. ASSUME MainLock \/ MainStarved \/ MainWake \/ SpuriousMain
      PROVE  UNCHANGED InOrder!vars
    BY <1>5 DEF MainLock, MainStarved, MainWake, SpuriousMain
<1>6. ASSUME MainThrow PROVE InOrder!Throw
    BY <1>6 DEF MainThrow, InOrder!Throw
<1>7. ASSUME MainTake PROVE InOrder!Take
    BY <1>7 DEF MainTake, InOrder!Take
<1>8. ASSUME MainAssimilate PROVE InOrder!Consume
    <2>. DEFINE f == inputFiles[fileIndex]
    <2>0. mainPc = "assimilate"
        BY <1>8 DEF MainAssimilate
    <2>1. fileIndex \in Nat /\ fileIndex < NFiles /\ f \in Files
        BY <2>0, NFilesAssumption DEF IInv, TypeOK, ProgressInv, Slots
    <2>2. Len(consumed) = fileIndex
        BY <2>1
    <2>3. fileIndex' = fileIndex + 1 /\ inputFiles' = inputFiles
        BY <1>8 DEF MainAssimilate
    <2>4. consumed' = Append(consumed, f)
        BY <2>1, <2>3
    <2>. QED
        BY <1>8, <2>1, <2>2, <2>4, NFilesAssumption
           DEF MainAssimilate, AfterFile, InOrder!Consume
<1>9. ASSUME UNCHANGED vars PROVE UNCHANGED InOrder!vars
    BY <1>9 DEF vars
<1>. QED
    BY <1>1, <1>2, <1>3, <1>4, <1>5, <1>6, <1>7, <1>8, <1>9
       DEF Next, WorkerStep, MainStep, Finished

\* The threads implement the in-order consumption of the input files.
THEOREM Refinement == Spec => InOrder!Spec
<1>. QED
    BY InitRefines, StepRefines, Invariance, PTL DEF Spec, InOrder!Spec

=============================================================================
