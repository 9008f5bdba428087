----------------------------- MODULE InputFiles -----------------------------
(***************************************************************************)
(* The threaded, pipelined loading of the linker's input files             *)
(* (ld64/src/ld/InputFiles.cpp).  Three kinds of thread share the          *)
(* InputFiles object under one mutex and two condition variables:          *)
(*                                                                         *)
(*   - the main thread (forEachInitialAtom) consumes the parsed files in   *)
(*     command line order and starts parse workers when it is starved;     *)
(*   - the parse workers (parseWorkerThread) claim a file that is ready,   *)
(*     parse it outside of the lock and publish the result;                *)
(*   - with LD_PIPELINE_FIFO, a listener (waitForInputFiles) learns from a *)
(*     fifo which files of the file list exist by now.                     *)
(*                                                                         *)
(* A step is what a thread does between two points where the mutex may     *)
(* change hands; a thread that keeps the mutex across steps is recorded in *)
(* parseLock.  A thread blocked in pthread_cond_wait is at "wait", and a   *)
(* signal moves it to "wake", where it competes for the mutex again.       *)
(***************************************************************************)
EXTENDS Integers, Sequences, FiniteSets

CONSTANTS
    NFiles,             \* number of input files on the command line
    NCPU,               \* what sysctl(HW_NCPU) reports
    PipelineEnabled,    \* LD_PIPELINE_FIFO is set
    FromFileList,       \* the slots that come from a -filelist
    Path,               \* the path of every slot
    BundleLoader,       \* the slots given with -bundle_loader
    Files,              \* what makeFile can return: [type, installPath]
    NULL,               \* the null pointer
    MaxSpurious         \* bound on the spurious wake-ups of a behaviour

Slots == 0 .. NFiles - 1

\* What makeFile returns: object files and archives have no install path, and
\* a dylib without one is a "blank" stub.  An IgnoredFile has type Other.
FileTypes == {"Reloc", "Dylib", "Archive", "Other"}
InstallPaths == {f.installPath : f \in Files} \ {NULL}
IgnoredFile == [type |-> "Other", installPath |-> NULL]

ASSUME NFilesAssumption == NFiles \in Nat \ {0}
ASSUME NCPUAssumption == NCPU \in Nat \ {0}
ASSUME PipelineAssumption ==
    /\ PipelineEnabled \in BOOLEAN
    /\ FromFileList \subseteq Slots
    /\ BundleLoader \subseteq Slots
    /\ DOMAIN Path = Slots
ASSUME FilesAssumption ==
    /\ IgnoredFile \in Files
    /\ \A f \in Files : f.type \in FileTypes
    /\ NULL \notin Files
    /\ NULL \notin Slots
ASSUME SpuriousAssumption == MaxSpurious \in Nat

\* _availableWorkers starts as the number of workers the linker permits.
MaxWorkers == IF NCPU < NFiles THEN NCPU ELSE NFiles
Workers == 1 .. MaxWorkers

\* Owners of _parseLock other than a worker.
Free == 0
MainThread == -1

VARIABLES
    inputFiles,             \* slot -> parsed file, or NULL
    readyToParse,           \* the slots whose FileInfo has readyToParse set
    parseCursor,            \* slot to begin searching for a file to parse
    availableInputFiles,    \* number of FileInfos with readyToParse set
    remainingInputFiles,    \* number of input files still to parse
    availableWorkers,       \* number of parse threads not started yet
    idleWorkers,            \* number of parse threads waiting for work
    neededFileSlot,         \* slot the main thread waits for, or -1
    exception,              \* the error passed to the main thread, or "none"
    parseLock,              \* who holds the mutex between two steps
    workerPc,               \* where every worker is
    workerSlot,             \* the slot a worker is parsing, or NULL
    listenerPc,             \* where the pipeline listener is
    fileMap,                \* the slots the listener still waits for
    mainPc,                 \* where the main thread is
    fileIndex,              \* the slot the main thread is at
    searchLibraries,        \* _searchLibraries: slots in search order
    dylibForPath,           \* _installPathToDylibs: install path -> slot
    bundleLoader,           \* _bundleLoader: a slot, or NULL
    spurious                \* spurious wake-ups so far

workVars == <<inputFiles, readyToParse, parseCursor, availableInputFiles,
              remainingInputFiles, exception>>
poolVars == <<availableWorkers, idleWorkers, neededFileSlot>>
workerVars == <<workerPc, workerSlot>>
listenerVars == <<listenerPc, fileMap>>
mainVars == <<fileIndex, searchLibraries, dylibForPath, bundleLoader>>
vars == <<workVars, poolVars, workerVars, listenerVars, mainVars,
          mainPc, parseLock, spurious>>

-----------------------------------------------------------------------------
(* The constructor: slots in command line order, a listener when the link  *)
(* is pipelined, and one parse worker.                                     *)

\* The slots that can be parsed before anything arrives on the fifo.
InitiallyReady ==
    {s \in Slots : s \notin FromFileList \/ ~PipelineEnabled}

\* The listener's map from path to FileInfo: of two entries of the file list
\* with the same path it keeps the later one.
ListedFiles ==
    {s \in FromFileList : \A t \in FromFileList : t > s => Path[t] # Path[s]}

Init ==
    /\ inputFiles = [s \in Slots |-> NULL]
    /\ readyToParse = InitiallyReady
    /\ parseCursor = 0
    /\ availableInputFiles = Cardinality(InitiallyReady)
    /\ remainingInputFiles = NFiles
    /\ availableWorkers = MaxWorkers - 1
    /\ idleWorkers = 0
    /\ neededFileSlot = -1
    /\ exception = "none"
    /\ parseLock = Free
    /\ workerPc = [w \in Workers |-> IF w = 1 THEN "new" ELSE "none"]
    /\ workerSlot = [w \in Workers |-> NULL]
    /\ listenerPc = IF PipelineEnabled THEN "open" ELSE "done"
    /\ fileMap = IF PipelineEnabled THEN ListedFiles ELSE {}
    /\ mainPc = "lock"
    /\ fileIndex = 0
    /\ searchLibraries = <<>>
    /\ dylibForPath = [p \in InstallPaths |-> NULL]
    /\ bundleLoader = NULL
    /\ spurious = 0

-----------------------------------------------------------------------------
(* Signals.  Only the main thread ever waits for _newFileAvailable.        *)

\* Mistake: the signal is forgotten.
LostSignal(signalled) == UNCHANGED mainPc

\* pthread_cond_signal(&_newFileAvailable), when the condition holds.
SignalNewFile(signalled) ==
    mainPc' = IF signalled /\ mainPc = "wait" THEN "wake" ELSE mainPc

\* The workers blocked in pthread_cond_wait(&_parseWorkReady).
WaitingWorkers == {w \in Workers : workerPc[w] = "wait"}

\* Mistake: no worker is woken for a file that becomes ready.
WakeNoWorker == UNCHANGED workerPc

\* pthread_cond_signal(&_parseWorkReady): wakes one worker if any is blocked.
WakeOneWorker ==
    \/ \E w \in WaitingWorkers : workerPc' = [workerPc EXCEPT ![w] = "wake"]
    \/ WaitingWorkers = {} /\ UNCHANGED workerPc

-----------------------------------------------------------------------------
(* parseWorkerThread                                                       *)

WorkerStart(w) ==
    /\ workerPc[w] = "new"
    /\ parseLock = Free
    /\ parseLock' = w
    /\ workerPc' = [workerPc EXCEPT ![w] = "loop"]
    /\ UNCHANGED <<workVars, poolVars, workerSlot, listenerVars, mainVars,
                   mainPc, spurious>>

\* Nothing to parse: wait for the listener, or for the last worker's exit.
WorkerIdle(w) ==
    /\ workerPc[w] = "loop"
    /\ availableInputFiles = 0
    /\ idleWorkers' = idleWorkers + 1
    /\ workerPc' = [workerPc EXCEPT ![w] = "wait"]
    /\ parseLock' = Free
    /\ UNCHANGED <<workVars, availableWorkers, neededFileSlot, workerSlot,
                   listenerVars, mainVars, mainPc, spurious>>

\* The slots the scan from _parseCursor stops at, of which it takes the first.
Candidates ==
    {s \in readyToParse : s >= parseCursor /\ inputFiles[s] = NULL}

\* Mistake: a claimed file can be found by another worker.
StillReady(s) == readyToParse

\* entry.readyToParse = false, "to avoid multiple threads finding this file".
ReadyAfterClaim(s) == readyToParse \ {s}

\* Claim the first candidate and leave the mutex to parse it.
WorkerClaim(w) ==
    /\ workerPc[w] = "loop"
    /\ availableInputFiles # 0
    /\ \E s \in Candidates :
        /\ \A t \in Candidates : s <= t
        /\ parseCursor' = s + 1
        /\ readyToParse' = ReadyAfterClaim(s)
        /\ workerSlot' = [workerSlot EXCEPT ![w] = s]
    /\ availableInputFiles' = availableInputFiles - 1
    /\ workerPc' = [workerPc EXCEPT ![w] = "parse"]
    /\ parseLock' = Free
    /\ UNCHANGED <<inputFiles, remainingInputFiles, exception, poolVars,
                   listenerVars, mainVars, mainPc, spurious>>

\* Mistakes: the count of files to parse drops below zero, or never drops.
DecrementedAlways(n) == n - 1
NotDecremented(n) == n

\* if (_remainingInputFiles > 0) _remainingInputFiles--
Decremented(n) == IF n > 0 THEN n - 1 ELSE n

\* makeFile returned f, or threw a message that only makes the file ignored.
\* The main thread is signalled if this is the file it waits for.
WorkerParsed(w, f) ==
    /\ workerPc[w] = "parse"
    /\ parseLock = Free
    /\ inputFiles' = [inputFiles EXCEPT ![workerSlot[w]] = f]
    /\ remainingInputFiles' = Decremented(remainingInputFiles)
    /\ SignalNewFile(neededFileSlot = workerSlot[w])
    /\ workerSlot' = [workerSlot EXCEPT ![w] = NULL]
    /\ workerPc' = [workerPc EXCEPT ![w] = "test"]
    /\ parseLock' = w
    /\ UNCHANGED <<readyToParse, parseCursor, availableInputFiles, exception,
                   poolVars, listenerVars, mainVars, spurious>>

\* makeFile threw any other message: stop the other workers.
WorkerFailed(w) ==
    /\ workerPc[w] = "parse"
    /\ parseLock = Free
    /\ remainingInputFiles' = 0
    /\ exception' = "parse"
    /\ workerSlot' = [workerSlot EXCEPT ![w] = NULL]
    /\ workerPc' = [workerPc EXCEPT ![w] = "test"]
    /\ parseLock' = w
    /\ UNCHANGED <<inputFiles, readyToParse, parseCursor,
                   availableInputFiles, poolVars, listenerVars, mainVars,
                   mainPc, spurious>>

\* pthread_cond_wait returns.
WorkerWake(w) ==
    /\ workerPc[w] = "wake"
    /\ parseLock = Free
    /\ idleWorkers' = idleWorkers - 1
    /\ workerPc' = [workerPc EXCEPT ![w] = "test"]
    /\ parseLock' = w
    /\ UNCHANGED <<workVars, availableWorkers, neededFileSlot, workerSlot,
                   listenerVars, mainVars, mainPc, spurious>>

\* while (_remainingInputFiles), with files left.
WorkerAgain(w) ==
    /\ workerPc[w] = "test"
    /\ remainingInputFiles # 0
    /\ workerPc' = [workerPc EXCEPT ![w] = "loop"]
    /\ UNCHANGED <<workVars, poolVars, workerSlot, listenerVars, mainVars,
                   mainPc, parseLock, spurious>>

\* Mistake: the last worker leaves without waking up the main thread.
SilentExit(w) ==
    /\ workerPc[w] = "test"
    /\ remainingInputFiles = 0
    /\ workerPc' = [v \in Workers |->
                        IF v = w THEN "done"
                        ELSE IF workerPc[v] = "wait" THEN "wake"
                        ELSE workerPc[v]]
    /\ parseLock' = Free
    /\ UNCHANGED <<workVars, poolVars, workerSlot, listenerVars, mainVars,
                   mainPc, spurious>>

\* Nothing is left to parse: wake up every worker and the main thread.
WorkerExit(w) ==
    /\ workerPc[w] = "test"
    /\ remainingInputFiles = 0
    /\ workerPc' = [v \in Workers |->
                        IF v = w THEN "done"
                        ELSE IF workerPc[v] = "wait" THEN "wake"
                        ELSE workerPc[v]]
    /\ SignalNewFile(TRUE)
    /\ parseLock' = Free
    /\ UNCHANGED <<workVars, poolVars, workerSlot, listenerVars, mainVars,
                   spurious>>

WorkerStep(w) ==
    \/ WorkerStart(w)
    \/ WorkerIdle(w)
    \/ WorkerClaim(w)
    \/ \E f \in Files : WorkerParsed(w, f)
    \/ WorkerFailed(w)
    \/ WorkerWake(w)
    \/ WorkerAgain(w)
    \/ WorkerExit(w)

-----------------------------------------------------------------------------
(* waitForInputFiles                                                       *)

\* fopen of the fifo succeeded.
ListenerOpen ==
    /\ listenerPc = "open"
    /\ listenerPc' = "read"
    /\ UNCHANGED <<workVars, poolVars, workerVars, fileMap, mainVars, mainPc,
                   parseLock, spurious>>

\* Mistake: a file before the cursor becomes ready and the cursor stays.
StuckCursor(s) == parseCursor

\* The cursor goes back to a file that becomes ready behind it.
RewoundCursor(s) == IF parseCursor > s THEN s ELSE parseCursor

\* fgets returned the path of slot s, and the file exists.
ListenerReady(s) ==
    /\ listenerPc = "read"
    /\ s \in fileMap
    /\ parseLock = Free
    /\ \/ idleWorkers # 0 /\ WakeOneWorker
       \/ idleWorkers = 0 /\ UNCHANGED workerPc
    /\ readyToParse' = readyToParse \cup {s}
    /\ parseCursor' = RewoundCursor(s)
    /\ availableInputFiles' = availableInputFiles + 1
    /\ fileMap' = fileMap \ {s}
    /\ UNCHANGED <<inputFiles, remainingInputFiles, exception, poolVars,
                   workerSlot, listenerPc, mainVars, mainPc, parseLock,
                   spurious>>

\* The fifo cannot be opened, ends early, names a file that is not (or no
\* longer) in the map, or one that does not exist: give up.
ListenerFailed ==
    /\ \/ listenerPc = "open"
       \/ listenerPc = "read" /\ fileMap # {}
    /\ parseLock = Free
    /\ exception' = "pipeline"
    /\ SignalNewFile(TRUE)
    /\ listenerPc' = "done"
    /\ UNCHANGED <<inputFiles, readyToParse, parseCursor, availableInputFiles,
                   remainingInputFiles, poolVars, workerVars, fileMap,
                   mainVars, parseLock, spurious>>

\* Every file of the map has arrived.
ListenerEnd ==
    /\ listenerPc = "read"
    /\ fileMap = {}
    /\ listenerPc' = "done"
    /\ UNCHANGED <<workVars, poolVars, workerVars, fileMap, mainVars, mainPc,
                   parseLock, spurious>>

ListenerStep ==
    \/ ListenerOpen
    \/ \E s \in Slots : ListenerReady(s)
    \/ ListenerFailed
    \/ ListenerEnd

-----------------------------------------------------------------------------
(* forEachInitialAtom                                                      *)

MainLock ==
    /\ mainPc = "lock"
    /\ parseLock = Free
    /\ parseLock' = MainThread
    /\ mainPc' = "check"
    /\ UNCHANGED <<workVars, poolVars, workerVars, listenerVars, mainVars,
                   spurious>>

\* The worker that the next startThread(parseWorkerThread) starts.
NextWorker == MaxWorkers - availableWorkers + 1

\* The file is not parsed yet: start a worker if one could help, and wait.
MainStarved ==
    /\ mainPc = "check"
    /\ inputFiles[fileIndex] = NULL
    /\ exception = "none"
    /\ \/ /\ availableInputFiles > 0 /\ availableWorkers > 0
          /\ workerPc' = [workerPc EXCEPT ![NextWorker] = "new"]
          /\ availableWorkers' = availableWorkers - 1
       \/ /\ ~(availableInputFiles > 0 /\ availableWorkers > 0)
          /\ UNCHANGED <<workerPc, availableWorkers>>
    /\ neededFileSlot' = fileIndex
    /\ mainPc' = "wait"
    /\ parseLock' = Free
    /\ UNCHANGED <<workVars, idleWorkers, workerSlot, listenerVars, mainVars,
                   spurious>>

MainWake ==
    /\ mainPc = "wake"
    /\ parseLock = Free
    /\ parseLock' = MainThread
    /\ mainPc' = "check"
    /\ UNCHANGED <<workVars, poolVars, workerVars, listenerVars, mainVars,
                   spurious>>

\* throw _exception leaves the function with the mutex held.
MainThrow ==
    /\ mainPc = "check"
    /\ exception # "none"
    /\ mainPc' = "threw"
    /\ UNCHANGED <<workVars, poolVars, workerVars, listenerVars, mainVars,
                   parseLock, spurious>>

\* Mistake: the error of another thread is not looked at.
TakeDespiteError ==
    /\ mainPc = "check"
    /\ inputFiles[fileIndex] # NULL
    /\ mainPc' = "assimilate"
    /\ parseLock' = Free
    /\ UNCHANGED <<workVars, poolVars, workerVars, listenerVars, mainVars,
                   spurious>>

\* The file is parsed: release the mutex and go on with it.
MainTake ==
    /\ mainPc = "check"
    /\ inputFiles[fileIndex] # NULL
    /\ exception = "none"
    /\ mainPc' = "assimilate"
    /\ parseLock' = Free
    /\ UNCHANGED <<workVars, poolVars, workerVars, listenerVars, mainVars,
                   spurious>>

\* Mistake: a later dylib takes over the install path of an earlier one.
LastDylibWins(s, path) ==
    /\ searchLibraries' = Append(searchLibraries, s)
    /\ dylibForPath' = [p \in InstallPaths |->
                            IF p = path THEN s ELSE dylibForPath[p]]
    /\ UNCHANGED bundleLoader

\* addDylib: a blank stub is dropped, the first dylib with an install path
\* owns it, and every dylib that is kept is searched for symbols.
AddDylib(s, path) ==
    IF path = NULL /\ s \notin BundleLoader
    THEN UNCHANGED <<searchLibraries, dylibForPath, bundleLoader>>
    ELSE /\ searchLibraries' = Append(searchLibraries, s)
         /\ dylibForPath' = [p \in InstallPaths |->
                                IF p = path /\ dylibForPath[p] = NULL
                                THEN s ELSE dylibForPath[p]]
         /\ bundleLoader' = IF path = NULL THEN s ELSE bundleLoader

\* Mistake: the loop ends one file early.
EndsEarly(i) == IF i + 2 < NFiles THEN "lock" ELSE "done"

\* for (fileIndex=0; fileIndex<_inputFiles.size(); fileIndex++)
AfterFile(i) == IF i + 1 < NFiles THEN "lock" ELSE "done"

\* The switch over the file's type, and the end of the loop's body.
MainAssimilate ==
    /\ mainPc = "assimilate"
    /\ LET file == inputFiles[fileIndex] IN
        \/ /\ file.type \in {"Reloc", "Other"}
           /\ UNCHANGED <<searchLibraries, dylibForPath, bundleLoader>>
        \/ /\ file.type = "Dylib"
           /\ AddDylib(fileIndex, file.installPath)
        \/ /\ file.type = "Archive"
           /\ searchLibraries' = Append(searchLibraries, fileIndex)
           /\ UNCHANGED <<dylibForPath, bundleLoader>>
    /\ fileIndex' = fileIndex + 1
    /\ mainPc' = AfterFile(fileIndex)
    /\ UNCHANGED <<workVars, poolVars, workerVars, listenerVars, parseLock,
                   spurious>>

MainStep ==
    \/ MainLock
    \/ MainStarved
    \/ MainWake
    \/ MainThrow
    \/ MainTake
    \/ MainAssimilate

-----------------------------------------------------------------------------
(* The environment: pthread_cond_wait may return without a signal.         *)

SpuriousMain ==
    /\ spurious < MaxSpurious
    /\ mainPc = "wait"
    /\ mainPc' = "wake"
    /\ spurious' = spurious + 1
    /\ UNCHANGED <<workVars, poolVars, workerVars, listenerVars, mainVars,
                   parseLock>>

SpuriousWorker(w) ==
    /\ spurious < MaxSpurious
    /\ workerPc[w] = "wait"
    /\ workerPc' = [workerPc EXCEPT ![w] = "wake"]
    /\ spurious' = spurious + 1
    /\ UNCHANGED <<workVars, poolVars, workerSlot, listenerVars, mainVars,
                   mainPc, parseLock>>

\* After the loop the main thread goes on with the link, and after a throw
\* the process ends; either way it no longer looks at this state.
MainOver == mainPc \in {"done", "threw"}

Finished ==
    /\ MainOver
    /\ UNCHANGED vars

Next ==
    \/ \E w \in Workers : WorkerStep(w)
    \/ ListenerStep
    \/ MainStep
    \/ SpuriousMain
    \/ \E w \in Workers : SpuriousWorker(w)
    \/ Finished

Spec == Init /\ [][Next]_vars

\* Every thread that can run is scheduled, makeFile returns or throws, and
\* the writer of the fifo either names the files or closes it.
Fairness ==
    /\ \A w \in Workers : WF_vars(WorkerStep(w))
    /\ WF_vars(ListenerStep)
    /\ WF_vars(MainStep)

FairSpec == Spec /\ Fairness

-----------------------------------------------------------------------------
(* Properties                                                              *)

\* The values that every variable takes.
TypeOK ==
    /\ inputFiles \in [Slots -> Files \cup {NULL}]
    /\ readyToParse \subseteq Slots
    /\ parseCursor \in 0 .. NFiles
    /\ availableInputFiles \in 0 .. NFiles
    /\ remainingInputFiles \in 0 .. NFiles
    /\ availableWorkers \in 0 .. MaxWorkers - 1
    /\ idleWorkers \in 0 .. MaxWorkers
    /\ neededFileSlot \in Slots \cup {-1}
    /\ exception \in {"none", "parse", "pipeline"}
    /\ parseLock \in Workers \cup {Free, MainThread}
    /\ workerPc \in [Workers -> {"none", "new", "loop", "wait", "wake",
                                  "parse", "test", "done"}]
    /\ workerSlot \in [Workers -> Slots \cup {NULL}]
    /\ listenerPc \in {"open", "read", "done"}
    /\ fileMap \subseteq Slots
    /\ mainPc \in {"lock", "check", "wait", "wake", "assimilate", "done",
                    "threw"}
    /\ fileIndex \in 0 .. NFiles
    /\ searchLibraries \in Seq(Slots)
    /\ dylibForPath \in [InstallPaths -> Slots \cup {NULL}]
    /\ bundleLoader \in Slots \cup {NULL}
    /\ spurious \in 0 .. MaxSpurious

\* assert(slot < files.size()) in parseWorkerThread never fails: a worker that
\* sees work announced finds a file at or after the cursor, although the
\* listener makes files ready in any order and several workers move the cursor.
ScanFindsFile ==
    \A w \in Workers :
        workerPc[w] = "loop" /\ availableInputFiles # 0 => Candidates # {}

\* No file is parsed by two workers, and none is parsed again once published.
OneParserPerFile ==
    \A v, w \in Workers :
        /\ v # w /\ workerSlot[v] # NULL => workerSlot[v] # workerSlot[w]
        /\ workerSlot[w] # NULL => inputFiles[workerSlot[w]] = NULL

\* Until an error is reported _remainingInputFiles counts exactly the files
\* that are not published, so workers leave when all are parsed, not before.
RemainingExact ==
    exception = "none" =>
        remainingInputFiles = Cardinality({s \in Slots : inputFiles[s] = NULL})

\* No lost signal of _newFileAvailable: whenever the mutex is free and the
\* main thread sleeps, the file it needs is not there and no error is known.
MainSleepsForAReason ==
    mainPc = "wait" /\ parseLock = Free =>
        /\ neededFileSlot = fileIndex
        /\ inputFiles[fileIndex] = NULL
        /\ exception = "none"

\* No lost signal of _parseWorkReady: files that are ready always have a
\* running worker that will look for more work, so that none is stranded
\* while all workers sleep.
ReadyWorkIsServed ==
    readyToParse # {} /\ exception = "none" =>
        \E w \in Workers :
            workerPc[w] \in {"new", "loop", "wake", "parse", "test"}

\* The file that slot s gave to the link, as far as searching is concerned.
IsSearched(s) ==
    \/ inputFiles[s].type = "Archive"
    \/ inputFiles[s].type = "Dylib"
          /\ (inputFiles[s].installPath # NULL \/ s \in BundleLoader)

\* Slot s gave a dylib with that install path to the link.
IsDylib(s, path) ==
    inputFiles[s].type = "Dylib" /\ inputFiles[s].installPath = path

\* Libraries are searched, and install paths are owned, in command line order
\* whatever order the files were parsed in: of the dylibs with an install path
\* the first one of the command line owns it.
CommandLineOrder ==
    /\ \A i, j \in DOMAIN searchLibraries :
            i < j => searchLibraries[i] < searchLibraries[j]
    /\ \A s \in Slots : s < fileIndex =>
            (IsSearched(s) <=> \E i \in DOMAIN searchLibraries :
                                    searchLibraries[i] = s)
    /\ \A s \in Slots, path \in InstallPaths : s < fileIndex /\ IsDylib(s, path) =>
            \E t \in 0 .. s :
                /\ dylibForPath[path] = t /\ IsDylib(t, path)
                /\ \A u \in 0 .. t - 1 : ~IsDylib(u, path)

\* The link goes on past the input files only with all of them parsed: a file
\* that failed to parse is never skipped.
AllParsedWhenDone ==
    mainPc = "done" =>
        /\ \A s \in Slots : inputFiles[s] # NULL
        /\ exception # "parse"

-----------------------------------------------------------------------------
(* The inductive invariant behind the safety properties.                   *)

\* The mutex is held exactly inside of the critical sections that span steps.
LockInv ==
    /\ \A w \in Workers : workerPc[w] \in {"loop", "test"} <=> parseLock = w
    /\ mainPc \in {"check", "threw"} <=> parseLock = MainThread

\* A file is waited for by the listener, ready, being parsed by one worker,
\* published, or failed; the first three are not published yet, and no ready
\* file is behind the cursor.
FileStageInv ==
    /\ \A s \in readyToParse : s >= parseCursor /\ inputFiles[s] = NULL
    /\ \A s \in fileMap : s \notin readyToParse /\ inputFiles[s] = NULL
    /\ \A w \in Workers :
        /\ workerPc[w] = "parse" <=> workerSlot[w] # NULL
        /\ workerSlot[w] # NULL =>
            /\ inputFiles[workerSlot[w]] = NULL
            /\ workerSlot[w] \notin readyToParse \cup fileMap
            /\ \A v \in Workers : v # w => workerSlot[v] # workerSlot[w]

Unpublished == {s \in Slots : inputFiles[s] = NULL}
IdleSet == {w \in Workers : workerPc[w] \in {"wait", "wake"}}

\* The counters count what their comments say.
CountInv ==
    /\ availableInputFiles = Cardinality(readyToParse)
    /\ idleWorkers = Cardinality(IdleSet)
    /\ exception = "none" => remainingInputFiles = Cardinality(Unpublished)

\* Workers are started in order, the first by the constructor, and leave only
\* when there is nothing left to do.
WorkerInv ==
    /\ \A w \in Workers :
            workerPc[w] = "none" <=> w > MaxWorkers - availableWorkers
    /\ \A w \in Workers : workerPc[w] = "done" => remainingInputFiles = 0

\* A worker that has failed holds the mutex until it has woken everyone up.
SleepInv ==
    mainPc = "wait" =>
        /\ neededFileSlot = fileIndex
        /\ inputFiles[fileIndex] = NULL
        /\ \/ exception = "none"
           \/ /\ remainingInputFiles = 0
              /\ \E w \in Workers : workerPc[w] = "test"

\* Where the main thread is in the list of files.
ProgressInv ==
    /\ mainPc # "done" => fileIndex < NFiles
    /\ mainPc = "done" => fileIndex = NFiles
    /\ mainPc = "assimilate" => inputFiles[fileIndex] # NULL
    /\ \A s \in Slots : s < fileIndex => inputFiles[s] # NULL

\* After a parse error some file is lost to every thread.
FailInv ==
    exception = "parse" =>
        \E s \in Unpublished :
            /\ s \notin readyToParse \cup fileMap
            /\ \A w \in Workers : workerSlot[w] # s

\* What the main thread has made of the files it has gone through.
OrderInv ==
    /\ CommandLineOrder
    /\ \A i \in DOMAIN searchLibraries : searchLibraries[i] < fileIndex
    /\ \A path \in InstallPaths, t \in Slots :
            dylibForPath[path] = t => t < fileIndex /\ IsDylib(t, path)

IInv ==
    /\ TypeOK
    /\ LockInv
    /\ FileStageInv
    /\ CountInv
    /\ WorkerInv
    /\ SleepInv
    /\ ProgressInv
    /\ FailInv
    /\ ReadyWorkIsServed

-----------------------------------------------------------------------------
(* Temporal properties                                                     *)

\* A parse error always ends the link, even one in a file far behind the one
\* the main thread waits for.
ParseErrorEndsLink == exception = "parse" ~> mainPc = "threw"

\* The files listed in a -filelist are linked, or the link fails: the loop over
\* the input files ends.
FileListIsLinked == <>MainOver

\* The consumer's view: files in command line order, or the error.
InOrder == INSTANCE InOrderInputs WITH
    consumed <- [i \in 1 .. fileIndex |-> inputFiles[i - 1]],
    taken <- (mainPc = "assimilate"),
    failed <- (exception # "none"),
    status <- (IF MainOver THEN mainPc ELSE "running")

\* The threads together implement the in-order consumption, and it ends.
ImplementsInOrder == InOrder!FairSpec

=============================================================================
