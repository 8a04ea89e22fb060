----------------------------- MODULE ParsePool -----------------------------
(***************************************************************************)
(* The threaded input-file parser of ld64's InputFiles: a pool of detached *)
(* parse threads, the pipeline listener that announces files as a build    *)
(* produces them, and the resolver's thread, which consumes the parsed     *)
(* files in command-line order.                                            *)
(*                                                                         *)
(* This is the code InputFiles.cpp compiles under HAVE_PTHREADS and starts *)
(* from its constructor when HAVE_LIBDISPATCH is 0; DispatchParse models   *)
(* the constructor's other branch.  A file is its slot in _inputFiles.     *)
(* The slots are 0..NumFiles-1, as in the code.                            *)
(***************************************************************************)
EXTENDS Integers, FiniteSets

CONSTANTS
  NumFiles,    \* _options.getInputFiles().size()
  Workers,     \* the parse threads permitted: MIN(ncpus, files.size()) of them
  FileList,    \* the slots of the files named by -filelist (fromFileList)
  PathOf,      \* the path of each slot's file
  Pipelined    \* _options.pipelineEnabled(): LD_PIPELINE_FIFO is set

Slots == 0 .. NumFiles - 1

\* Holders of _parseLock other than a worker: nobody, and the resolver.
Free == "free"
Main == "main"

\* files.size() = 0 throws before any thread starts; MIN(ncpus, files.size())
\* workers are permitted.
ASSUME PoolAssumption ==
  /\ NumFiles \in Nat \ {0}
  /\ IsFiniteSet(Workers) /\ Workers # {}
  /\ Free \notin Workers /\ Main \notin Workers
  /\ FileList \subseteq Slots
  /\ PathOf = [s \in Slots |-> PathOf[s]]
  /\ Pipelined \in BOOLEAN

VARIABLES
  inputFiles,           \* _inputFiles: what each slot holds
  readyToParse,         \* files[slot].readyToParse
  parseCursor,          \* _parseCursor
  availableInputFiles,  \* _availableInputFiles
  remainingInputFiles,  \* _remainingInputFiles
  availableWorkers,     \* _availableWorkers
  idleWorkers,          \* _idleWorkers
  neededFileSlot,       \* _neededFileSlot
  exception,            \* _exception: which kind of failure it carries
  parseLock,            \* the holder of _parseLock
  wpc,                  \* where each worker thread is
  wslot,                \* the slot each worker is parsing
  mpc,                  \* where the resolver's thread is
  fileIndex,            \* its loop index in forEachInitialAtom
  listener,             \* where the pipeline listener is
  fileMap               \* the slots the listener's fileMap still maps to

vars == <<inputFiles, readyToParse, parseCursor, availableInputFiles,
          remainingInputFiles, availableWorkers, idleWorkers, neededFileSlot,
          exception, parseLock, wpc, wslot, mpc, fileIndex, listener, fileMap>>

queueVars  == <<readyToParse, parseCursor, availableInputFiles>>
mainVars   == <<mpc, fileIndex, neededFileSlot, availableWorkers>>
listenVars == <<listener, fileMap>>

-----------------------------------------------------------------------------

\* fileMap[entry.path] = &entry, in slot order: of the slots that share a path
\* only the last is in the listener's map.
InitialFileMap ==
  {s \in FileList : \A t \in FileList : PathOf[t] = PathOf[s] => t <= s}

\* The constructor: every slot is assigned and queued (or awaits the listener),
\* the listener starts when pipelined, and one parse thread starts.
Init ==
  /\ inputFiles = [s \in Slots |-> "NULL"]
  /\ readyToParse = [s \in Slots |-> s \notin FileList \/ ~Pipelined]
  /\ parseCursor = 0
  /\ availableInputFiles = Cardinality({s \in Slots : readyToParse[s]})
  /\ remainingInputFiles = NumFiles
  /\ idleWorkers = 0
  /\ neededFileSlot = -1
  /\ exception = "none"
  /\ parseLock = Free
  /\ \E first \in Workers :
        wpc = [w \in Workers |-> IF w = first THEN "starting" ELSE "unstarted"]
  /\ availableWorkers = Cardinality(Workers) - 1
  /\ wslot = [w \in Workers |-> 0]
  /\ mpc = "locking"
  /\ fileIndex = 0
  /\ listener = IF Pipelined THEN "listening" ELSE "off"
  /\ fileMap = IF Pipelined THEN InitialFileMap ELSE {}

-----------------------------------------------------------------------------
(***************************************************************************)
(* A parse thread: parseWorkerThread.  It holds _parseLock at "top" and    *)
(* "test", and not while it parses or waits.                               *)
(***************************************************************************)

\* Tries the lock and enters the do-loop, whose condition is only tested at
\* the end of the body.
WorkerEnter(w) ==
  /\ wpc[w] = "starting"
  /\ parseLock = Free
  /\ parseLock' = w
  /\ wpc' = [wpc EXCEPT ![w] = "top"]
  /\ UNCHANGED <<inputFiles, queueVars, remainingInputFiles, idleWorkers,
                 exception, wslot, mainVars, listenVars>>

\* Nothing is queued: pthread_cond_wait(&_parseWorkReady) releases the lock.
WorkerIdle(w) ==
  /\ wpc[w] = "top"
  /\ availableInputFiles = 0
  /\ idleWorkers' = idleWorkers + 1
  /\ wpc' = [wpc EXCEPT ![w] = "waiting"]
  /\ parseLock' = Free
  /\ UNCHANGED <<inputFiles, queueVars, remainingInputFiles, exception, wslot,
                 mainVars, listenVars>>

\* The scan from _parseCursor for a queued file that is not parsed yet.
Parseable(s) == inputFiles[s] = "NULL" /\ readyToParse[s]
IsNextSlot(s) ==
  /\ s >= parseCursor
  /\ Parseable(s)
  /\ \A t \in Slots : t >= parseCursor /\ t < s => ~Parseable(t)

\* Mutant of Dequeue: the flag is never reset.
LeaveQueued(s) == readyToParse' = readyToParse
\* The slot is no longer queued.
Dequeue(s) == readyToParse' = [readyToParse EXCEPT ![s] = FALSE]

\* Takes the next queued file; assert(slot < files.size()) is ScanFindsWork.
WorkerTake(w) ==
  /\ wpc[w] = "top"
  /\ availableInputFiles # 0
  /\ \E s \in Slots :
        /\ IsNextSlot(s)
        /\ wslot' = [wslot EXCEPT ![w] = s]
        /\ parseCursor' = s + 1
        /\ Dequeue(s)
  /\ availableInputFiles' = availableInputFiles - 1
  /\ wpc' = [wpc EXCEPT ![w] = "parsing"]
  /\ parseLock' = Free
  /\ UNCHANGED <<inputFiles, remainingInputFiles, idleWorkers, exception,
                 mainVars, listenVars>>

\* Mutants of OneLess: not decremented at all, decremented past zero.
Undecremented == remainingInputFiles
BelowZero == remainingInputFiles - 1
\* The count never goes below zero once a failure has zeroed it.
OneLess == IF remainingInputFiles > 0 THEN remainingInputFiles - 1 ELSE 0

\* Mutant of SignalMain: no signal.
LeaveMain == mpc' = mpc
\* pthread_cond_signal(&_newFileAvailable), on which only the resolver waits.
SignalMain == mpc' = IF mpc = "waiting" THEN "locking" ELSE mpc

\* Mutant of IsNeeded: the wrong comparison.
IsAfter(s) == neededFileSlot > s
\* if ( _neededFileSlot == slot )
IsNeeded(s) == neededFileSlot = s

\* makeFile is done, normally or with one of the messages that only make the
\* linker ignore the file.  The thread stores the file and signals the
\* resolver if it is the file it waits for.
WorkerStore(w, file) ==
  /\ wpc[w] = "parsing"
  /\ parseLock = Free
  /\ parseLock' = w
  /\ remainingInputFiles' = OneLess
  /\ inputFiles' = [inputFiles EXCEPT ![wslot[w]] = file]
  /\ IF IsNeeded(wslot[w]) THEN SignalMain ELSE mpc' = mpc
  /\ wpc' = [wpc EXCEPT ![w] = "test"]
  /\ UNCHANGED <<queueVars, idleWorkers, exception, wslot, fileIndex,
                 neededFileSlot, availableWorkers, listenVars>>

\* makeFile threw another message: the link is about to fail.  The slot stays
\* empty and the remaining count is zeroed.
WorkerFail(w) ==
  /\ wpc[w] = "parsing"
  /\ parseLock = Free
  /\ parseLock' = w
  /\ remainingInputFiles' = 0
  /\ exception' = "parse"
  /\ wpc' = [wpc EXCEPT ![w] = "test"]
  /\ UNCHANGED <<inputFiles, queueVars, idleWorkers, wslot, mainVars,
                 listenVars>>

\* pthread_cond_wait returns once it holds the lock again.
WorkerResume(w) ==
  /\ wpc[w] = "woken"
  /\ parseLock = Free
  /\ parseLock' = w
  /\ idleWorkers' = idleWorkers - 1
  /\ wpc' = [wpc EXCEPT ![w] = "test"]
  /\ UNCHANGED <<inputFiles, queueVars, remainingInputFiles, exception, wslot,
                 mainVars, listenVars>>

\* while (_remainingInputFiles): another round.
WorkerAgain(w) ==
  /\ wpc[w] = "test"
  /\ remainingInputFiles # 0
  /\ wpc' = [wpc EXCEPT ![w] = "top"]
  /\ UNCHANGED <<inputFiles, queueVars, remainingInputFiles, idleWorkers,
                 exception, parseLock, wslot, mainVars, listenVars>>

\* Nothing remains: wake every idle worker and the resolver, and exit.
WorkerExit(w) ==
  /\ wpc[w] = "test"
  /\ remainingInputFiles = 0
  /\ wpc' = [v \in Workers |-> IF v = w THEN "exited"
                               ELSE IF wpc[v] = "waiting" THEN "woken"
                               ELSE wpc[v]]
  /\ SignalMain
  /\ parseLock' = Free
  /\ UNCHANGED <<inputFiles, queueVars, remainingInputFiles, idleWorkers,
                 exception, wslot, fileIndex, neededFileSlot,
                 availableWorkers, listenVars>>

\* POSIX lets either condition wait return without a signal.
SpuriousWakeup ==
  \/ /\ mpc = "waiting"
     /\ mpc' = "locking"
     /\ UNCHANGED <<inputFiles, queueVars, remainingInputFiles, idleWorkers,
                    exception, parseLock, wpc, wslot, fileIndex,
                    neededFileSlot, availableWorkers, listenVars>>
  \/ /\ \E w \in Workers : wpc[w] = "waiting"
                           /\ wpc' = [wpc EXCEPT ![w] = "woken"]
     /\ UNCHANGED <<inputFiles, queueVars, remainingInputFiles, idleWorkers,
                    exception, parseLock, wslot, mainVars, listenVars>>

-----------------------------------------------------------------------------
(***************************************************************************)
(* The pipeline listener: waitForInputFiles.                               *)
(***************************************************************************)

\* Mutant of RewoundCursor: the cursor stays where it is.
UnmovedCursor(s) == parseCursor
\* The cursor moves back to a file it has passed.
RewoundCursor(s) == IF parseCursor > s THEN s ELSE parseCursor

\* Mutant of SignalWorker: no signal.
SignalNobody == wpc' = wpc
\* pthread_cond_signal(&_parseWorkReady): at most one waiting worker wakes.
SignalWorker ==
  IF \E w \in Workers : wpc[w] = "waiting"
  THEN \E w \in Workers : /\ wpc[w] = "waiting"
                          /\ wpc' = [wpc EXCEPT ![w] = "woken"]
  ELSE wpc' = wpc

\* A line of the fifo names a file of the list that exists: it is queued, and
\* the cursor moves back to it if it has passed it.
Announce ==
  /\ listener = "listening"
  /\ parseLock = Free
  /\ \E s \in fileMap :
        /\ readyToParse' = [readyToParse EXCEPT ![s] = TRUE]
        /\ parseCursor' = RewoundCursor(s)
        /\ fileMap' = fileMap \ {s}
  /\ IF idleWorkers # 0 THEN SignalWorker ELSE wpc' = wpc
  /\ availableInputFiles' = availableInputFiles + 1
  /\ UNCHANGED <<inputFiles, remainingInputFiles, idleWorkers, exception,
                 parseLock, wslot, mainVars, listener>>

\* The fifo cannot be opened or ends early, or a line names a file that is
\* not in the map or does not exist: the listener passes the exception on.
\* (A fifo that cannot be opened throws even for an empty map.)
ListenerFail ==
  /\ listener = "listening"
  /\ parseLock = Free
  /\ exception' = "pipeline"
  /\ SignalMain
  /\ listener' = "stopped"
  /\ UNCHANGED <<inputFiles, queueVars, remainingInputFiles, idleWorkers,
                 parseLock, wpc, wslot, fileIndex, neededFileSlot,
                 availableWorkers, fileMap>>

\* while (fileMap.size() > 0): every file of the map was announced.
ListenerDone ==
  /\ listener = "listening"
  /\ fileMap = {}
  /\ listener' = "stopped"
  /\ UNCHANGED <<inputFiles, queueVars, remainingInputFiles, idleWorkers,
                 exception, parseLock, wpc, wslot, mainVars, fileMap>>

-----------------------------------------------------------------------------
(***************************************************************************)
(* The resolver's thread: the loop of forEachInitialAtom.                  *)
(***************************************************************************)

\* Mutant of FileArrived: an if instead of the while.
TestedOnce == inputFiles[fileIndex] # "NULL" \/ neededFileSlot = fileIndex
\* while ( _inputFiles[fileIndex] == NULL ... ): tested again after each wait.
FileArrived == inputFiles[fileIndex] # "NULL"

\* The needed file is not parsed: start a worker if there is work and one is
\* still permitted, and wait for _newFileAvailable.
MainStarved ==
  /\ mpc = "locking"
  /\ fileIndex < NumFiles
  /\ parseLock = Free
  /\ ~FileArrived
  /\ exception = "none"
  /\ IF availableInputFiles > 0 /\ availableWorkers > 0
     THEN /\ \E w \in Workers : /\ wpc[w] = "unstarted"
                                /\ wpc' = [wpc EXCEPT ![w] = "starting"]
          /\ availableWorkers' = availableWorkers - 1
     ELSE UNCHANGED <<wpc, availableWorkers>>
  /\ neededFileSlot' = fileIndex
  /\ mpc' = "waiting"
  /\ UNCHANGED <<inputFiles, queueVars, remainingInputFiles, idleWorkers,
                 exception, parseLock, wslot, fileIndex, listenVars>>

\* The needed file is there, and nothing failed: take it and unlock.
MainTake ==
  /\ mpc = "locking"
  /\ fileIndex < NumFiles
  /\ parseLock = Free
  /\ FileArrived
  /\ exception = "none"
  /\ mpc' = "consuming"
  /\ UNCHANGED <<inputFiles, queueVars, remainingInputFiles, idleWorkers,
                 exception, parseLock, wpc, wslot, fileIndex, neededFileSlot,
                 availableWorkers, listenVars>>

\* _exception is set: sleep(1), then throw.  The lock is still held.
MainThrow ==
  /\ mpc = "locking"
  /\ fileIndex < NumFiles
  /\ parseLock = Free
  /\ exception # "none"
  /\ parseLock' = Main
  /\ mpc' = "throwing"
  /\ UNCHANGED <<inputFiles, queueVars, remainingInputFiles, idleWorkers,
                 exception, wpc, wslot, fileIndex, neededFileSlot,
                 availableWorkers, listenVars>>

\* file->forEachAtom(handler), without the lock; a parsed file may throw
\* there, which is stored in _exception and noticed on the next round.
MainConsume ==
  /\ mpc = "consuming"
  /\ \/ UNCHANGED exception
     \/ inputFiles[fileIndex] = "File" /\ exception' = "atoms"
  /\ fileIndex' = fileIndex + 1
  /\ mpc' = "locking"
  /\ UNCHANGED <<inputFiles, queueVars, remainingInputFiles, idleWorkers,
                 parseLock, wpc, wslot, neededFileSlot, availableWorkers,
                 listenVars>>

\* After the last file: throw what was stored, or go on to resolve.
MainFinish ==
  /\ mpc = "locking"
  /\ fileIndex = NumFiles
  /\ mpc' = IF exception = "none" THEN "done" ELSE "throwing"
  /\ UNCHANGED <<inputFiles, queueVars, remainingInputFiles, idleWorkers,
                 exception, parseLock, wpc, wslot, fileIndex, neededFileSlot,
                 availableWorkers, listenVars>>

\* sleep(1) is over; main() prints the message and exits the process.
MainExit ==
  /\ mpc = "throwing"
  /\ mpc' = "exited"
  /\ UNCHANGED <<inputFiles, queueVars, remainingInputFiles, idleWorkers,
                 exception, parseLock, wpc, wslot, fileIndex, neededFileSlot,
                 availableWorkers, listenVars>>

-----------------------------------------------------------------------------

Running == mpc # "exited"

WorkerStep(w) ==
  \/ WorkerEnter(w) \/ WorkerIdle(w) \/ WorkerTake(w)
  \/ \E file \in {"File", "Ignored"} : WorkerStore(w, file)
  \/ WorkerFail(w) \/ WorkerResume(w) \/ WorkerAgain(w) \/ WorkerExit(w)

ListenerStep == Announce \/ ListenerFail \/ ListenerDone

MainStep ==
  \/ MainStarved \/ MainTake \/ MainThrow \/ MainConsume \/ MainFinish
  \/ MainExit

\* The link may stop after "done" and "exited"; idle threads are abandoned.
Terminated == mpc \in {"done", "exited"} /\ UNCHANGED vars

Next ==
  \/ Running /\ \E w \in Workers : WorkerStep(w)
  \/ Running /\ ListenerStep
  \/ Running /\ SpuriousWakeup
  \/ MainStep
  \/ Terminated

Safety == Init /\ [][Next]_vars

\* Each thread keeps running and, if the lock is free again and again, gets
\* it at last (strong fairness matters only when spurious wakeups keep taking
\* it); the writer of the fifo writes another line or closes it.
Fairness ==
  /\ \A w \in Workers : SF_vars(Running /\ WorkerStep(w))
  /\ SF_vars(Running /\ ListenerStep)
  /\ SF_vars(MainStep)

Spec == Safety /\ Fairness

-----------------------------------------------------------------------------
(***************************************************************************)
(* Properties.                                                             *)
(***************************************************************************)

FileStates == {"NULL", "File", "Ignored"}
WorkerPcs  == {"unstarted", "starting", "top", "waiting", "woken", "parsing",
               "test", "exited"}
MainPcs    == {"locking", "waiting", "consuming", "throwing", "done", "exited"}

\* The type of each field of InputFiles that the threads share.
TypeOK ==
  /\ inputFiles \in [Slots -> FileStates]
  /\ readyToParse \in [Slots -> BOOLEAN]
  /\ parseCursor \in 0 .. NumFiles
  /\ availableInputFiles \in 0 .. NumFiles
  /\ remainingInputFiles \in 0 .. NumFiles
  /\ availableWorkers \in 0 .. Cardinality(Workers)
  /\ idleWorkers \in 0 .. Cardinality(Workers)
  /\ neededFileSlot \in Slots \cup {-1}
  /\ exception \in {"none", "parse", "pipeline", "atoms"}
  /\ parseLock \in Workers \cup {Free, Main}
  /\ wpc \in [Workers -> WorkerPcs]
  /\ wslot \in [Workers -> Slots]
  /\ mpc \in MainPcs
  /\ fileIndex \in 0 .. NumFiles
  /\ listener \in {"off", "listening", "stopped"}
  /\ fileMap \subseteq FileList

\* assert(slot < (int)files.size()) of parseWorkerThread never fires: whenever
\* a worker is about to scan because _availableInputFiles is not 0, a queued
\* and unparsed file lies at or after the cursor, however the listener has
\* moved the cursor back in the meantime.
ScanFindsWork ==
  (\E w \in Workers : wpc[w] = "top") /\ availableInputFiles # 0
    => \E s \in Slots : IsNextSlot(s)

\* _remainingInputFiles counts the slots still to be parsed, so that a worker
\* leaves its loop only when every file is parsed or the link has failed.
RemainingCounts ==
  \/ remainingInputFiles = Cardinality({s \in Slots : inputFiles[s] = "NULL"})
  \/ remainingInputFiles = 0 /\ exception # "none"

\* No file is parsed twice: a slot some worker is parsing is empty, is not
\* queued, is not awaited from the fifo and is not parsed by another worker.
ParsedOnce ==
  \A w \in Workers : wpc[w] = "parsing" =>
    /\ inputFiles[wslot[w]] = "NULL"
    /\ ~readyToParse[wslot[w]]
    /\ wslot[w] \notin fileMap
    /\ \A v \in Workers : wpc[v] = "parsing" /\ wslot[v] = wslot[w] => v = w

\* The resolver never sleeps through the event it waits for: while it waits on
\* _newFileAvailable its file is not parsed, and no exception is set that the
\* thread holding the lock is not about to signal.
NoMissedWakeup ==
  mpc = "waiting" =>
    /\ neededFileSlot = fileIndex
    /\ inputFiles[fileIndex] = "NULL"
    /\ \/ exception = "none"
       \/ \E w \in Workers : wpc[w] = "test" /\ remainingInputFiles = 0

\* Queued work is never left to sleeping threads: while files are queued and
\* the link has not failed, some worker is awake, whether or not the listener
\* found _idleWorkers nonzero when it queued them.
NoLostWork ==
  availableInputFiles # 0 /\ remainingInputFiles # 0
    => \E w \in Workers : wpc[w] \in {"starting", "woken", "top", "test",
                                      "parsing"}

\* Every link ends: the resolver consumes all files or throws.
MainEnds == <>(mpc \in {"done", "exited"})

\* What the pool promises its caller, whatever the threads do.
Order == INSTANCE InputOrder WITH
  parsed   <- {s \in Slots : inputFiles[s] # "NULL"},
  consumed <- IF mpc = "consuming" THEN fileIndex + 1 ELSE fileIndex,
  outcome  <- CASE mpc = "done" -> "done"
                [] mpc \in {"throwing", "exited"} -> "failed"
                [] OTHER -> "running"

\* The pool implements it: files reach the resolver in command-line order,
\* each exactly once and only when parsed, and after a failure none does.
ImplementsInputOrder == Order!Spec

=============================================================================
