-------------------------- MODULE ParsePoolProofs --------------------------
(***************************************************************************)
(* Proofs about the threaded parser of InputFiles, for any number of       *)
(* files, threads and listed files: its type, the safety properties the    *)
(* runs check on small instances, and that it implements InputOrder.       *)
(***************************************************************************)
EXTENDS ParsePool, FiniteSetTheorems, WellFoundedInduction, TLAPS

Queued    == {s \in Slots : readyToParse[s]}
Unparsed  == {s \in Slots : inputFiles[s] = "NULL"}
Sleepers  == {w \in Workers : wpc[w] \in {"waiting", "woken"}}
Unstarted == {w \in Workers : wpc[w] = "unstarted"}

\* The variables but the three counters that Counts determines.
Shape ==
  /\ inputFiles \in [Slots -> FileStates]
  /\ readyToParse \in [Slots -> BOOLEAN]
  /\ parseCursor \in 0 .. NumFiles
  /\ remainingInputFiles \in 0 .. NumFiles
  /\ neededFileSlot \in Slots \cup {-1}
  /\ exception \in {"none", "parse", "pipeline", "atoms"}
  /\ parseLock \in Workers \cup {Free, Main}
  /\ wpc \in [Workers -> WorkerPcs]
  /\ wslot \in [Workers -> Slots]
  /\ mpc \in MainPcs
  /\ fileIndex \in 0 .. NumFiles
  /\ listener \in {"off", "listening", "stopped"}
  /\ fileMap \subseteq FileList

\* The counters are what their comments in InputFiles.h say.
Counts ==
  /\ availableInputFiles = Cardinality(Queued)
  /\ idleWorkers = Cardinality(Sleepers)
  /\ availableWorkers = Cardinality(Unstarted)

\* A worker between pthread_mutex_lock and unlock, and no other, has the lock.
Locking == \A w \in Workers : parseLock = w <=> wpc[w] \in {"top", "test"}

\* A queued file is unparsed and not behind the cursor; neither it nor a file
\* the fifo has still to announce is with a worker.
Queue ==
  /\ \A s \in Slots : readyToParse[s] =>
        /\ s >= parseCursor
        /\ inputFiles[s] = "NULL"
        /\ s \notin fileMap
  /\ \A s \in fileMap : inputFiles[s] = "NULL"

\* Workers leave only when nothing remains, and one at least was started.
Departures ==
  /\ \A w \in Workers : wpc[w] = "exited" => remainingInputFiles = 0
  /\ \E w \in Workers : wpc[w] # "unstarted"

\* Where the resolver's thread is in its loop.
MainLoop ==
  /\ mpc \in {"waiting", "consuming"} => fileIndex < NumFiles
  /\ mpc = "consuming" => inputFiles[fileIndex] # "NULL"

IInv ==
  /\ Shape /\ Counts /\ Locking /\ Queue /\ Departures /\ MainLoop
  /\ ParsedOnce /\ RemainingCounts /\ NoMissedWakeup /\ NoLostWork

-----------------------------------------------------------------------------

\* Sets of slots and of workers are finite, and bounded.
LEMMA SlotSets ==
  /\ \A T \in SUBSET Slots : IsFiniteSet(T) /\ Cardinality(T) \in 0 .. NumFiles
  /\ Cardinality(Slots) = NumFiles
<1>1. IsFiniteSet(Slots) /\ Cardinality(Slots) = NumFiles
  <2>1. 0 \in Int /\ NumFiles - 1 \in Int
    BY PoolAssumption
  <2>2. /\ IsFiniteSet(Slots)
        /\ Cardinality(Slots) =
             IF 0 > NumFiles - 1 THEN 0 ELSE NumFiles - 1 - 0 + 1
    BY <2>1, FS_Interval DEF Slots
  <2> QED BY <2>2, PoolAssumption
<1>2. ASSUME NEW T \in SUBSET Slots
      PROVE  IsFiniteSet(T) /\ Cardinality(T) \in 0 .. NumFiles
  <2>1. IsFiniteSet(T) /\ Cardinality(T) <= NumFiles
    BY <1>1, FS_Subset
  <2> QED BY <2>1, FS_CardinalityType, PoolAssumption
<1> QED BY <1>1, <1>2

\* The same of sets of workers.
LEMMA WorkerSets ==
  \A T \in SUBSET Workers :
     IsFiniteSet(T) /\ Cardinality(T) \in 0 .. Cardinality(Workers)
<1> TAKE T \in SUBSET Workers
<1>1. IsFiniteSet(T) /\ Cardinality(T) <= Cardinality(Workers)
  BY FS_Subset, PoolAssumption
<1> QED BY <1>1, FS_CardinalityType, PoolAssumption

\* The counters are within their bounds, so the invariant has TypeOK.
LEMMA ShapeIsType == Shape /\ Counts => TypeOK
BY SlotSets, WorkerSets DEF Shape, Counts, TypeOK, Queued, Sleepers, Unstarted

\* A nonempty set of slots has a least element.
LEMMA LeastSlot ==
  ASSUME NEW T \in SUBSET Slots, T # {}
  PROVE  \E s \in T : \A t \in T : s <= t
<1>1. T \subseteq Nat
  BY PoolAssumption DEF Slots
<1>2. PICK s \in T : \A t \in T : ~ (<<t, s>> \in OpToRel(<, Nat))
  BY <1>1, WFMin, NatLessThanWellFounded
<1>3. \A t \in T : ~ (t < s)
  BY <1>1, <1>2 DEF OpToRel
<1> QED BY <1>1, <1>3

-----------------------------------------------------------------------------

\* The constructor of InputFiles establishes the invariant.
LEMMA InitInv == Init => IInv
<1> SUFFICES ASSUME Init PROVE IInv
  OBVIOUS
<1> USE PoolAssumption DEF Init
<1>1. Shape
  BY DEF Shape, Slots, FileStates, WorkerPcs, MainPcs, Free, InitialFileMap
<1>2. Counts
  <2>1. PICK first \in Workers :
          wpc = [w \in Workers |-> IF w = first THEN "starting" ELSE "unstarted"]
    OBVIOUS
  <2>2. Sleepers = {} /\ Unstarted = Workers \ {first}
    BY <2>1 DEF Sleepers, Unstarted
  <2> QED BY <2>2, FS_EmptySet, FS_RemoveElement DEF Counts, Queued
<1>3. Locking /\ Departures /\ ParsedOnce /\ NoLostWork
  BY DEF Locking, Departures, ParsedOnce, NoLostWork
<1>4. Queue
  <2>1. \A s \in Slots : readyToParse[s] => s \notin FileList \/ ~Pipelined
    OBVIOUS
  <2>2. \A s \in Slots : readyToParse[s] => s \notin fileMap
    BY <2>1 DEF InitialFileMap
  <2>3. \A s \in Slots : s >= parseCursor /\ inputFiles[s] = "NULL"
    BY DEF Slots
  <2> QED BY <2>2, <2>3 DEF Queue, InitialFileMap
<1>5. MainLoop /\ NoMissedWakeup
  BY DEF MainLoop, NoMissedWakeup
<1>6. RemainingCounts
  <2>1. {s \in Slots : inputFiles[s] = "NULL"} = Slots
    OBVIOUS
  <2> QED BY <2>1, SlotSets DEF RemainingCounts
<1> QED BY <1>1, <1>2, <1>3, <1>4, <1>5, <1>6 DEF IInv

\* A worker that first gets the lock disturbs only who holds it.
LEMMA WorkerEnterInv ==
  ASSUME IInv, NEW w \in Workers, WorkerEnter(w)
  PROVE  IInv'
<1> USE PoolAssumption DEF IInv, WorkerEnter, queueVars, mainVars, listenVars
<1>1. Shape'
  BY DEF Shape, Slots, FileStates, WorkerPcs, MainPcs, Free, Main
<1>2. Counts'
  <2>1. Queued' = Queued /\ Sleepers' = Sleepers /\ Unstarted' = Unstarted
    BY DEF Queued, Sleepers, Unstarted, Shape
  <2> QED BY <2>1 DEF Counts
<1>3. Locking'
  BY DEF Locking, Free, Main, Shape
<1>4. Queue' /\ Departures' /\ MainLoop' /\ ParsedOnce'
      /\ RemainingCounts' /\ NoMissedWakeup' /\ NoLostWork'
  BY DEF Queue, Slots, Departures, MainLoop, ParsedOnce,
         RemainingCounts, NoMissedWakeup, Locking, NoLostWork, Counts,
         Shape
<1> QED BY <1>1, <1>2, <1>3, <1>4 DEF IInv

\* A worker goes to sleep only when nothing is queued, so no work is lost.
LEMMA WorkerIdleInv ==
  ASSUME IInv, NEW w \in Workers, WorkerIdle(w)
  PROVE  IInv'
<1> USE PoolAssumption DEF IInv, WorkerIdle, queueVars, mainVars, listenVars
<1>1. Shape'
  BY DEF Shape, Slots, FileStates, WorkerPcs, MainPcs, Free, Main
<1>2. Counts'
  <2>1. Queued' = Queued /\ Unstarted' = Unstarted
    BY DEF Queued, Unstarted, Shape
  <2>2. w \notin Sleepers /\ Sleepers' = Sleepers \cup {w}
    BY DEF Sleepers, Shape
  <2>3. IsFiniteSet(Sleepers)
    BY WorkerSets DEF Sleepers
  <2> QED BY <2>1, <2>2, <2>3, FS_AddElement DEF Counts
<1>3. Locking'
  BY DEF Locking, Free, Main, Shape
<1>4. NoLostWork'
  BY DEF NoLostWork, Departures, Counts, Shape
<1>5. Queue' /\ Departures' /\ MainLoop' /\ ParsedOnce'
      /\ RemainingCounts' /\ NoMissedWakeup'
  BY DEF Queue, Slots, Departures, MainLoop, ParsedOnce,
         RemainingCounts, NoMissedWakeup, Locking, Shape
<1> QED BY <1>1, <1>2, <1>3, <1>4, <1>5 DEF IInv

\* Taking the next slot moves it from the queued ones to the one being parsed.
LEMMA WorkerTakeInv ==
  ASSUME IInv, NEW w \in Workers, WorkerTake(w)
  PROVE  IInv'
<1> USE PoolAssumption DEF IInv, WorkerTake, Dequeue,
             queueVars, mainVars, listenVars
<1>a. PICK s \in Slots : /\ IsNextSlot(s)
                         /\ wslot' = [wslot EXCEPT ![w] = s]
                         /\ parseCursor' = s + 1
                         /\ readyToParse' = [readyToParse EXCEPT ![s] = FALSE]
  OBVIOUS
<1>1. Shape'
  BY DEF Shape, Slots, FileStates, WorkerPcs, MainPcs, Free, Main
<1>2. Counts'
  <2>1. s \in Queued /\ Queued' = Queued \ {s}
    BY <1>a DEF Queued, Shape, IsNextSlot, Parseable
  <2>2. Sleepers' = Sleepers /\ Unstarted' = Unstarted
    BY DEF Sleepers, Unstarted, Shape
  <2>3. IsFiniteSet(Queued)
    BY SlotSets DEF Queued
  <2> QED BY <2>1, <2>2, <2>3, FS_RemoveElement DEF Counts
<1>3. Locking'
  BY DEF Locking, Free, Main, Shape
<1>4. Queue'
  <2>1. ASSUME NEW t \in Slots, readyToParse'[t]
        PROVE  t # s /\ readyToParse[t]
    BY <1>a, <2>1 DEF Shape
  <2>2. ASSUME NEW t \in Slots, readyToParse[t], t # s
        PROVE  t >= s + 1
    BY <1>a, <2>2 DEF Queue, IsNextSlot, Parseable, Shape, Slots
  <2> QED BY <1>a, <2>1, <2>2 DEF Queue
<1>5. ParsedOnce'
  <2>1. inputFiles[s] = "NULL" /\ readyToParse[s] /\ s \notin fileMap
    BY <1>a DEF IsNextSlot, Parseable, Queue
  <2>2. \A v \in Workers : wpc[v] = "parsing" => wslot[v] # s
    BY <2>1 DEF ParsedOnce
  <2> QED BY <1>a, <2>1, <2>2 DEF ParsedOnce, Shape
<1>6. Departures' /\ MainLoop' /\ RemainingCounts' /\ NoMissedWakeup'
      /\ NoLostWork'
  BY DEF Departures, MainLoop, Slots, RemainingCounts, NoMissedWakeup,
         Locking, NoLostWork, Counts, Shape
<1> QED BY <1>1, <1>2, <1>3, <1>4, <1>5, <1>6 DEF IInv

\* A stored file leaves the count exact and wakes the resolver if it needs it.
LEMMA WorkerStoreInv ==
  ASSUME IInv, NEW w \in Workers, NEW file \in {"File", "Ignored"},
         WorkerStore(w, file)
  PROVE  IInv'
<1> USE PoolAssumption DEF IInv, WorkerStore, OneLess, IsNeeded, SignalMain,
             queueVars, mainVars, listenVars
<1>1. Shape'
  BY DEF Shape, Slots, FileStates, WorkerPcs, MainPcs, Free, Main
<1>2. Counts'
  <2>1. Queued' = Queued /\ Sleepers' = Sleepers /\ Unstarted' = Unstarted
    BY DEF Queued, Sleepers, Unstarted, Shape
  <2> QED BY <2>1 DEF Counts
<1>3. Locking'
  BY DEF Locking, Free, Main, Shape
<1>4. Queue'
  BY DEF Queue, ParsedOnce, Shape
<1>5. ParsedOnce'
  BY DEF ParsedOnce, Shape
<1>6. RemainingCounts'
  <2>1. wslot[w] \in Unparsed /\ Unparsed' = Unparsed \ {wslot[w]}
    BY DEF Unparsed, ParsedOnce, Shape
  <2>2. IsFiniteSet(Unparsed) /\ Cardinality(Unparsed) \in Nat
    BY SlotSets DEF Unparsed
  <2>3. Cardinality(Unparsed') = Cardinality(Unparsed) - 1
    BY <2>1, <2>2, FS_RemoveElement
  <2>4. Cardinality(Unparsed) # 0
    BY <2>1, <2>2, FS_EmptySet
  <2> QED BY <2>2, <2>3, <2>4 DEF RemainingCounts, Unparsed, Shape
<1>7. NoMissedWakeup'
  BY DEF NoMissedWakeup, Locking, MainLoop, Slots, Shape
<1>8. Departures' /\ MainLoop' /\ NoLostWork'
  BY DEF Departures, MainLoop, Slots, NoLostWork, Counts, Shape
<1> QED BY <1>1, <1>2, <1>3, <1>4, <1>5, <1>6, <1>7, <1>8 DEF IInv

\* A failed parse zeroes the count while the worker is about to broadcast.
LEMMA WorkerFailInv ==
  ASSUME IInv, NEW w \in Workers, WorkerFail(w)
  PROVE  IInv'
<1> USE PoolAssumption DEF IInv, WorkerFail, queueVars, mainVars, listenVars
<1>1. Shape'
  BY DEF Shape, Slots, FileStates, WorkerPcs, MainPcs, Free, Main
<1>2. Counts'
  <2>1. Queued' = Queued /\ Sleepers' = Sleepers /\ Unstarted' = Unstarted
    BY DEF Queued, Sleepers, Unstarted, Shape
  <2> QED BY <2>1 DEF Counts
<1>3. Locking'
  BY DEF Locking, Free, Main, Shape
<1>4. RemainingCounts'
  BY DEF RemainingCounts, Shape
<1>5. NoMissedWakeup'
  BY DEF NoMissedWakeup, Locking, MainLoop, Slots, Shape
<1>6. Queue' /\ Departures' /\ MainLoop' /\ ParsedOnce' /\ NoLostWork'
  BY DEF Queue, Slots, Departures, MainLoop, ParsedOnce, NoLostWork,
         Counts, Shape
<1> QED BY <1>1, <1>2, <1>3, <1>4, <1>5, <1>6 DEF IInv

\* A woken worker leaves the idle ones.
LEMMA WorkerResumeInv ==
  ASSUME IInv, NEW w \in Workers, WorkerResume(w)
  PROVE  IInv'
<1> USE PoolAssumption DEF IInv, WorkerResume, queueVars, mainVars, listenVars
<1>1. Shape'
  BY DEF Shape, Slots, FileStates, WorkerPcs, MainPcs, Free, Main
<1>2. Counts'
  <2>1. Queued' = Queued /\ Unstarted' = Unstarted
    BY DEF Queued, Unstarted, Shape
  <2>2. w \in Sleepers /\ Sleepers' = Sleepers \ {w}
    BY DEF Sleepers, Shape
  <2>3. IsFiniteSet(Sleepers)
    BY WorkerSets DEF Sleepers
  <2> QED BY <2>1, <2>2, <2>3, FS_RemoveElement DEF Counts
<1>3. Locking'
  BY DEF Locking, Free, Main, Shape
<1>4. Queue' /\ Departures' /\ MainLoop' /\ ParsedOnce'
      /\ RemainingCounts' /\ NoMissedWakeup' /\ NoLostWork'
  BY DEF Queue, Slots, Departures, MainLoop, ParsedOnce,
         RemainingCounts, NoMissedWakeup, Locking, NoLostWork, Counts,
         Shape
<1> QED BY <1>1, <1>2, <1>3, <1>4 DEF IInv

\* Another round begins only while files remain.
LEMMA WorkerAgainInv ==
  ASSUME IInv, NEW w \in Workers, WorkerAgain(w)
  PROVE  IInv'
<1> USE PoolAssumption DEF IInv, WorkerAgain, queueVars, mainVars, listenVars
<1>1. Counts'
  <2>1. Queued' = Queued /\ Sleepers' = Sleepers /\ Unstarted' = Unstarted
    BY DEF Queued, Sleepers, Unstarted, Shape
  <2> QED BY <2>1 DEF Counts
<1>2. Locking'
  BY DEF Locking, Free, Main, Shape
<1>3. NoMissedWakeup'
  BY DEF NoMissedWakeup, Locking, MainLoop, Slots, Shape
<1>4. Shape' /\ Queue' /\ Departures' /\ MainLoop' /\ ParsedOnce'
      /\ RemainingCounts' /\ NoLostWork'
  BY DEF Shape, Slots, FileStates, WorkerPcs, MainPcs, Free, Main,
         Queue, Departures, MainLoop, ParsedOnce, RemainingCounts,
         NoLostWork, Counts
<1> QED BY <1>1, <1>2, <1>3, <1>4 DEF IInv

\* The broadcast of an exiting worker leaves nobody asleep on either condition.
LEMMA WorkerExitInv ==
  ASSUME IInv, NEW w \in Workers, WorkerExit(w)
  PROVE  IInv'
<1> USE PoolAssumption DEF IInv, WorkerExit, SignalMain,
             queueVars, mainVars, listenVars
<1>1. Shape'
  BY DEF Shape, Slots, FileStates, WorkerPcs, MainPcs, Free, Main
<1>2. Counts'
  <2>1. Queued' = Queued /\ Sleepers' = Sleepers /\ Unstarted' = Unstarted
    BY DEF Queued, Sleepers, Unstarted, Shape
  <2> QED BY <2>1 DEF Counts
<1>3. Locking'
  BY DEF Locking, Free, Main, Shape
<1>4. Departures'
  BY DEF Departures, Shape
<1>5. NoMissedWakeup'
  BY DEF NoMissedWakeup, Locking, MainLoop, Slots, Shape
<1>6. Queue' /\ MainLoop' /\ ParsedOnce' /\ RemainingCounts'
      /\ NoLostWork'
  BY DEF Queue, Slots, MainLoop, ParsedOnce, RemainingCounts,
         NoLostWork, Departures, Counts, Shape
<1> QED BY <1>1, <1>2, <1>3, <1>4, <1>5, <1>6 DEF IInv

\* A wakeup without a signal wakes one thread and changes nothing else.
LEMMA SpuriousWakeupInv ==
  ASSUME IInv, SpuriousWakeup
  PROVE  IInv'
<1> USE PoolAssumption DEF IInv, SpuriousWakeup, queueVars, mainVars, listenVars
<1>1. Shape'
  BY DEF Shape, Slots, FileStates, WorkerPcs, MainPcs, Free, Main
<1>2. Counts'
  <2>1. Queued' = Queued /\ Sleepers' = Sleepers /\ Unstarted' = Unstarted
    BY DEF Queued, Sleepers, Unstarted, Shape
  <2> QED BY <2>1 DEF Counts
<1>3. Locking'
  BY DEF Locking, Free, Main, Shape
<1>4. ParsedOnce'
  BY DEF ParsedOnce, Shape
<1>5. NoMissedWakeup'
  BY DEF NoMissedWakeup, Locking, MainLoop, Slots, Shape
<1>6. NoLostWork'
  BY DEF NoLostWork, Departures, Counts, Shape
<1>7. Queue' /\ RemainingCounts'
  <2>1. UNCHANGED <<readyToParse, parseCursor, inputFiles, fileMap, remainingInputFiles, exception>>
    OBVIOUS
  <2>2. Queue'
    BY <2>1 DEF Queue
  <2>3. RemainingCounts'
    BY <2>1 DEF RemainingCounts
  <2> QED BY <2>2, <2>3
<1>8. Departures'
  BY DEF Departures, Shape
<1>9. MainLoop'
  BY DEF MainLoop
<1> QED BY <1>1, <1>2, <1>3, <1>4, <1>5, <1>6, <1>7, <1>8, <1>9 DEF IInv

\* An announced file is queued at or after the cursor and someone is awake for it.
LEMMA AnnounceInv ==
  ASSUME IInv, Announce
  PROVE  IInv'
<1> USE PoolAssumption DEF IInv, Announce, RewoundCursor,
             queueVars, mainVars, listenVars
<1>a. PICK s \in fileMap :
        /\ readyToParse' = [readyToParse EXCEPT ![s] = TRUE]
        /\ parseCursor' = IF parseCursor > s THEN s ELSE parseCursor
        /\ fileMap' = fileMap \ {s}
  OBVIOUS
<1>b. \/ wpc' = wpc
       \/ \E w \in Workers : /\ wpc[w] = "waiting"
                              /\ wpc' = [wpc EXCEPT ![w] = "woken"]
  BY DEF SignalWorker
<1>1. Shape'
  BY <1>a, <1>b DEF Shape, Slots, WorkerPcs
<1>2. Counts'
  <2>1. s \notin Queued /\ Queued' = Queued \cup {s}
    BY <1>a DEF Queued, Shape, Queue
  <2>2. Sleepers' = Sleepers /\ Unstarted' = Unstarted
    BY <1>b DEF Sleepers, Unstarted, Shape
  <2>3. IsFiniteSet(Queued)
    BY SlotSets DEF Queued
  <2> QED BY <2>1, <2>2, <2>3, FS_AddElement DEF Counts
<1>3. Locking'
  BY <1>b DEF Locking, Shape
<1>4. Queue'
  BY <1>a DEF Queue, Shape, Slots
<1>5. Departures'
  BY <1>b DEF Departures, Shape
<1>6. ParsedOnce'
  BY <1>a, <1>b DEF ParsedOnce, Shape
<1>7. NoLostWork'
  <2>1. SUFFICES ASSUME remainingInputFiles # 0
        PROVE  \E w \in Workers : wpc'[w] \in {"starting", "woken", "top",
                                               "test", "parsing"}
    BY DEF NoLostWork
  <2>2. CASE \E w \in Workers : wpc[w] = "waiting"
    <3>1. idleWorkers # 0
      BY <2>2, WorkerSets, FS_EmptySet DEF Counts, Sleepers
    <3> QED BY <2>2, <3>1 DEF SignalWorker, Shape
  <2>3. CASE \A w \in Workers : wpc[w] # "waiting"
    <3>1. wpc' = wpc
      BY <2>3 DEF SignalWorker
    <3> QED BY <2>1, <2>3, <3>1 DEF Departures, Shape, WorkerPcs
  <2> QED BY <2>2, <2>3
<1>8. MainLoop' /\ RemainingCounts' /\ NoMissedWakeup'
  BY DEF MainLoop, Slots, RemainingCounts, NoMissedWakeup, Locking,
         Shape
<1> QED BY <1>1, <1>2, <1>3, <1>4, <1>5, <1>6, <1>7, <1>8 DEF IInv

\* A failing listener signals the resolver as it stores the exception.
LEMMA ListenerFailInv ==
  ASSUME IInv, ListenerFail
  PROVE  IInv'
<1> USE PoolAssumption DEF IInv, ListenerFail, SignalMain,
             queueVars, mainVars, listenVars
<1>1. Counts'
  <2>1. Queued' = Queued /\ Sleepers' = Sleepers /\ Unstarted' = Unstarted
    BY DEF Queued, Sleepers, Unstarted, Shape
  <2> QED BY <2>1 DEF Counts
<1>2. RemainingCounts'
  BY DEF RemainingCounts, Shape
<1>3. NoMissedWakeup'
  BY DEF NoMissedWakeup, Locking, MainLoop, Slots, Shape
<1>4. Shape' /\ Locking' /\ Queue' /\ Departures' /\ MainLoop'
      /\ ParsedOnce' /\ NoLostWork'
  BY DEF Shape, Slots, FileStates, WorkerPcs, MainPcs, Free, Main,
         Locking, Queue, Departures, MainLoop, ParsedOnce, NoLostWork,
         Counts
<1> QED BY <1>1, <1>2, <1>3, <1>4 DEF IInv

\* A listener that is done leaves no slot awaited.
LEMMA ListenerDoneInv ==
  ASSUME IInv, ListenerDone
  PROVE  IInv'
<1> USE PoolAssumption DEF IInv, ListenerDone, queueVars, mainVars, listenVars
<1>1. Counts'
  <2>1. Queued' = Queued /\ Sleepers' = Sleepers /\ Unstarted' = Unstarted
    BY DEF Queued, Sleepers, Unstarted, Shape
  <2> QED BY <2>1 DEF Counts
<1>2. Shape' /\ Locking' /\ Queue' /\ Departures' /\ MainLoop'
      /\ ParsedOnce' /\ RemainingCounts' /\ NoMissedWakeup'
      /\ NoLostWork'
  BY DEF Shape, Slots, FileStates, WorkerPcs, MainPcs, Free, Main,
         Locking, Queue, Departures, MainLoop, ParsedOnce,
         RemainingCounts, NoMissedWakeup, NoLostWork, Counts
<1> QED BY <1>1, <1>2 DEF IInv

\* The resolver waits for its own slot, after starting a worker if it may.
LEMMA MainStarvedInv ==
  ASSUME IInv, MainStarved
  PROVE  IInv'
<1> USE PoolAssumption DEF IInv, MainStarved, FileArrived,
             queueVars, mainVars, listenVars
<1>1. Shape'
  BY DEF Shape, Slots, FileStates, WorkerPcs, MainPcs, Free, Main
<1>2. Counts'
  <2>1. Queued' = Queued /\ Sleepers' = Sleepers
    BY DEF Queued, Sleepers, Shape
  <2>2. CASE availableInputFiles > 0 /\ availableWorkers > 0
    <3>1. PICK w \in Workers : /\ wpc[w] = "unstarted"
                               /\ wpc' = [wpc EXCEPT ![w] = "starting"]
      BY <2>2
    <3>2. w \in Unstarted /\ Unstarted' = Unstarted \ {w}
      BY <3>1 DEF Unstarted, Shape
    <3>3. IsFiniteSet(Unstarted)
      BY WorkerSets DEF Unstarted
    <3> QED BY <2>1, <2>2, <3>2, <3>3, FS_RemoveElement DEF Counts
  <2>3. CASE ~(availableInputFiles > 0 /\ availableWorkers > 0)
    BY <2>1, <2>3 DEF Counts, Unstarted
  <2> QED BY <2>2, <2>3
<1>3. Locking'
  BY DEF Locking, Free, Main, Shape
<1>4. NoMissedWakeup'
  BY DEF NoMissedWakeup, Locking, MainLoop, Slots, Shape
<1>5. Queue' /\ Departures' /\ MainLoop' /\ RemainingCounts'
  BY DEF Queue, Slots, Departures, MainLoop, RemainingCounts, Shape
<1>6. ParsedOnce'
  BY DEF ParsedOnce, Shape
<1>7. NoLostWork'
  BY DEF NoLostWork, Departures, Shape
<1> QED BY <1>1, <1>2, <1>3, <1>4, <1>5, <1>6, <1>7 DEF IInv

\* The resolver takes a slot that is filled.
LEMMA MainTakeInv ==
  ASSUME IInv, MainTake
  PROVE  IInv'
<1> USE PoolAssumption DEF IInv, MainTake, FileArrived,
             queueVars, mainVars, listenVars
<1>1. Counts'
  <2>1. Queued' = Queued /\ Sleepers' = Sleepers /\ Unstarted' = Unstarted
    BY DEF Queued, Sleepers, Unstarted, Shape
  <2> QED BY <2>1 DEF Counts
<1>2. MainLoop'
  BY DEF MainLoop, Slots, Shape
<1>3. Shape' /\ Locking' /\ Queue' /\ Departures' /\ ParsedOnce'
      /\ RemainingCounts' /\ NoMissedWakeup' /\ NoLostWork'
  BY DEF Shape, Slots, FileStates, WorkerPcs, MainPcs, Free, Main,
         Locking, Queue, Departures, ParsedOnce, RemainingCounts,
         NoMissedWakeup, MainLoop, NoLostWork, Counts
<1> QED BY <1>1, <1>2, <1>3 DEF IInv

\* The resolver that throws keeps the lock for ever.
LEMMA MainThrowInv ==
  ASSUME IInv, MainThrow
  PROVE  IInv'
<1> USE PoolAssumption DEF IInv, MainThrow, queueVars, mainVars, listenVars
<1>1. Counts'
  <2>1. Queued' = Queued /\ Sleepers' = Sleepers /\ Unstarted' = Unstarted
    BY DEF Queued, Sleepers, Unstarted, Shape
  <2> QED BY <2>1 DEF Counts
<1>2. Locking'
  BY DEF Locking, Free, Main, Shape
<1>3. Shape' /\ Queue' /\ Departures' /\ MainLoop' /\ ParsedOnce'
      /\ RemainingCounts' /\ NoMissedWakeup' /\ NoLostWork'
  BY DEF Shape, Slots, FileStates, WorkerPcs, MainPcs, Free, Main,
         Queue, Departures, MainLoop, ParsedOnce, RemainingCounts,
         NoMissedWakeup, Locking, NoLostWork, Counts
<1> QED BY <1>1, <1>2, <1>3 DEF IInv

\* The index moves on, past a filled slot.
LEMMA MainConsumeInv ==
  ASSUME IInv, MainConsume
  PROVE  IInv'
<1> USE PoolAssumption DEF IInv, MainConsume, queueVars, mainVars, listenVars
<1>1. Shape'
  BY DEF Shape, MainLoop, Slots, MainPcs
<1>2. Counts'
  <2>1. Queued' = Queued /\ Sleepers' = Sleepers /\ Unstarted' = Unstarted
    BY DEF Queued, Sleepers, Unstarted, Shape
  <2> QED BY <2>1 DEF Counts
<1>3. RemainingCounts'
  BY DEF RemainingCounts, Shape
<1>4. NoMissedWakeup'
  BY DEF NoMissedWakeup, Locking, MainLoop, Slots, Shape
<1>5. Locking' /\ Queue' /\ Departures' /\ MainLoop' /\ ParsedOnce'
      /\ NoLostWork'
  BY DEF Locking, Free, Main, Queue, Slots, Departures, MainLoop,
         ParsedOnce, NoLostWork, Counts, Shape
<1> QED BY <1>1, <1>2, <1>3, <1>4, <1>5 DEF IInv

\* The end of the loop changes only where the resolver is.
LEMMA MainFinishInv ==
  ASSUME IInv, MainFinish
  PROVE  IInv'
<1> USE PoolAssumption DEF IInv, MainFinish, queueVars, mainVars, listenVars
<1>1. Counts'
  <2>1. Queued' = Queued /\ Sleepers' = Sleepers /\ Unstarted' = Unstarted
    BY DEF Queued, Sleepers, Unstarted, Shape
  <2> QED BY <2>1 DEF Counts
<1>2. Shape' /\ Locking' /\ Queue' /\ Departures' /\ MainLoop'
      /\ ParsedOnce' /\ RemainingCounts' /\ NoMissedWakeup'
      /\ NoLostWork'
  BY DEF Shape, Slots, FileStates, WorkerPcs, MainPcs, Free, Main,
         Locking, Queue, Departures, MainLoop, ParsedOnce,
         RemainingCounts, NoMissedWakeup, NoLostWork, Counts
<1> QED BY <1>1, <1>2 DEF IInv

\* So does the exit of the process.
LEMMA MainExitInv ==
  ASSUME IInv, MainExit
  PROVE  IInv'
<1> USE PoolAssumption DEF IInv, MainExit, queueVars, mainVars, listenVars
<1>1. Counts'
  <2>1. Queued' = Queued /\ Sleepers' = Sleepers /\ Unstarted' = Unstarted
    BY DEF Queued, Sleepers, Unstarted, Shape
  <2> QED BY <2>1 DEF Counts
<1>2. Shape' /\ Locking' /\ Queue' /\ Departures' /\ MainLoop'
      /\ ParsedOnce' /\ RemainingCounts' /\ NoMissedWakeup'
      /\ NoLostWork'
  BY DEF Shape, Slots, FileStates, WorkerPcs, MainPcs, Free, Main,
         Locking, Queue, Departures, MainLoop, ParsedOnce,
         RemainingCounts, NoMissedWakeup, NoLostWork, Counts
<1> QED BY <1>1, <1>2 DEF IInv

-----------------------------------------------------------------------------

\* Every step of the pool keeps the invariant.
LEMMA NextInv == IInv /\ [Next]_vars => IInv'
<1> SUFFICES ASSUME IInv, [Next]_vars PROVE IInv'
  OBVIOUS
<1>1. CASE UNCHANGED vars
  BY <1>1 DEF vars, IInv, Shape, Counts, Locking, Queue, Departures, MainLoop,
     ParsedOnce, RemainingCounts, NoMissedWakeup, NoLostWork, Queued, Sleepers,
     Unstarted
<1>2. ASSUME NEW w \in Workers, WorkerStep(w) PROVE IInv'
  BY <1>2, WorkerEnterInv, WorkerIdleInv, WorkerTakeInv, WorkerStoreInv,
     WorkerFailInv, WorkerResumeInv, WorkerAgainInv, WorkerExitInv
     DEF WorkerStep
<1>3. CASE ListenerStep
  BY <1>3, AnnounceInv, ListenerFailInv, ListenerDoneInv DEF ListenerStep
<1>4. CASE SpuriousWakeup
  BY <1>4, SpuriousWakeupInv
<1>5. CASE MainStep
  BY <1>5, MainStarvedInv, MainTakeInv, MainThrowInv, MainConsumeInv,
     MainFinishInv, MainExitInv DEF MainStep
<1> QED BY <1>1, <1>2, <1>3, <1>4, <1>5 DEF Next, Terminated

\* IInv holds in every reachable state of the pool.
LEMMA Invariance == Safety => []IInv
BY InitInv, NextInv, PTL DEF Safety

\* Every shared field of InputFiles keeps its type: in particular the counters
\* never go below 0 or beyond the number of files or threads.
THEOREM TypeCorrect == Safety => []TypeOK
<1>1. IInv => TypeOK
  BY ShapeIsType DEF IInv
<1> QED BY <1>1, Invariance, PTL

\* The assertion of parseWorkerThread never fires: a worker that finds
\* _availableInputFiles nonzero finds a file to parse at or after the cursor.
THEOREM ScanFinds == Safety => []ScanFindsWork
<1>1. IInv => ScanFindsWork
  <2> SUFFICES ASSUME IInv, availableInputFiles # 0
               PROVE  \E s \in Slots : IsNextSlot(s)
    BY DEF ScanFindsWork
  <2> DEFINE Ahead == {s \in Slots : s >= parseCursor /\ Parseable(s)}
  <2>1. PICK q \in Slots : readyToParse[q]
    BY SlotSets, FS_EmptySet DEF IInv, Counts, Queued
  <2>2. q \in Ahead
    BY <2>1 DEF IInv, Queue, Parseable
  <2>3. PICK s \in Ahead : \A t \in Ahead : s <= t
    BY <2>2, LeastSlot
  <2>4. IsNextSlot(s)
    BY <2>3, PoolAssumption DEF IsNextSlot, Slots
  <2> QED BY <2>4
<1> QED BY <1>1, Invariance, PTL

\* No file is parsed twice, whatever the listener and the workers do.
THEOREM ParseOnce == Safety => []ParsedOnce
<1>1. IInv => ParsedOnce
  BY DEF IInv
<1> QED BY <1>1, Invariance, PTL

\* _remainingInputFiles counts the unparsed files until the link fails.
THEOREM RemainingCorrect == Safety => []RemainingCounts
<1>1. IInv => RemainingCounts
  BY DEF IInv
<1> QED BY <1>1, Invariance, PTL

\* The resolver never sleeps through the signal it waits for.
THEOREM WakeupsReachResolver == Safety => []NoMissedWakeup
<1>1. IInv => NoMissedWakeup
  BY DEF IInv
<1> QED BY <1>1, Invariance, PTL

\* Queued files are never left to sleeping workers.
THEOREM WakeupsReachWorkers == Safety => []NoLostWork
<1>1. IInv => NoLostWork
  BY DEF IInv
<1> QED BY <1>1, Invariance, PTL

-----------------------------------------------------------------------------
(***************************************************************************)
(* The pool implements InputOrder.                                         *)
(***************************************************************************)

\* The initial states map to the initial states of InputOrder.
LEMMA OrderInit == Init => Order!Init
BY DEF Init, Order!Init

\* Every step maps to one of InputOrder or to a stuttering step.
LEMMA OrderStep == IInv /\ [Next]_vars => [Order!Next]_(Order!vars)
<1> SUFFICES ASSUME IInv, [Next]_vars PROVE [Order!Next]_(Order!vars)
  OBVIOUS
<1> USE PoolAssumption DEF Order!vars, queueVars, mainVars, listenVars
<1>1. CASE UNCHANGED vars
  BY <1>1 DEF vars
<1>2. ASSUME NEW w \in Workers, WorkerStep(w)
      PROVE  [Order!Next]_(Order!vars)
  <2>1. ASSUME NEW file \in {"File", "Ignored"}, WorkerStore(w, file)
        PROVE  [Order!Next]_(Order!vars)
    <3>1. PICK s \in Slots : s = wslot[w]
      BY DEF IInv, Shape
    <3>2. inputFiles[s] = "NULL"
      BY <2>1, <3>1 DEF IInv, ParsedOnce, WorkerStore
    <3>3. {t \in Slots : inputFiles'[t] # "NULL"}
            = {t \in Slots : inputFiles[t] # "NULL"} \cup {s}
      BY <2>1, <3>1, <3>2 DEF IInv, Shape, WorkerStore
    <3>4. UNCHANGED <<IF mpc = "consuming" THEN fileIndex + 1 ELSE fileIndex,
                      CASE mpc = "done" -> "done"
                        [] mpc \in {"throwing", "exited"} -> "failed"
                        [] OTHER -> "running">>
      BY <2>1 DEF WorkerStore, SignalMain
    <3>5. Order!Parse(s)
      BY <3>2, <3>3, <3>4 DEF Order!Parse
    <3> QED BY <3>5 DEF Order!Next, Order!Slots, Slots
  <2>2. CASE WorkerExit(w)
    BY <2>2 DEF WorkerExit, SignalMain
  <2>3. CASE WorkerEnter(w) \/ WorkerIdle(w) \/ WorkerTake(w) \/ WorkerFail(w)
             \/ WorkerResume(w) \/ WorkerAgain(w)
    BY <2>3 DEF WorkerEnter, WorkerIdle, WorkerTake, WorkerFail, WorkerResume,
       WorkerAgain
  <2> QED BY <1>2, <2>1, <2>2, <2>3 DEF WorkerStep
<1>3. CASE ListenerStep
  BY <1>3 DEF ListenerStep, Announce, ListenerFail, ListenerDone, SignalMain
<1>4. CASE SpuriousWakeup
  BY <1>4 DEF SpuriousWakeup
<1>5. CASE MainStep
  <2>1. CASE MainStarved
    BY <2>1 DEF MainStarved
  <2>2. CASE MainTake
    <3>1. Order!Consume
      BY <2>2 DEF MainTake, FileArrived, Order!Consume, IInv, Shape, Slots
    <3> QED BY <3>1 DEF Order!Next
  <2>3. CASE MainThrow
    <3>1. Order!Fail
      BY <2>3 DEF MainThrow, Order!Fail
    <3> QED BY <3>1 DEF Order!Next
  <2>4. CASE MainConsume
    BY <2>4 DEF MainConsume
  <2>5. CASE MainFinish
    <3>1. Order!Finish \/ Order!Fail
      BY <2>5 DEF MainFinish, Order!Finish, Order!Fail
    <3> QED BY <3>1 DEF Order!Next
  <2>6. CASE MainExit
    BY <2>6 DEF MainExit
  <2> QED BY <1>5, <2>1, <2>2, <2>3, <2>4, <2>5, <2>6 DEF MainStep
<1> QED BY <1>1, <1>2, <1>3, <1>4, <1>5 DEF Next, Terminated

\* For any number of files and threads, files reach the resolver in
\* command-line order, once each, and only parsed.
THEOREM Implements == Safety => ImplementsInputOrder
BY OrderInit, OrderStep, Invariance, PTL
   DEF Safety, ImplementsInputOrder, Order!Spec

=============================================================================
