--------------------------- MODULE DispatchParse ---------------------------
(***************************************************************************)
(* The parallel parse of the input files as the constructor of InputFiles  *)
(* compiles it with HAVE_LIBDISPATCH, which InputFiles.cpp defines: one    *)
(* dispatch_apply over all files, whose iterations share firstError        *)
(* without a lock, then the resolver's loop over the slots                 *)
(* (forEachInitialAtom).  ParsePool models the constructor's other branch. *)
(***************************************************************************)
EXTENDS Integers, FiniteSets

CONSTANTS
  NumFiles,    \* _options.getInputFiles().size()
  Width,       \* how many iterations dispatch_apply runs at once
  FileList,    \* the slots of the files named by -filelist (fromFileList)
  Pipelined    \* _options.pipelineEnabled(): LD_PIPELINE_FIFO is set

Slots == 0 .. NumFiles - 1
None == -1

\* files.size() = 0 throws before dispatch_apply.
ASSUME DispatchAssumption ==
  /\ NumFiles \in Nat \ {0}
  /\ Width \in Nat \ {0}
  /\ FileList \subseteq Slots
  /\ Pipelined \in BOOLEAN

VARIABLES
  inputFiles,   \* _inputFiles: what each slot holds
  ipc,          \* where the iteration of each slot is
  firstError,   \* firstError: the slot whose message it carries
  failed,       \* the slots whose makeFile threw a message that is an error
  produced,     \* the files that exist; a pipelined build is still making some
  exception,    \* _exception is set
  mpc,          \* where the main thread is
  fileIndex     \* its loop index in forEachInitialAtom

vars == <<inputFiles, ipc, firstError, failed, produced, exception, mpc,
          fileIndex>>

Init ==
  /\ inputFiles = [s \in Slots |-> "NULL"]
  /\ ipc = [s \in Slots |-> "queued"]
  /\ firstError = None
  /\ failed = {}
  /\ produced = IF Pipelined THEN Slots \ FileList ELSE Slots
  /\ exception = FALSE
  /\ mpc = "applying"
  /\ fileIndex = 0

-----------------------------------------------------------------------------
(***************************************************************************)
(* The block of dispatch_apply, run for each slot.                         *)
(***************************************************************************)

Running == {s \in Slots : ipc[s] \notin {"queued", "done"}}

\* dispatch_apply gives a thread the next index.
Begin(s) ==
  /\ mpc = "applying"
  /\ ipc[s] = "queued"
  /\ Cardinality(Running) < Width
  /\ \A t \in Slots : t < s => ipc[t] # "queued"
  /\ ipc' = [ipc EXCEPT ![s] = "parsing"]
  /\ UNCHANGED <<inputFiles, firstError, failed, produced, exception, mpc,
                 fileIndex>>

\* makeFile returns, or throws one of the messages that only make the linker
\* ignore the file.
Store(s, file) ==
  /\ ipc[s] = "parsing"
  /\ s \in produced
  /\ inputFiles' = [inputFiles EXCEPT ![s] = file]
  /\ ipc' = [ipc EXCEPT ![s] = "done"]
  /\ UNCHANGED <<firstError, failed, produced, exception, mpc, fileIndex>>

\* Mutant of TestFirstError: an iteration that waits for its file.
AwaitFile(s) ==
  /\ ipc[s] = "parsing"
  /\ s \in produced
  /\ failed' = failed \cup {s}
  /\ ipc' = [ipc EXCEPT ![s] = IF firstError = None THEN "setting" ELSE "ignoring"]
  /\ UNCHANGED <<inputFiles, firstError, produced, exception, mpc, fileIndex>>

\* makeFile throws another message (it does for a file that is not there); the
\* catch block tests firstError.
TestFirstError(s) ==
  /\ ipc[s] = "parsing"
  /\ failed' = failed \cup {s}
  /\ ipc' = [ipc EXCEPT ![s] = IF firstError = None THEN "setting" ELSE "ignoring"]
  /\ UNCHANGED <<inputFiles, firstError, produced, exception, mpc, fileIndex>>

\* asprintf into firstError, which another iteration may have set meanwhile.
SetFirstError(s) ==
  /\ ipc[s] = "setting"
  /\ firstError' = s
  /\ ipc' = [ipc EXCEPT ![s] = "ignoring"]
  /\ UNCHANGED <<inputFiles, failed, produced, exception, mpc, fileIndex>>

\* The slot of a file that cannot be used gets an IgnoredFile.
StoreIgnored(s) ==
  /\ ipc[s] = "ignoring"
  /\ inputFiles' = [inputFiles EXCEPT ![s] = "Ignored"]
  /\ ipc' = [ipc EXCEPT ![s] = "done"]
  /\ UNCHANGED <<firstError, failed, produced, exception, mpc, fileIndex>>

\* The build produces another of its files, and writes its path to the fifo.
Produce ==
  /\ \E s \in Slots \ produced : produced' = produced \cup {s}
  /\ UNCHANGED <<inputFiles, ipc, firstError, failed, exception, mpc, fileIndex>>

-----------------------------------------------------------------------------
(***************************************************************************)
(* The main thread.                                                        *)
(***************************************************************************)

\* Mutant of ApplyReturns: the constructor forgets firstError.
ForgetFirstError ==
  /\ mpc = "applying"
  /\ \A s \in Slots : ipc[s] = "done"
  /\ mpc' = "locking"
  /\ UNCHANGED <<inputFiles, ipc, firstError, failed, produced, exception,
                 fileIndex>>

\* dispatch_apply returns when every iteration has; then the constructor throws
\* firstError, or returns and the resolver begins.
ApplyReturns ==
  /\ mpc = "applying"
  /\ \A s \in Slots : ipc[s] = "done"
  /\ mpc' = IF firstError = None THEN "locking" ELSE "failed"
  /\ UNCHANGED <<inputFiles, ipc, firstError, failed, produced, exception,
                 fileIndex>>

\* forEachInitialAtom takes the next file.  Were its slot NULL, it would read
\* counters this branch leaves uninitialized and wait for a signal that no
\* thread sends.
MainTake ==
  /\ mpc = "locking"
  /\ fileIndex < NumFiles
  /\ ~exception
  /\ mpc' = IF inputFiles[fileIndex] = "NULL" THEN "stuck" ELSE "consuming"
  /\ UNCHANGED <<inputFiles, ipc, firstError, failed, produced, exception,
                 fileIndex>>

\* Mutant of MainConsume: no fileIndex++.
ConsumeAgain ==
  /\ mpc = "consuming"
  /\ mpc' = "locking"
  /\ UNCHANGED <<inputFiles, ipc, firstError, failed, produced, exception,
                 fileIndex>>

\* file->forEachAtom(handler); a parsed file may throw there, which is stored
\* in _exception.
MainConsume ==
  /\ mpc = "consuming"
  /\ \/ UNCHANGED exception
     \/ inputFiles[fileIndex] = "File" /\ exception' = TRUE
  /\ fileIndex' = fileIndex + 1
  /\ mpc' = "locking"
  /\ UNCHANGED <<inputFiles, ipc, firstError, failed, produced>>

\* _exception is thrown before the next file is taken, or after the last one.
MainThrow ==
  /\ mpc = "locking"
  /\ exception
  /\ mpc' = "failed"
  /\ UNCHANGED <<inputFiles, ipc, firstError, failed, produced, exception,
                 fileIndex>>

MainFinish ==
  /\ mpc = "locking"
  /\ fileIndex = NumFiles
  /\ ~exception
  /\ mpc' = "done"
  /\ UNCHANGED <<inputFiles, ipc, firstError, failed, produced, exception,
                 fileIndex>>

-----------------------------------------------------------------------------

Iteration(s) ==
  \/ Begin(s)
  \/ \E file \in {"File", "Ignored"} : Store(s, file)
  \/ TestFirstError(s) \/ SetFirstError(s) \/ StoreIgnored(s)

MainStep == ApplyReturns \/ MainTake \/ MainConsume \/ MainThrow \/ MainFinish

Terminated == mpc \in {"done", "failed"} /\ UNCHANGED vars

Next == (\E s \in Slots : Iteration(s)) \/ Produce \/ MainStep \/ Terminated

Safety == Init /\ [][Next]_vars

\* dispatch_apply runs every iteration, and the main thread keeps running.
Fairness == (\A s \in Slots : WF_vars(Iteration(s))) /\ WF_vars(MainStep)

Spec == Safety /\ Fairness

-----------------------------------------------------------------------------
(***************************************************************************)
(* Properties.                                                             *)
(***************************************************************************)

\* The type of what the iterations and the main thread share.
TypeOK ==
  /\ inputFiles \in [Slots -> {"NULL", "File", "Ignored"}]
  /\ ipc \in [Slots -> {"queued", "parsing", "setting", "ignoring", "done"}]
  /\ firstError \in Slots \cup {None}
  /\ failed \subseteq Slots
  /\ produced \subseteq Slots
  /\ exception \in BOOLEAN
  /\ mpc \in {"applying", "locking", "consuming", "stuck", "done", "failed"}
  /\ fileIndex \in 0 .. NumFiles

\* A failed parse is never lost, although the iterations test and set
\* firstError without a lock: once dispatch_apply returns, the link goes on
\* only if no file failed, and the message thrown is that of a file that did.
ErrorReported ==
  /\ mpc \notin {"applying", "failed"} => failed = {}
  /\ firstError # None => firstError \in failed
  /\ mpc = "failed" => firstError # None \/ exception

\* Every link ends: the resolver consumes all files or an error is thrown.
MainEnds == <>(mpc \in {"done", "failed"})

Order == INSTANCE InputOrder WITH
  parsed   <- {s \in Slots : inputFiles[s] # "NULL"},
  consumed <- IF mpc = "consuming" THEN fileIndex + 1 ELSE fileIndex,
  outcome  <- IF mpc \in {"done", "failed"} THEN mpc ELSE "running"

\* This branch too implements what InputFiles promises the resolver: files
\* reach it in command-line order, each once, and after a failure none does.
ImplementsInputOrder == Order!Spec

=============================================================================
