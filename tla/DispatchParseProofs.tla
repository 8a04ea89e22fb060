------------------------ MODULE DispatchParseProofs ------------------------
(***************************************************************************)
(* Proofs about the dispatch_apply branch of InputFiles, for any number of *)
(* files, any width and any set of files still to be produced: the type of *)
(* what the iterations share, that no failure of makeFile is lost although *)
(* firstError has no lock, that the resolver never waits for a signal that *)
(* nobody sends, and that the branch implements InputOrder.                *)
(***************************************************************************)
EXTENDS DispatchParse, TLAPS

\* What each iteration has done to its slot and to firstError.  A failed one
\* has tested firstError: it is about to set it, or it was set when it looked
\* or by itself, and nothing ever clears it.
Iterations ==
  \A s \in Slots :
    /\ ipc[s] = "done" <=> inputFiles[s] # "NULL"
    /\ s \in failed => ipc[s] \in {"setting", "ignoring", "done"}
    /\ ipc[s] \in {"setting", "ignoring"} => s \in failed
    /\ s \in failed /\ ipc[s] # "setting" => firstError # None

\* firstError carries the message of an iteration that failed.
Message == firstError # None => firstError \in failed

\* Where the constructor, and then the resolver's loop, can be.
MainThread ==
  /\ mpc # "applying" => \A s \in Slots : ipc[s] = "done"
  /\ mpc \notin {"applying", "failed"} => firstError = None
  /\ mpc = "failed" => firstError # None \/ exception
  /\ mpc = "consuming" => fileIndex < NumFiles
  /\ mpc # "stuck"

IInv == TypeOK /\ Iterations /\ Message /\ MainThread

-----------------------------------------------------------------------------

\* The start of the constructor establishes the invariant.
LEMMA InitInv == Init => IInv
<1> SUFFICES ASSUME Init PROVE IInv
  OBVIOUS
<1>1. TypeOK
  <2>1. fileIndex \in 0 .. NumFiles
    BY DispatchAssumption DEF Init
  <2>2. produced \subseteq Slots
    BY DEF Init
  <2> QED BY <2>1, <2>2 DEF Init, TypeOK
<1>2. Iterations /\ Message /\ MainThread
  BY DEF Init, Iterations, Message, MainThread
<1> QED BY <1>1, <1>2 DEF IInv

\* No index of a slot is the value that stands for "no error yet".
LEMMA SlotIsNotNone == \A s \in Slots : s \in Int /\ s # None
BY DispatchAssumption DEF Slots, None

\* Each step of an iteration keeps the invariant, whatever the other iterations
\* do between its test of firstError and its assignment.
LEMMA IterationInv ==
  ASSUME IInv, NEW s \in Slots, Iteration(s)
  PROVE  IInv'
<1> USE SlotIsNotNone DEF IInv
<1>1. CASE Begin(s)
  BY <1>1 DEF Begin, TypeOK, Iterations, Message, MainThread
<1>2. ASSUME NEW file \in {"File", "Ignored"}, Store(s, file) PROVE IInv'
  BY <1>2 DEF Store, TypeOK, Iterations, Message, MainThread
<1>3. CASE TestFirstError(s)
  BY <1>3 DEF TestFirstError, TypeOK, Iterations, Message, MainThread
<1>4. CASE SetFirstError(s)
  BY <1>4 DEF SetFirstError, TypeOK, Iterations, Message, MainThread
<1>5. CASE StoreIgnored(s)
  BY <1>5 DEF StoreIgnored, TypeOK, Iterations, Message, MainThread
<1> QED BY <1>1, <1>2, <1>3, <1>4, <1>5 DEF Iteration

\* So does a build that produces another file.
LEMMA ProduceInv ==
  ASSUME IInv, Produce
  PROVE  IInv'
BY DEF Produce, IInv, TypeOK, Iterations, Message, MainThread

\* Each step of the main thread keeps the invariant.
LEMMA MainStepInv ==
  ASSUME IInv, MainStep
  PROVE  IInv'
<1> USE DispatchAssumption DEF IInv
<1>1. CASE ApplyReturns
  BY <1>1 DEF ApplyReturns, TypeOK, Iterations, Message, MainThread
<1>2. CASE MainTake
  <2>1. fileIndex \in Slots
    BY <1>2 DEF MainTake, TypeOK, Slots
  <2>2. mpc' = "consuming"
    BY <1>2, <2>1 DEF MainTake, MainThread, Iterations
  <2> QED BY <1>2, <2>2 DEF MainTake, TypeOK, Iterations, Message, MainThread
<1>3. CASE MainConsume
  <2>1. fileIndex' \in 0 .. NumFiles
    BY <1>3 DEF MainConsume, MainThread, TypeOK
  <2>2. exception' \in BOOLEAN
    BY <1>3 DEF MainConsume, TypeOK
  <2> QED BY <1>3, <2>1, <2>2
          DEF MainConsume, TypeOK, Iterations, Message, MainThread
<1>4. CASE MainThrow
  BY <1>4 DEF MainThrow, TypeOK, Iterations, Message, MainThread
<1>5. CASE MainFinish
  BY <1>5 DEF MainFinish, TypeOK, Iterations, Message, MainThread
<1> QED BY <1>1, <1>2, <1>3, <1>4, <1>5 DEF MainStep

\* Every step keeps the invariant.
LEMMA NextInv == IInv /\ [Next]_vars => IInv'
<1> SUFFICES ASSUME IInv, [Next]_vars PROVE IInv'
  OBVIOUS
<1>1. CASE UNCHANGED vars
  BY <1>1 DEF vars, IInv, TypeOK, Iterations, Message, MainThread
<1> QED BY <1>1, IterationInv, ProduceInv, MainStepInv DEF Next, Terminated

\* IInv holds in every reachable state.
LEMMA Invariance == Safety => []IInv
BY InitInv, NextInv, PTL DEF Safety

\* What the iterations of dispatch_apply and the main thread share keeps its
\* type, fileIndex within the slots included.
THEOREM TypeCorrect == Safety => []TypeOK
<1>1. IInv => TypeOK
  BY DEF IInv
<1> QED BY <1>1, Invariance, PTL

\* The unlocked test and assignment of firstError lose no failure: a link goes
\* on past dispatch_apply only if every makeFile succeeded, and what it throws
\* otherwise is the message of a file that failed.
THEOREM ErrorsReported == Safety => []ErrorReported
<1>1. IInv => ErrorReported
  <2> SUFFICES ASSUME IInv PROVE ErrorReported
    OBVIOUS
  <2>1. mpc \notin {"applying", "failed"} => failed = {}
    BY DEF IInv, TypeOK, Iterations, MainThread
  <2> QED BY <2>1 DEF ErrorReported, IInv, Message, MainThread
<1> QED BY <1>1, Invariance, PTL

\* forEachInitialAtom never finds a slot empty, so it never waits on counters
\* and a condition variable that this branch does not serve.
THEOREM NeverStuck == Safety => [](mpc # "stuck")
<1>1. IInv => mpc # "stuck"
  BY DEF IInv, MainThread
<1> QED BY <1>1, Invariance, PTL

-----------------------------------------------------------------------------
(***************************************************************************)
(* The dispatch_apply branch implements InputOrder.                        *)
(***************************************************************************)

\* The initial states map to the initial states of InputOrder.
LEMMA OrderInit == Init => Order!Init
BY DEF Init, Order!Init

\* Filling the empty slot of an iteration that ends is the abstract Parse.
LEMMA OrderParse ==
  ASSUME IInv, NEW s \in Slots, NEW file \in {"File", "Ignored"},
         ipc[s] # "done",
         inputFiles' = [inputFiles EXCEPT ![s] = file],
         UNCHANGED <<mpc, fileIndex>>
  PROVE  Order!Next
<1>1. inputFiles[s] = "NULL"
  BY DEF IInv, Iterations
<1>2. {t \in Slots : inputFiles'[t] # "NULL"}
        = {t \in Slots : inputFiles[t] # "NULL"} \cup {s}
  BY <1>1 DEF IInv, TypeOK
<1>3. Order!Parse(s)
  BY <1>1, <1>2 DEF Order!Parse
<1> QED BY <1>3 DEF Order!Next, Order!Slots, Slots

\* Every step maps to one of InputOrder or to a stuttering step.
LEMMA OrderStep == IInv /\ [Next]_vars => [Order!Next]_(Order!vars)
<1> SUFFICES ASSUME IInv, [Next]_vars PROVE [Order!Next]_(Order!vars)
  OBVIOUS
<1> USE DispatchAssumption DEF Order!vars
<1>1. CASE UNCHANGED vars
  BY <1>1 DEF vars
<1>2. ASSUME NEW s \in Slots, Iteration(s) PROVE [Order!Next]_(Order!vars)
  <2>1. CASE \E file \in {"File", "Ignored"} : Store(s, file)
    BY <2>1, OrderParse DEF Store
  <2>2. CASE StoreIgnored(s)
    BY <2>2, OrderParse DEF StoreIgnored
  <2>3. CASE Begin(s) \/ TestFirstError(s) \/ SetFirstError(s)
    BY <2>3 DEF Begin, TestFirstError, SetFirstError
  <2> QED BY <1>2, <2>1, <2>2, <2>3 DEF Iteration
<1>3. CASE Produce
  BY <1>3 DEF Produce
<1>4. CASE MainStep
  <2>1. CASE ApplyReturns
    <3>1. CASE firstError = None
      BY <2>1, <3>1 DEF ApplyReturns
    <3>2. CASE firstError # None
      BY <2>1, <3>2 DEF ApplyReturns, Order!Fail, Order!Next
    <3> QED BY <3>1, <3>2
  <2>2. CASE MainTake
    <3>1. fileIndex \in Slots
      BY <2>2 DEF MainTake, IInv, TypeOK, Slots
    <3>2. mpc' = "consuming" /\ inputFiles[fileIndex] # "NULL"
      BY <2>2, <3>1 DEF MainTake, IInv, MainThread, Iterations
    <3>3. Order!Consume
      BY <2>2, <3>1, <3>2 DEF MainTake, Order!Consume
    <3> QED BY <3>3 DEF Order!Next
  <2>3. CASE MainConsume
    BY <2>3 DEF MainConsume
  <2>4. CASE MainThrow
    BY <2>4 DEF MainThrow, Order!Fail, Order!Next
  <2>5. CASE MainFinish
    BY <2>5 DEF MainFinish, Order!Finish, Order!Next
  <2> QED BY <1>4, <2>1, <2>2, <2>3, <2>4, <2>5 DEF MainStep
<1> QED BY <1>1, <1>2, <1>3, <1>4 DEF Next, Terminated

\* For any number of files and any width of dispatch_apply, files reach the
\* resolver in command-line order, once each, and none after a failure.
THEOREM Implements == Safety => ImplementsInputOrder
BY OrderInit, OrderStep, Invariance, PTL
   DEF Safety, ImplementsInputOrder, Order!Spec

=============================================================================
