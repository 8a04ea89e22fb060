----------------------------- MODULE InputOrder -----------------------------
(***************************************************************************)
(* What InputFiles promises the resolver about the files of the command    *)
(* line, however many threads parse them: each is parsed at most once, the *)
(* resolver is handed each one exactly once, in command-line order and     *)
(* only after it is parsed, and a link that fails hands over no more.      *)
(***************************************************************************)
EXTENDS Naturals

CONSTANT NumFiles    \* files on the command line

Slots == 0 .. NumFiles - 1

VARIABLES
  parsed,      \* slots whose file is parsed
  consumed,    \* how many files the resolver was handed
  outcome      \* "running", "done" or "failed"

vars == <<parsed, consumed, outcome>>

Init == parsed = {} /\ consumed = 0 /\ outcome = "running"

Parse(s) ==
  /\ s \notin parsed
  /\ parsed' = parsed \cup {s}
  /\ UNCHANGED <<consumed, outcome>>

Consume ==
  /\ outcome = "running"
  /\ consumed \in parsed
  /\ consumed' = consumed + 1
  /\ UNCHANGED <<parsed, outcome>>

Finish ==
  /\ outcome = "running"
  /\ consumed = NumFiles
  /\ outcome' = "done"
  /\ UNCHANGED <<parsed, consumed>>

Fail ==
  /\ outcome = "running"
  /\ outcome' = "failed"
  /\ UNCHANGED <<parsed, consumed>>

Next == (\E s \in Slots : Parse(s)) \/ Consume \/ Finish \/ Fail

Spec == Init /\ [][Next]_vars

=============================================================================
