----------------------------- MODULE MCDyldInfo -----------------------------
(***************************************************************************)
(* Images for the model of the compressed dyld information: pointers of    *)
(* eight bytes in segments that touch or do not touch each other.          *)
(***************************************************************************)
EXTENDS DyldInfo

Seg(s, e) == [start |-> s, end |-> e, vmend |-> e]
Rebase(a) == [type |-> 1, lib |-> 0, sym |-> 0, flags |-> 0, address |-> a, addend |-> 0]
Image(kind, segs, info) == [kind |-> kind, segs |-> segs, info |-> info]

\* Rebases at any set of the pointers of three segments, two of which touch.
Touching == <<Seg(16, 88), Seg(88, 116), Seg(160, 176)>>
Slots == {16, 24, 32, 48, 56, 64, 80, 88, 96, 108, 160}
RebaseImages == {Image("rebase", Touching, {Rebase(a) : a \in A}) : A \in SUBSET Slots \ {{}}}

\* Runs and gaps at the limit of the immediate encodings.
Long == <<Seg(200, 600)>>
Run(from, n) == {Rebase(from + 8 * k) : k \in 0..(n - 1)}
LongImages == {Image("rebase", Long, Run(200, n) \cup Run(200 + 8 * (n + g), m)) :
                 n \in {1, 2, 14, 15, 16}, g \in {1, 14, 15, 16}, m \in {1, 3}}

\* Binds to three symbols of three libraries, one with an addend and one weak
\* imported by some of its references, in segments that do not touch.
Apart == <<Seg(16, 72), Seg(80, 96), Seg(112, 128)>>
BindSlots == {16, 32, 48, 56, 80}
Bind(lib, sym, flags, addend) ==
  [type |-> 1, lib |-> lib, sym |-> sym, flags |-> flags, addend |-> addend]
Strong == Bind(1, 2, 0, 4)
Weak == Bind(1, 2, 1, 4)
Binds == {Bind(-2, 1, 0, 0), Strong, Weak, Bind(16, 3, 1, 0)}
At(b, a) == [type |-> b.type, lib |-> b.lib, sym |-> b.sym, flags |-> b.flags, address |-> a,
             addend |-> b.addend]
BindInfo(A, B) == {{At(f[a], a) : a \in A} : f \in [A -> B]}
BindImages ==
  {Image("bind", Apart, i) : i \in UNION {BindInfo(A, Binds) : A \in SUBSET BindSlots \ {{}}}}

\* Binds at any pointers of segments that touch.
TouchingBinds == {Image("bind", Touching, {At(b, a) : a \in A}) :
                    A \in {{64, 80, 88}, {80, 88}}, b \in Binds}

Images == RebaseImages \cup LongImages \cup BindImages
=============================================================================
