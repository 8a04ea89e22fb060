SPECIFICATION Spec
CONSTANT Units <- RelaxUnits
INVARIANTS BytesFillTheFrags BranchesReach AlignmentKept OrgReached
PROPERTY LayoutEnds
