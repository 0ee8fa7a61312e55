CONSTANT Width = 6
SPECIFICATION Spec
INVARIANT AlignDownIsFloor
INVARIANT AlignUpIsCeiling
INVARIANT IsAlignedExact
