\* The odd-even algorithm on a mesh.
CONSTANT Cases <- OddEvenCases
SPECIFICATION Spec
CHECK_DEADLOCK FALSE
INVARIANT SomeOutput
