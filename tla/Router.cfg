\* Three sources under one label, two operations.
CONSTANTS
    n1 = n1
    n2 = n2
    n3 = n3
    Names = {n1, n2, n3}
    Labels = {"users"}
    Ops = {"get", "list"}
    RobinCycle = 6
    MaxWindow = 5
SPECIFICATION Spec
INVARIANTS TypeOK LabelIndex SelectableSources FairShare
SYMMETRY Symmetry
