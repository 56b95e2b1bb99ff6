SPECIFICATION Spec
CONSTANTS
    Line = {l1, l2}
    Event = {a, b}
    QueueSize = 2
    MaxFrame = 3
INVARIANTS
    TypeOK
    HoldsFrame
    ConsumerInOrder
PROPERTY
    ImplementsFrameMerge
