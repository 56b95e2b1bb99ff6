SPECIFICATION Spec
CONSTANTS
    d1 = d1
    d2 = d2
    Device = {d1, d2}
    input_name <- MCInputName
    input_phys <- MCInputPhys
    input_node <- MCInputNode
    Name = {"p", "q"}
    Pipe = {1, 2, 3}
    MaxSinks = 2
    Filter = {11, 12, 13, 14, 15}
    Files <- MCFiles
    Profiles <- MCProfiles
    MaxLines = 4
    Missing = Missing
    None = None
INVARIANTS
    TypeOK
    RefsCounted
    SinksHeld
    FreedOnce
    LineMatchesProfile
