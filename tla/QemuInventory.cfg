CONSTANTS
    Ids <- MCIds
    UuidOf <- MCUuidOf
    NumberOf <- MCNumberOf
    PathOf <- MCPathOf
    Outside <- MCOutside
    Machines <- MCMachines
    Wanted <- MCWanted
SPECIFICATION Spec
INVARIANTS
    FoundUnderItsId
    MachineKept
CHECK_DEADLOCK FALSE
