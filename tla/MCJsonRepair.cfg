\* Replies of eight tokens; a reply that is as long as that, or cut inside a key, ends.
CONSTANT MaxLength = 8
SPECIFICATION Spec
INVARIANTS RepairInv CompleteIsReturned KeepsWhatCame CutIsRepaired
CHECK_DEADLOCK FALSE
