CONSTANTS
    Absent = Absent
    Bad = Bad
    Chains <- MCChains
    Requests <- MCRequests
    Stores <- MCStores
    OpaDenials <- MCOpaDenials
SPECIFICATION Spec
INVARIANT IdentityIsProven
INVARIANT VerdictsHeeded
INVARIANT HiddenStaysHidden
INVARIANT RequestFramed
INVARIANT ClientCanRead
INVARIANT FailureIsVisible
