SPECIFICATION Spec
CONSTANTS
    MaxRows = 4
    MaxFaults = 2
INVARIANTS
    OneOccurrence
    CancelOfLiveIsFinal
    SeriesIsKept
\* once MaxRows occurrences have been inserted there is nothing left to do
CHECK_DEADLOCK FALSE
