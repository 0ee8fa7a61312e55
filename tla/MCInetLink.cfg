\* Two iplink services appearing before, during and after the initial scan,
\* with every loc, iplink and address call able to fail.
CONSTANTS
    Services = {s1, s2}
    Failures = TRUE
    DgramSizes = {3}
    FragPayload = 2
SPECIFICATION Spec
INVARIANT NoDuplicateLinks
INVARIANT LookupNotConfiguring
INVARIANT LoopbackOnFirstLink
PROPERTY EveryServiceTried
