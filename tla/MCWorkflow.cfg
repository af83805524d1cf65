\* Four steps, three and two parallel ones, a nested workflow; two threads.
SPECIFICATION Spec
CONSTANTS
    main = main
    inner = inner
    none = none
    first = first
    fan = fan
    left = left
    middle = middle
    right = right
    nested = nested
    pair = pair
    one = one
    other = other
    after = after
    last = last
    Steps <- MCSteps
    Flows <- MCFlows
    Main = main
    None = none
    StepsOf <- MCStepsOf
    ParallelOf <- MCParallelOf
    SubOf <- MCSubOf
    Workers = 2
INVARIANTS
    StepsDontOverlap
    ResultsAreWhole
PROPERTIES
    StopsAtFailure
    NothingIsRepeated
