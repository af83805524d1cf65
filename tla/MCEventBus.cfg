\* Two handlers, one event name and the wildcard, publishes nested twice.
SPECIFICATION FairSpec
CONSTANTS
    monitor = monitor
    counter = counter
    received = received
    all = all
    Handlers <- MCHandlers
    Events <- MCEvents
    Wildcard = all
    MaxDepth = 2
PROPERTIES
    ImplementsDelivery
    PublishesReturn
