CONSTANTS
    Nil = Nil
    a1 = a1
    a2 = a2
    Actor <- Actors
    MaxRetries = 1
    Costs = {2}
    KeyRecords <- SomeKeys
    Models = {"m1", "m2"}
    PolicyDocs <- SomeDocs
    Name <- AllNames
    SmartDocs <- SomeSmart
    EndpointSets <- NewList
    StaticConfigs <- SomeConfigs
    Fold <- Folded
    Scenes <- SharedPolicy
SPECIFICATION Spec
INVARIANT
    FallbackOfModel
