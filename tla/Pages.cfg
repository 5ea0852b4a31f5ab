\* Two of everything that can be selected, two requests at a time.
SPECIFICATION Spec
CONSTANTS
    Nothing = Nothing
    Items = {a, b}
    MaxCalls = 2
    MaxFaults = 1
    Questions = 2
    MaxOrders = 2
INVARIANTS PlaceholdersAreTrue ShownIsAsked StoredIsShown OrderIsTrue 
PROPERTY PagesSettle
