CONSTANTS
    Ids = {i1, i2, i3}
    Prices = {1, 2}
    Quantities = {0, 1, 2}
    MaxOrders = 4
SPECIFICATION FairSpec
INVARIANTS TypeOK IndexAgrees ArrivalOrder UncrossedBetweenCalls AggressorIsIncoming QuantityConserved
PROPERTY ImplementsPriceTime
CHECK_DEADLOCK FALSE
