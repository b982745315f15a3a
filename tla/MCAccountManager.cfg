CONSTANTS
    Accounts = {a1, a2}
    Amounts = {0, 1, 3}
    Opening = 2
    MaxBalance = 6
    MaxHistory = 3
SYMMETRY Symmetry
SPECIFICATION Spec
INVARIANTS IInv RollbackAlwaysWorks NeverOverdrawn
PROPERTY RollbackRestores
