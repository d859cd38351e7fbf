CONSTANTS
    s1 = s1
    s2 = s2
    n1 = n1
    n2 = n2
    o1 = o1
    o2 = o2
    SymbolId = {s1, s2}
    Name = {n1, n2}
    OrderId = {o1, o2}
SYMMETRY Symmetry
SPECIFICATION ListenerSpec
INVARIANTS
    TypeOK
    DirectoriesAgree
    ListenerKnowsBooks
PROPERTIES
    OnlyTheBookAskedFor
