CONSTANTS
    Threads = {t1, t2}
    NoThread = NoThread
    Original = Original
    h1 = h1
    h2 = h2
    h3 = h3
    i1 = i1
    e1 = e1
    m1 = m1
    m2 = m2
    o1 = o1
    Hooks <- MCHooks
    Imports = {i1}
    Exports = {e1}
    Methods = {m1, m2}
    Objects = {o1}
    Wants <- MCWants
    Far = {h1}
    MaxQueue = 2
    Faults = {"alloc", "protect"}
SPECIFICATION Spec
SYMMETRY MCSymmetry
INVARIANTS
    OneOwnerPerSlot
    ResolvedAddressesWork
    ClonesAreSafe
