SPECIFICATION Spec
CONSTANTS
    w1 = w1
    w2 = w2
    w3 = w3
    r1 = r1
    fact = fact
    state = state
    NoRow = NoRow
    Writes = {w1, w2, w3, r1}
    Refreshes = {r1}
    Paths = {fact, state}
    PathOf <- MCPathOf
    Columns = {"content", "kind"}
    Contents = {"a", "b"}
    Value <- MCValue
    StoreMayFail = FALSE
INVARIANTS RowIsOneWrite
