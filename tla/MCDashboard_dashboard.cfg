\* Two Dashboards with one page each, one other reader, two files that refer to each other.
SPECIFICATION Spec
CONSTANTS
    Pages = {a, b}
    Readers = {r}
    None = None
    Files = {"flow", "prompt"}
    First = "flow"
    Contents = {0, 1, 2}
    Typed = {0, 1}
    ByHand = {2}
    Consistent <- Matching
    MaxEvents = 2
SYMMETRY Symmetric
PROPERTIES
    NoEditIsLost
    OneValidTree
