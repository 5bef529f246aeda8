CONSTANTS
    Command = {c1, c2, c3}
    Id = {demo}
    Provider = {p1}
    DefaultProvider = p1
    DemoId = demo
    Kinds = {"up", "up -f", "down"}
    NamedByFile = FALSE
    Fallible = {c3}
    NoCommand = NoCommand
    NoProvider = NoProvider
SPECIFICATION Spec
SYMMETRY Symmetry
INVARIANTS TypeOK OneUp Journaled
PROPERTIES CloseWhenEmpty TombstoneWhenEmpty
