CONSTANTS
    Command = {c1, c2}
    Id = {demo, web}
    Provider = {p1}
    DefaultProvider = p1
    DemoId = demo
    Kinds = {"up -f", "reap"}
    NamedByFile = FALSE
    Fallible = {}
    NoCommand = NoCommand
    NoProvider = NoProvider
SPECIFICATION Spec
SYMMETRY Symmetry
INVARIANT NeverStuck
PROPERTY OwnersOnly
