CONSTANTS
    Command = {c1, c2}
    Id = {demo, web}
    Provider = {p1}
    DefaultProvider = p1
    DemoId = demo
    Kinds = {"up -f"}
    NamedByFile = TRUE
    Fallible = {}
    NoCommand = NoCommand
    NoProvider = NoProvider
SPECIFICATION Spec
INVARIANT OneUp
