CONSTANTS
    NoSub = NoSub
    NoExt = NoExt
    Erased = Erased
    Mails = {a, b}
    Subs = {s1, s2}
    Exts = {x}
    Handlers = {h1, h2}
    MaxRev = 4
    Requests = 3
SPECIFICATION Spec
SYMMETRY Symmetry
CHECK_DEADLOCK FALSE
INVARIANT ReportIsTrue
