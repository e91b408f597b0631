\* Two threads, every wrapper, two versions of the file.
CONSTANTS
    t1 = t1
    t2 = t2
    Thread = {t1, t2}
    Wrappers = {"python", "javascript", "go", "rust"}
    MaxVersions = 2
    Stamp <- MCStamp
SPECIFICATION Spec
SYMMETRY Symmetry
INVARIANTS
    TypeOK
    FreshAnswers
    NeverGoesBack
    FirstIndexStays
