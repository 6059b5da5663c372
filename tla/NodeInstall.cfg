SPECIFICATION Spec
CONSTANTS
    Tokens = {t1, t2}
    None = None
    Releases = 3
INVARIANT InstallRestarts
