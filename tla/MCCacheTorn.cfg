CONSTANTS
    first = first
    second = second
    s1 = s1
    p = p
    q = q
    w = w
    Jobs = {first, second}
    Sups = {s1}
    Payloads = {p, q}
    Bundles = {w}
    PayloadOf <- MCPayloadOf
    BundleOf <- MCBundleOf
    Host <- MCHost
    Cap = 2
    Old = Old
    None = None
SPECIFICATION Spec
CHECK_DEADLOCK FALSE
PROPERTY
    HitsAreWhole
