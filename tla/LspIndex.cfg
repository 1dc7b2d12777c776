SPECIFICATION Spec
CONSTANTS
    Uris = {u1, u2}
    Texts = {a, b}
    None = None
SYMMETRY MCSymmetry
INVARIANT IndexBorrowsLiveParse
