\* queue_ul.
CONSTANTS
    Cells = {c1, c2, c3, c4, c5}
    Elements = {a, b, c}
    NULL = NULL
    Kinds = {{"pop first", "move_back"}}
SPECIFICATION Spec
PROPERTIES
    MovesToTheBack
SYMMETRY Symmetry
CHECK_DEADLOCK FALSE
