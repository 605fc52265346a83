SPECIFICATION Spec
CONSTANTS
    IRQ = {1, 2, 12}
    Nesting = {12}
    MaxNest = 3
    KeyBufSize = 3
    RingSize = 2
    QueueSize = 2
    MaxInputs = 3
INVARIANTS CheckCoherent ServiceIsStack ExactlyOnce RightStrokes KeyboardMoves MouseMoves ClicksPaired OneSubroutine
PROPERTIES PicSpec
\* With interrupts disabled and every input used, nothing is left to happen.
CHECK_DEADLOCK FALSE
