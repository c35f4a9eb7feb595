SPECIFICATION Spec
CONSTANT Elements = 5
INVARIANTS TypeOK NoSourceLeft WalkReturnsAll
\* The configuration is destroyed.
CHECK_DEADLOCK FALSE
