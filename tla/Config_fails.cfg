SPECIFICATION Spec
CONSTANT Elements = 2
INVARIANT SourcesDestroyedOnce
\* The configuration is destroyed.
CHECK_DEADLOCK FALSE
