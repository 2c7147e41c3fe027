SPECIFICATION Spec
INVARIANTS WiredForItsMode OneRedisIsEnough
CHECK_DEADLOCK FALSE
