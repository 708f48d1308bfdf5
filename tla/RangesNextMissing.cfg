SPECIFICATION Spec
CONSTANT Limit = 4
INVARIANT NextMissingPromised
