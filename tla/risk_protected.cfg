SPECIFICATION FindingSpec
CONSTANT MaxWords = 4
INVARIANT ProtectedIsNotApplied
