\* All dates of birth of those who are fifteen to forty-five this year.
SPECIFICATION Spec
INVARIANT EveryAgeGroupIsFound
CHECK_DEADLOCK FALSE
