CONSTANTS
    Width = 4
    MaxHeaders = 3
SPECIFICATION Spec
INVARIANT PageMatchesRequest
