SPECIFICATION Spec
CONSTANTS
    Alpha = Alpha
    Beta = Beta
    Urls <- MCUrls
    Mgmts <- MCFewMgmts
    Unparsable = Unparsable
    None = None
    MaxApis = 2
    Patience = 2
    MaxChanges = 2
INVARIANT NoEndpointTwice
