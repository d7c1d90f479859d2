SPECIFICATION Spec
CONSTANTS
    Alpha = Alpha
    Beta = Beta
    Urls <- MCUrls
    Mgmts <- MCMgmts
    Unparsable = Unparsable
    None = None
    MaxApis = 2
    Patience = 2
    MaxChanges = 2
INVARIANTS TypeOK EndpointsComplete NoGiveUp
PROPERTY Admitted
