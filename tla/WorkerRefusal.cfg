\* One follow to accept: is the remote server's refusal final?
SPECIFICATION Spec
CONSTANTS
    Accepts = {t1}
    Rejects = {}
    Notes = {}
    MaxRetry = 5
    Concurrency = 1
INVARIANT
    RefusalIsFinal
