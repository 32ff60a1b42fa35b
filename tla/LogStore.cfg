SPECIFICATION Spec
CONSTANTS
    Corpus <- MCCorpus
    Alert <- MCAlert
    Incidents = {inc1, inc2}
    Runbooks = {rb1}
    Models = {m1, m2}
    NoModel = NoModel
    Null = Null
    Zero = Zero
    Scripts = {p1, p2}
    log_search_limit = 2
    vector_search_limit = 1
    Keywords = {"timeout"}
    NoKeyword = "none"
    Limits = {0, 4}
    Clock = {3}
    MaxStarts = 3
INVARIANTS TypeOK WholeLoads AnswersAgree VectorsFound DeadlocksAreSeedings
PROPERTIES ScriptsEnd
CHECK_DEADLOCK FALSE
