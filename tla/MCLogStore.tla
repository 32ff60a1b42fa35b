------------------------------- MODULE MCLogStore -------------------------------
(* TLC instance of LogStore.                                                  *)
EXTENDS LogStore

\* A script starts at 3: two lines of one instant at the end of the window, an
\* older error at its start, an error after it and another service's.  The
\* keyword picks an error and a warning.
Line(service, level, age, matches) ==
    [service |-> service, level |-> level, age |-> age, matches |-> matches]

MCCorpus == {Line("auth-service", "ERROR", 2, {"timeout"}),
             Line("auth-service", "WARN", 1, {"timeout"}),
             Line("auth-service", "ERROR", 1, {}),
             Line("auth-service", "ERROR", 0, {}),
             Line("payment-api", "ERROR", 1, {"timeout"})}

MCAlert == [service |-> "auth-service", window_start |-> 1, window_end |-> 2]
================================================================================
