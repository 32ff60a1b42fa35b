--------------------------- MODULE MCIncidentService ---------------------------
(* TLC instances of IncidentService.                                          *)
EXTENDS IncidentService

Alert(service, startsAt) ==
    [service |-> service, alertname |-> "HighErrorRate", startsAt |-> startsAt]

\* The demo's alert, a retry of it with padded labels that Alertmanager grouped
\* with another alert, that other alert alone, and two that do not normalize.
MCPayloads == {<<Alert("payment-api", "t1")>>,
               <<Alert(" payment-api ", "t1"), Alert("ledger-service", "t2")>>,
               <<Alert("ledger-service", "t2")>>,
               <<Alert(" ", "t1")>>,
               <<>>}

MCStrip == [text \in {"payment-api", " payment-api ", "ledger-service", " ", "",
                       "HighErrorRate", "t1", "t2"} |->
    CASE text = " payment-api " -> "payment-api"
      [] text = " " -> ""
      [] OTHER -> text]
================================================================================
