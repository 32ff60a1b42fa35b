----------------------------- MODULE MCLiveToolLoop -----------------------------
(* TLC instance of LiveToolLoop: three services with a fork and a chain, so a *)
(* target is reached directly and through another.                            *)
EXTENDS LiveToolLoop

MCServices == <<"payment-api", "auth-service", "postgres-main">>

MCDependencies == <<[source |-> "payment-api", target |-> "auth-service"],
                    [source |-> "payment-api", target |-> "postgres-main"],
                    [source |-> "auth-service", target |-> "postgres-main"]>>

MCNames == {"payment-api", "auth-service", "postgres-main"}
================================================================================
