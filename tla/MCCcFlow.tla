------------------------------ MODULE MCCcFlow ------------------------------
(* TLC instances of CcFlow: quotas for the kinds of statements. *)
EXTENDS CcFlow

MCQuota == [k \in Kinds |->
    CASE k = "case" -> 3
      [] k \in {"block", "if", "expr"} -> 2
      [] OTHER -> 1]
=============================================================================
