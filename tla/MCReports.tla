------------------------------ MODULE MCReports ------------------------------
(* Values for Reports: two short histories over three addresses and two     *)
(* tokens, one with transfers to oneself, one with an amount of zero.      *)
EXTENDS Reports

Transfer(from, to, token, value, anomaly, imported) ==
  [from |-> from, to |-> to, token |-> token, value |-> value, anomaly |-> anomaly,
   imported |-> imported]

SmallHistories == {
  <<Transfer("a", "b", "msq", 2, FALSE, FALSE), Transfer("b", "c", "kwt", 0, TRUE, FALSE)>>,
  <<Transfer("a", "a", "msq", 1, FALSE, TRUE), Transfer("b", "a", "kwt", 3, TRUE, FALSE),
    Transfer("b", "b", "msq", 3, FALSE, FALSE)>>}

AllEndpoints == {r.of : r \in Requests}
=============================================================================
