------------------------------- MODULE MCFacts -------------------------------
(* Facts for TLC: blank is the empty document, large is too large to be taken. *)
EXTENDS Facts, TLC

CONSTANTS blank, doc, large, h1, h2

MCContent == [d \in Docs |-> d]
MCVerdict == [d \in Docs |-> IF d = large THEN "unsaid" ELSE "ok"]

Load(f) == f @@ [op \in Console \cup {"exchange"} |-> 0]

MCWorkloads ==
    {Load("exchange" :> 1),
     Load("import" :> 1 @@ "catalog" :> 2),
     Load("delete_source" :> 1 @@ "catalog" :> 2),
     Load("delete_host_source" :> 1 @@ "catalog" :> 2),
     Load("delete_hosts" :> 1 @@ "import" :> 1),
     Load("delete_hosts" :> 1 @@ "catalog" :> 2)}
\* The keys of a row may match one host, narrow two down to one, or match both
\* while both exist; a row may be left out.
Row(keys, d) == [keys |-> keys, skip |-> FALSE, doc |-> d]
Both         == Row({Hosts}, doc)

MCFiles ==
    {<<Row({{h1}}, d)>> : d \in {doc, blank}}
      \cup {<<Row({{h1}, Hosts}, blank), Row({{h2}}, doc)>>}
      \cup {<<Both>>, <<Both, Row({{h1}}, blank)>>}
      \cup {<<Row({{h2}}, doc), [Row({{h1}}, blank) EXCEPT !.skip = TRUE]>>}
===============================================================================
