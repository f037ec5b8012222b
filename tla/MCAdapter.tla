------------------------------ MODULE MCAdapter ------------------------------
(* Two overlapping requests, two tools and one name that only rows give: tools *)
(* that are renamed, constrained, hidden, translated or left to the default.   *)
EXTENDS Adapter

Row(tool, exposed, decision, call, constraints) ==
  [key |-> "missing", tool |-> tool, exposed |-> exposed, decision |-> decision,
   call |-> call, constraints |-> constraints]

Raw(default, rows) == [version |-> 1, default |-> default, rows |-> rows]

Renaming == Raw("allow", <<Row("read", "safe_read", "allow", "from", {"within"}),
                           Row("write", "write", "simulate", "none", {})>>)
Hiding == Raw("allow", <<Row("read", "read", "allow", "template", {"within"}),
                         Row("write", "safe_read", "absent", "none", {})>>)
Closed == Raw("absent", <<[Row("read", "read", "allow", "nested", {}) EXCEPT !.key = "other"],
                          Row("write", "safe_read", "allow", "const", {"no array"})>>)

MCManifests == {Renaming, Hiding, Closed, Raw("bogus", << >>)}
=============================================================================
