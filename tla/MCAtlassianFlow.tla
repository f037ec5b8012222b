--------------------------- MODULE MCAtlassianFlow ---------------------------
(* The shape of manifests/atlassian_mvp.yaml: a page reader with a safe alias, *)
(* an issue writer with an argument rule, and a composite tool that is not     *)
(* listed.                                                                     *)
EXTENDS AtlassianFlow

MCTools == {"confluence_get_page", "jira_create_issue", "jira_delete_issue"}
MCAllowed == {"confluence_get_page", "jira_create_issue"}
MCWriters == {"jira_create_issue", "jira_delete_issue"}
MCIssue == {"jira_create_issue"}
MCPage == {"confluence_get_page"}

RawRule == [label |-> "confluence_raw", denyFor |-> MCIssue]
SummaryRule == [label |-> "confluence_summary", denyFor |-> MCIssue]

(* The shipped manifest has only the first; the second lets labels matter. *)
BothRules == {RawRule, SummaryRule}
ShippedRules == {RawRule}
=============================================================================
