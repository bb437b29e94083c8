---------------------------- MODULE MCAuditReports ----------------------------
(* Small instances of AuditReports. *)
EXTENDS AuditReports, TLC

\* Ids are compared and nothing else.
Symmetry == Permutations(PotentialFindings) \cup Permutations(Versions)
              \cup Permutations(Reports) \cup Permutations(Transactions)
              \cup Permutations(Responses)
=============================================================================
