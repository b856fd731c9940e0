--------------------------- MODULE MCSkillRegistry ---------------------------
(* Packages, bounds and symmetry for SkillRegistry. *)
EXTENDS SkillRegistry, TLC

CONSTANTS n1, n2, s1, s2

MCNames == {n1, n2}
MCScripts == {s1, s2}

Base == [name |-> n1, valid |-> TRUE, malicious |-> FALSE, topical |-> TRUE, scripts |-> {s1, s2}]

\* A good package with two scripts, one off topic, one of another name and
\* without scripts, one that fails the scan, one that does not parse.
MCPackages ==
  {Base,
   [Base EXCEPT !.topical = FALSE, !.scripts = {s1}],
   [Base EXCEPT !.name = n2, !.scripts = {}],
   [Base EXCEPT !.malicious = TRUE],
   [Base EXCEPT !.valid = FALSE]}

Symmetry == Permutations(Uploads) \cup Permutations(Reviewers)
=============================================================================
