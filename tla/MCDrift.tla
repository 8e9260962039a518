------------------------------ MODULE MCDrift ------------------------------
(* Two checks: one with every outcome and a family id's two verdicts in    *)
(* either order, the other passing, failing or absent.                     *)
EXTENDS Drift

MCIds == {"a", "b"}
MCSeverities == {"", "minor", "major"}
MCVersions == {"1", "2"}

Of(id, status, severity) == [id |-> id, status |-> status, severity |-> severity]

AVerdicts ==
  {<< >>} \cup {<<Of("a", st, "")>> : st \in {"pass", "warn", "skip", "info"}}
  \cup {<<Of("a", "fail", sev)>> : sev \in {"minor", "major"}}
  \cup {<<Of("a", "pass", ""), Of("a", "fail", "minor")>>,
        <<Of("a", "fail", "minor"), Of("a", "pass", "")>>}
BVerdicts == {<< >>, <<Of("b", "pass", "")>>, <<Of("b", "fail", "major")>>}

About(verdicts, score, rubric) ==
  [verdicts |-> verdicts, score |-> score, rubric |-> rubric,
   checkInventory |-> "1"]

MCStatements ==
  {About(a \o b, 80, "1") : a \in AVerdicts, b \in BVerdicts}
  \cup {About(<<Of("a", "pass", "")>>, NoScore, "1"),
        About(<<Of("a", "pass", "")>>, 60, "1"),
        About(<<Of("a", "fail", "minor")>>, 60, "2")}
=============================================================================
