---------------------------- MODULE MCTampering ----------------------------
(* A statement and up to three edits of it.                                *)
EXTENDS Tampering, TLC

MCText == {"", " ", "alpha", " alpha ", "alpha/", "beta"}
MCTrim == [t \in MCText |-> CASE t = " alpha " -> "alpha"
                              [] t = " "       -> ""
                              [] OTHER         -> t]
MCSha256 == [d \in Descriptors |-> <<"sha256", d>>]
MCDecode == << >>

Check(id, status) == [id |-> id, phase |-> "auth", status |-> status]
MCVerdictLists ==
  {<< >>, <<Check("a1", "pass")>>,
   <<Check("a1", "pass"), Check("a1", "fail")>>,
   <<Check("a1", "pass"), Check("a1", "pass")>>,
   <<Check("", "fail"), Check("a1", "pass")>>,
   <<Check("a1", "pass"), Check("a2", "error")>>}
=============================================================================
