-------------------------- MODULE MCDocumentWrites --------------------------
(* A document with a title, an edit of it and a proposal to change it.     *)
(* Clients retry an edit under a key, accept or reject the proposal and    *)
(* deploy.                                                                 *)
EXTENDS DocumentWrites

CONSTANTS title, s1, key, edit, accept, reject, deploy, e1, e2, a1, j1, d1, earlier

MCEvent(kind, f, v, s) ==
    [kind |-> kind, field |-> f, value |-> v, suggestion |-> s, op |-> earlier, window |-> 0]
MCLog == <<MCEvent("edit", title, 0, NoSuggestion), MCEvent("propose", title, 2, s1)>>

MCOp(kind, f, v, s, k, b) ==
    [kind |-> kind, field |-> f, value |-> v, suggestion |-> s, key |-> k, based |-> b]
MCOps ==
    edit :> MCOp("edit", title, 1, NoSuggestion, key, TRUE)
    @@ accept :> MCOp("accept", NoField, NoValue, s1, NoKey, FALSE)
    @@ reject :> MCOp("reject", NoField, NoValue, s1, NoKey, FALSE)
    @@ deploy :> MCOp("deploy", NoField, NoValue, NoSuggestion, NoKey, FALSE)
MCOpOf == e1 :> edit @@ e2 :> edit @@ a1 :> accept @@ j1 :> reject @@ d1 :> deploy

(* No snapshot, a right one and a wrong one of an earlier version.         *)
MCSnapshot(folded) == [seq |-> 1, state |-> folded, receipt |-> FALSE]
MCSnapshots == {{}, {MCSnapshot(SubSeq(MCLog, 1, 1))}, {MCSnapshot(<<>>)}}

MCLoad(requests, readers, found) ==
    [requests |-> requests, readers |-> readers, snapshots |-> found]
MCWorkloads ==
    {MCLoad({e1, e2, a1}, {}, {}), MCLoad({j1, d1}, Readers, {})}
    \cup {MCLoad({a1, j1, d1}, {}, found) : found \in MCSnapshots}
MCRetries == {MCLoad({e1, e2}, {}, {})}
=============================================================================
