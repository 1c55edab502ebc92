----------------------------- MODULE MCDocuments -----------------------------
(* A work item that is a pinned review subject, its review case, a demand,  *)
(* all three AI drafts, and a sample project; a seller who has the work     *)
(* item and is also another case's reviewer, the assigned reviewer, a buyer *)
(* and an administrator.                                                    *)
EXTENDS Documents, TLC

CONSTANTS wi, rc, dem, sp, sel, rev, buy, adm, s1, s2

MCDocs == {wi, rc, dem, sp}
MCType == wi :> "work" @@ rc :> "review" @@ dem :> "demand" @@ sp :> "sample"
At(status, review) == [status |-> status, review |-> review, revision |-> 1]
MCStart == wi :> At("Open", "AI Draft") @@ rc :> At("Pending", "AI Draft")
           @@ dem :> At("Confirmed", "AI Draft") @@ sp :> At("Sent", "Pending")
MCSubject == rc :> wi
MCPinned == rc :> 1
MCAssigned == rc :> rev @@ wi :> sel
MCRoles == sel :> {"SalesUser", "Reviewer"} @@ rev :> {"Reviewer", "SalesUser"}
           @@ buy :> {"Buyer"} @@ adm :> {"Admin"}

Req(key, actor, op, doc, expected, to) ==
    [key |-> key, actor |-> actor, op |-> op, doc |-> doc, expected |-> expected,
     to |-> to, review |-> None]
Form(actor, doc, expected, to, review) ==
    [Req(None, actor, "save", doc, expected, to) EXCEPT !.review = review]

MCRequests == {
    Req("a", sel, "transition", wi, 1, "In Progress"),
    Req("b", rev, "transition", wi, 1, "Blocked"),
    Req("c", adm, "transition", wi, 1, "Confirmed"),
    Req("d", buy, "source", dem, 1, None),
    Req("e", adm, "source", dem, 1, None),
    Req("f", sel, "feedback", sp, 1, None),
    Req("f", sel, "project", None, 0, None),
    Req("h", rev, "decide", rc, 2, "Approved"),
    Req("i", adm, "decide", rc, 2, "Rejected"),
    Req("j", sel, "decide", rc, 2, "Rejected"),
    Req("i", adm, "decide", rc, 2, "Superseded"),
    Req("k", rev, "submit", rc, 1, None),
    Req("l", sel, "submit", wi, 1, None),
    Form(sel, dem, 1, "Cancelled", "Approved"),
    Form(adm, wi, 1, "Open", "Pending"),
    Form(sel, wi, 2, "Open", "AI Draft"),
    Form(adm, rc, 1, "Pending", "AI Draft"),
    Form(adm, rc, 2, "Superseded", "Superseded")}

SessionsAlike == Permutations(Sessions)
=============================================================================
