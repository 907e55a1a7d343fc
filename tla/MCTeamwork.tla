----------------------------- MODULE MCTeamwork -----------------------------
(***************************************************************************)
(* A document's drafts, change requests and agents, and the records of its *)
(* project, for TLC.  ann owns the document and runs the project, bea      *)
(* edits it and writes the drafts, cy reviews, bot is an agent of bea's.   *)
(* A behaviour is of one of eight kinds, chosen by Init:                   *)
(*   "drafts"   the whole life of a draft under fixed rules, beside a team *)
(*              that keeps editing;                                        *)
(*   "rules"    a request is open while its document's rules, roles and    *)
(*              owner change;                                              *)
(*   "agents"   bot proposes, repeats its calls and submits while the      *)
(*              project's managers change what agents may do;              *)
(*   "pages", "spaces", "issues", "copies", "reports"  the pages of lists, *)
(*              the members of spaces and public links, issues and labels, *)
(*              public copies, and history reports.                        *)
(***************************************************************************)
EXTENDS AgentProposals, TeamRecords, HistoryReports

CONSTANTS ann, bea, cy, bot, blk1, blk2,
          p1, p2, s1, s2, l1, l2, n1, n2, n3, n4, Scenes

VARIABLES scene, question

records == <<question, pages_vars, space_vars, issue_vars, report_vars>>
vars == <<requestVars, agentVars, records, scene>>

-----------------------------------------------------------------------------
(* Drafts, requests and agents.                                            *)

Rules(protect, required, mergers) ==
  [protect |-> protect, required |-> required, mergers |-> mergers]
MCPolicies == {Rules(FALSE, 0, "editors"), Rules(TRUE, 1, "editors"),
               Rules(TRUE, 2, "owners")}
MCprincipal_id == bot :> bea
MCTeamEdits == {<<blk1, 1>>}
MCDraftEdits == {<<blk1, 2>>, <<blk2, 2>>}
MCAgentEdits == {<<blk2, 2>>}
AgentPolicy(mode, person, open, daily) ==
  [enabled |-> TRUE, write_mode |-> mode, min_role |-> "editor", revision |-> 0,
   submit_requires_person |-> person, open_proposals |-> open,
   proposals_per_day |-> daily]
MCAgentPolicies == {AgentPolicy("change_request", FALSE, 1, 2),
                    AgentPolicy("draft", TRUE, 2, 1)}

\* A draft of bea's, sent in at revision 1 when the team version was still empty.
Sent == [NewDraft(bea, 0) EXCEPT !.revision = 1, !.submitted = TRUE, !.local[blk1] = 2,
                                 !.local[blk2] = 2]
Empties == [b \in Blocks |-> Empty]

CollaborationInit ==
  /\ owner = ann /\ rules = None /\ revision = 0 /\ last = None
  /\ granted = [p \in People |-> IF p = cy THEN "reviewer" ELSE "editor"]
  /\ reviews = <<>> /\ lapsed = {} /\ AgentInit
  /\ states = IF scene = "rules" THEN <<Empties, [Empties EXCEPT ![blk1] = 1]>>
              ELSE <<Empties>>
  /\ draft = [d \in Drafts |-> IF scene = "rules" /\ d = CHOOSE e \in Drafts : TRUE
                               THEN Sent ELSE None]
  /\ floor = IF scene = "drafts" THEN Rules(FALSE, 1, "editors") ELSE Rules(FALSE, 0, "editors")
  /\ changes = CASE scene = "drafts" -> MaxChanges
                 [] OTHER -> MaxChanges - 1
  /\ scene # "agents" => agentPolicy = AgentPolicy("draft", TRUE, 2, 1)

\* bea has one draft at a time, so only bot ever uses the second one.
Mine == CHOOSE d \in Drafts : TRUE

DraftsNext ==
  \/ TeamStep(ann)
  \/ DraftStep(bea, Mine)
  \/ (\E p \in People : RequestStep(p, Mine)) /\ Len(reviews') <= 1
RulesNext ==
  /\ \/ AccessStep(ann) /\ granted'[ann] = granted[ann] /\ owner' # cy
     \/ \E p \in People : RequestStep(p, Mine)
     \/ \E r \in Revisions(Mine), e \in DraftEdits : edit_draft(bea, Mine, r, e[1], e[2])
  /\ draft'[Mine].revision <= 2
\* Calls and request identifiers are interchangeable: the lower is used first.
LowerFirst ==
  /\ \A c \in Calls \ {1} : call[c] = None /\ call'[c] # None => call[c - 1] # None
  /\ \A c \in Calls, a \in Agents, id \in Requests \ {1} :
       call'[c] # None /\ call'[c].tool = "propose" /\ call'[c].request_id = id =>
         \/ receipt[a][id - 1] # None
         \/ \E b \in Calls : call[b] # None /\ call[b].tool = "propose" /\ call[b].request_id = id - 1
         \/ call[c] = call'[c]
\* bot's principal sends its drafts in, and ann decides about them as they are.
AgentsNext ==
  \/ AgentStep
  \/ ManageStep
  \/ /\ \E d \in Drafts :
          \/ \E r \in Revisions(d) : submit(bea, d, r)
          \/ \E keep \in Keepings(d) : merge(ann, d, latest_seq, draft[d].revision, keep, {})
          \/ close_request(ann, d, "declined")
          \/ close_request(bea, d, "withdrawn")
     /\ UNCHANGED <<reviews, agentVars>>

-----------------------------------------------------------------------------
(* The records of a project.                                               *)

Row(id, at, doc, kind, actor) ==
    [id |-> id, at |-> at, doc |-> doc, kind |-> kind, actor |-> actor]

\* times shared by several rows; edits of one person beside a merge, a kind of
\* row that does not fold, a second document
MCUniverse ==
    {Row(1, 1, 1, 1, 1), Row(2, 3, 1, 1, 1), Row(3, 3, 1, 1, 1),
     Row(4, 3, 1, 2, 1), Row(5, 6, 1, 3, 2), Row(6, 6, 2, 1, 1)}

MCSpans == <<1, 3>>

MCauthor_of == [d \in Docs |-> p2]
MCaccess_of == [x \in Docs \X Persons |-> IF x[2] = p2 THEN "author" ELSE Unset]

Ask(t, s, l, a) == [text |-> t, state |-> s, labels |-> l, assignee |-> a]

MCInputs ==
    {Ask("b", Keep, Keep, Keep), Ask("c", "closed", Keep, p2),
     Ask(Keep, "open", {l1}, Keep), Ask(Keep, Keep, {}, Unset)}

File(doc, root) == [document |-> doc, state |-> root]
Node(attributes, fields) == [attributes |-> attributes, fields |-> fields]

MCHistory ==
    [c1 |-> [parents |-> <<>>, message |-> 1, files |-> 1 :> File(1, "r1")],
     c2 |-> [parents |-> <<"c1">>, message |-> 2,
             files |-> 1 :> File(1, "r2") @@ 2 :> File(2, "r1")],
     c3 |-> [parents |-> <<"c2", "c4">>, message |-> 2,
             files |-> 1 :> File(1, "r3") @@ 2 :> File(4, "r1") @@ 3 :> File(1, "r1")],
     c4 |-> [parents |-> <<"c1">>, message |-> 1,
             files |-> 1 :> File(3, "r1") @@ 3 :> File(1, "r1")]]

MCStates ==
    [r1 |-> [comments |-> 0, nodes |-> 1 :> Node(1, 1 :> 1) @@ 2 :> Node(1, 1 :> 1)],
     r2 |-> [comments |-> 1, nodes |-> 1 :> Node(2, 2 :> 1) @@ 2 :> Node(1, 1 :> 2)
                                         @@ 3 :> Node(1, 1 :> 1)],
     r3 |-> [comments |-> 1, nodes |-> 2 :> Node(1, 1 :> 2)
                                         @@ 3 :> Node(2, 1 :> 1 @@ 2 :> 2)]]

MCPairs == {<<"c1", "c2">>, <<"c2", "c3">>, <<"c3", "c4">>, <<"c4", "c3">>}
MCBefore == {{2}, {1, 3}}
MCMisstated == {<<"c1">>}

---------------------------------------------------------------------------
(* Scenes.                                                                  *)

\* a project with an owner and a member who is given other roles
IssueSpaces ==
    /\ spaces = s1 :> [kind |-> "project", parent |-> Unset]
    /\ members = [x \in Spaces \X Persons |->
                     CASE x = <<s1, p1>> -> "owner" [] x = <<s1, p2>> -> "editor"
                       [] OTHER -> Unset]
    /\ docs = [d \in Docs |-> [space |-> Unset, trashed |-> FALSE]]
    /\ links = <<>>
    /\ trashes = [d \in Docs |-> 0]

NoRows == rows = {} /\ walk = NoWalk /\ writes = 0
NoReports ==
    published = {} /\ allowed = FALSE /\ named = {} /\ changed = 0 /\ reading = Idle

\* documents to publish: every shape of four nodes, deleted or removed, with the
\* references and the private parts on two of them
CopiedDocuments(w) ==
    \E a \in {Root, n1}, b \in {Root, n1, n2}, c \in {n1, n3},
       gone \in SUBSET {n1, n2, n3}, removed \in SUBSET {n2, n3, n4},
       mark \in {"none", "sourceComment", "inserted", "deleted"} :
        LET plainNode(up) == [parent |-> up, deleted |-> FALSE, refs |-> {},
                              runs |-> <<[text |-> 1, mark |-> "none"]>>, fields |-> {"label"}]
            full == [parent |-> b, deleted |-> FALSE, refs |-> {n1, n4}, fields |-> {"fonts", "note"},
                     runs |-> <<[text |-> 1, mark |-> mark], [text |-> 2, mark |-> "none"]>>]
            all  == n1 :> plainNode(Root) @@ n2 :> plainNode(a) @@ n3 :> full @@ n4 :> plainNode(c)
        IN w = [token |-> 1, removed_choices |-> removed,
                nodes |-> [n \in DOMAIN all |-> [all[n] EXCEPT !.deleted = n \in gone]]]

RecordsInit ==
    /\ IF scene = "pages" THEN PagesInit ELSE NoRows
    /\ IF scene = "issues" THEN IssueSpaces ELSE SpacesInit
    /\ IssuesInit
    /\ IF scene = "reports" THEN ReportsInit ELSE NoReports
    /\ IF scene = "copies" THEN CopiedDocuments(question) ELSE question = Unset

\* in the issues scene a member of the project may become a viewer
IssuesMembers ==
    /\ \E p, q \in Persons : set_space_member(p, Project, q, "viewer")
    /\ UNCHANGED issue_vars

RecordsNext ==
    /\ UNCHANGED question
    /\ \/ scene = "pages" /\ PagesNext /\ UNCHANGED <<space_vars, issue_vars, report_vars>>
       \/ scene = "spaces" /\ SpacesNext /\ UNCHANGED <<pages_vars, issue_vars, report_vars>>
       \/ /\ scene = "issues"
          /\ (IssueStep /\ UNCHANGED space_vars) \/ IssuesMembers
          /\ stars' \subseteq {p2}
          /\ UNCHANGED <<pages_vars, report_vars>>
       \/ scene = "reports" /\ ReportsNext /\ UNCHANGED <<pages_vars, space_vars, issue_vars>>

-----------------------------------------------------------------------------
Init == scene \in Scenes /\ CollaborationInit /\ RecordsInit

Next ==
  /\ UNCHANGED scene
  /\ \/ scene = "drafts" /\ DraftsNext /\ UNCHANGED <<agentVars, records>>
     \/ scene = "rules" /\ RulesNext /\ UNCHANGED <<agentVars, records>>
     \/ scene = "agents" /\ AgentsNext /\ LowerFirst /\ UNCHANGED records
     \/ RecordsNext /\ UNCHANGED <<requestVars, agentVars>>

Spec == Init /\ [][Next]_vars

\* What a public link shows of a document that may be published: exactly the
\* nodes with nothing deleted or removed above them, under names that only the
\* link's token can connect with the document's, its references and its shape
\* kept, and no review mark, deleted text or private field.
PublicCopyPrivate ==
    scene = "copies" /\ publishable(question) => CopyIsPrivate(question.token, question)

\* What readers are shown of a project is what it holds: lists page by page,
\* the log and the reports a client checks, and public copies.
ShownTruthfully == PagesCover /\ LogIsChain /\ ReportsAreWhole /\ PublicCopyPrivate
=============================================================================
