---------------------------- MODULE TeamRecords -----------------------------
(***************************************************************************)
(* What a team keeps on the server beside its documents: spaces and their  *)
(* members, the issues of a project, and the public copies of documents.   *)
(***************************************************************************)
EXTENDS Integers, FiniteSets, Sequences, SequencesExt

-----------------------------------------------------------------------------
(* Organizations, teams, folders and projects, who belongs to them, where  *)
(* documents live, and the public links to documents (engine-api           *)
(* product.rs, projects.rs; the role functions of migrations 0015, 0021    *)
(* and 0022).  Every handler is one transaction that locks the rows its     *)
(* checks read, so each is one action.                                      *)

CONSTANTS
    Persons, Spaces, Docs,
    GivenRoles,   \* the roles people are given in a space
    author_of,    \* document.created_by
    access_of,    \* document_access: the role a person was given on a document
    Unset,
    DepthLimit,   \* twelve in the code
    MaxLinks, MaxTrashes

ASSUME SpacesAssumption ==
    /\ author_of \in [Docs -> Persons]
    /\ DOMAIN access_of = Docs \X Persons
    /\ Unset \notin Spaces \cup Persons
    /\ DepthLimit \in Nat

VARIABLES
    spaces,    \* access_space: the kind and parent of each space there is
    members,   \* space_member: the role of a person in a space, or Unset
    docs,      \* the space of each document and whether it is in the trash
    links,     \* public_document_view
    trashes    \* how often a document was put in the trash

space_vars == <<spaces, members, docs, links, trashes>>

---------------------------------------------------------------------------
(* Roles.                                                                   *)

access_role_rank(r) ==
    CASE r = "owner" -> 5 [] r = "manager" -> 4 [] r \in {"editor", "author"} -> 3
      [] r \in {"approver", "reviewer"} -> 2 [] r \in {"viewer", "auditor"} -> 1
      [] OTHER -> 0

\* a finer order, which tells approvers from contributors
member_role_order(r) ==
    CASE r = "owner" -> 60 [] r = "manager" -> 50 [] r \in {"editor", "author"} -> 40
      [] r = "approver" -> 30 [] r = "reviewer" -> 20 [] r \in {"viewer", "auditor"} -> 10
      [] OTHER -> 0

ancestors(s) ==
    LET up[n \in 0 .. Cardinality(Spaces)] ==
          IF n = 0 THEN {s} \cap DOMAIN spaces
          ELSE up[n - 1] \cup ({spaces[a].parent : a \in up[n - 1]} \ {Unset})
    IN up[Cardinality(Spaces)]

Highest(roles) ==
    IF roles = {} THEN Unset
    ELSE CHOOSE r \in roles : \A o \in roles : member_role_order(o) <= member_role_order(r)

inherited_space_role(s, p) ==
    Highest({members[a, p] : a \in ancestors(s)} \ {Unset})

SpaceRank(s, p) == access_role_rank(inherited_space_role(s, p))

document_project(d) ==
    LET found == {a \in ancestors(docs[d].space) : spaces[a].kind = "project"}
    IN IF found = {} THEN Unset ELSE CHOOSE a \in found : TRUE

document_member_role(d, p) ==
    LET best == Highest({access_of[d, p], inherited_space_role(docs[d].space, p)} \ {Unset})
    IN CASE docs[d].trashed -> Unset
         [] ~docs[d].trashed /\ author_of[d] = p -> "owner"
         [] ~docs[d].trashed /\ author_of[d] # p /\ best \in {"owner", "manager"} -> "manager"
         [] OTHER -> best

can_manage_document(d, p) ==
    author_of[d] = p \/ SpaceRank(docs[d].space, p) >= 4

\* a file of a project is governed by the people who manage the project
governance_can_manage(d, p) ==
    /\ document_member_role(d, p) \in {"owner", "manager"}
    /\ document_project(d) # Unset =>
         inherited_space_role(document_project(d), p) \in {"owner", "manager"}

---------------------------------------------------------------------------
(* Spaces and members.                                                      *)

SpacesInit ==
    /\ spaces = [s \in {} |-> Unset]
    /\ members = [x \in Spaces \X Persons |-> Unset]
    /\ docs = [d \in Docs |-> [space |-> Unset, trashed |-> FALSE]]
    /\ links = <<>>
    /\ trashes = [d \in Docs |-> 0]

With(f, x, v) == [z \in DOMAIN f \cup {x} |-> IF z = x THEN v ELSE f[z]]

AddSpace(p, s, kind, parent) ==
    /\ s \notin DOMAIN spaces
    /\ spaces' = With(spaces, s, [kind |-> kind, parent |-> parent])
    /\ members' = [members EXCEPT ![s, p] = "owner"]
    /\ UNCHANGED <<docs, links, trashes>>

create_organization(p, s) == AddSpace(p, s, "organization", Unset)

create_project(p, s) == AddSpace(p, s, "project", Unset)

create_space(p, s, kind, parent) ==
    /\ parent \in DOMAIN spaces
    /\ \/ kind = "team" /\ spaces[parent].kind = "organization"
       \/ kind = "folder" /\ spaces[parent].kind \in {"team", "folder", "project"}
    /\ SpaceRank(parent, p) >= 4
    /\ Cardinality(ancestors(parent)) < DepthLimit
    /\ AddSpace(p, s, kind, parent)

\* A mutant: an owner may be removed by an owner whoever else owns the space.
set_space_member_last(p, s, q, role) ==
    /\ s \in DOMAIN spaces
    /\ SpaceRank(s, p) >= 4
    /\ role = "owner" => SpaceRank(s, p) >= 5
    /\ members[s, q] = "owner" /\ role # "owner" => SpaceRank(s, p) >= 5
    /\ members' = [members EXCEPT ![s, q] = IF role = "remove" THEN Unset ELSE role]
    /\ UNCHANGED <<spaces, docs, links, trashes>>

set_space_member(p, s, q, role) ==
    /\ s \in DOMAIN spaces
    /\ SpaceRank(s, p) >= 4
    /\ role = "owner" => SpaceRank(s, p) >= 5
    /\ members[s, q] = "owner" /\ role # "owner" =>
         /\ SpaceRank(s, p) >= 5
         /\ Cardinality({o \in Persons : members[s, o] = "owner"}) > 1
    /\ members' = [members EXCEPT ![s, q] = IF role = "remove" THEN Unset ELSE role]
    /\ UNCHANGED <<spaces, docs, links, trashes>>

---------------------------------------------------------------------------
(* Documents and public links.                                              *)

move_document(p, d, s) ==
    /\ can_manage_document(d, p)
    /\ governance_can_manage(d, p)
    /\ s # Unset => s \in DOMAIN spaces /\ SpaceRank(s, p) >= 3
    /\ docs' = [docs EXCEPT ![d].space = s]
    /\ UNCHANGED <<spaces, members, links, trashes>>

EndLinks(ended) ==
    [i \in DOMAIN links |-> IF i \in ended THEN [links[i] EXCEPT !.revoked = TRUE]
                            ELSE links[i]]

\* A mutant: the links of a document are left as they are when it is trashed.
trash_document_only(p, d, deleted) ==
    /\ can_manage_document(d, p)
    /\ deleted => trashes[d] < MaxTrashes
    /\ docs' = [docs EXCEPT ![d].trashed = deleted]
    /\ trashes' = [trashes EXCEPT ![d] = IF deleted THEN @ + 1 ELSE @]
    /\ UNCHANGED <<spaces, members, links>>

\* putting a document in the trash revokes its links; restoring revives none
trash_document(p, d, deleted) ==
    /\ can_manage_document(d, p)
    /\ deleted => trashes[d] < MaxTrashes
    /\ docs' = [docs EXCEPT ![d].trashed = deleted]
    /\ links' = IF deleted THEN EndLinks({i \in DOMAIN links : links[i].doc = d}) ELSE links
    /\ trashes' = [trashes EXCEPT ![d] = IF deleted THEN @ + 1 ELSE @]
    /\ UNCHANGED <<spaces, members>>

\* PublicCopies models what the link shows; the link remembers who made it and
\* how often the document had been in the trash
publish(p, d) ==
    /\ document_member_role(d, p) # Unset
    /\ can_manage_document(d, p)
    /\ Len(links) < MaxLinks
    /\ links' = Append(links, [doc |-> d, by |-> p, revoked |-> FALSE, expired |-> FALSE,
                               trashes |-> trashes[d], ended |-> FALSE])
    /\ UNCHANGED <<spaces, members, docs, trashes>>

revoke(p, i) ==
    /\ can_manage_document(links[i].doc, p)
    /\ links' = [links EXCEPT ![i].revoked = TRUE, ![i].ended = TRUE]
    /\ UNCHANGED <<spaces, members, docs, trashes>>

\* expires_at passes
lapse_link(i) ==
    /\ ~links[i].expired
    /\ links' = [links EXCEPT ![i].expired = TRUE]
    /\ UNCHANGED <<spaces, members, docs, trashes>>

\* the links public_document answers
Served ==
    {i \in DOMAIN links : /\ ~links[i].revoked
                          /\ ~links[i].expired
                          /\ ~docs[links[i].doc].trashed}

SpacesNext ==
    \/ \E p \in Persons, s \in Spaces : create_organization(p, s) \/ create_project(p, s)
    \/ \E p \in Persons, s, parent \in Spaces, kind \in {"team", "folder"} :
          create_space(p, s, kind, parent)
    \/ \E p, q \in Persons, s \in Spaces, role \in GivenRoles \cup {"remove"} :
          set_space_member(p, s, q, role)
    \/ \E p \in Persons, d \in Docs, s \in Spaces \cup {Unset} : move_document(p, d, s)
    \/ \E p \in Persons, d \in Docs, deleted \in BOOLEAN : trash_document(p, d, deleted)
    \/ \E p \in Persons, d \in Docs : publish(p, d)
    \/ \E p \in Persons, i \in DOMAIN links : revoke(p, i)
    \/ \E i \in DOMAIN links : lapse_link(i)

SpacesSpec == SpacesInit /\ [][SpacesNext]_space_vars

---------------------------------------------------------------------------
(* Properties.                                                              *)

\* Every space keeps a direct owner, however members change each other's roles
\* and whatever they inherit; and a public link that a person revoked, or whose
\* document has been in the trash since the link was made, is never served
\* again, not even after the document is restored.
SpacesKept ==
    /\ \A s \in DOMAIN spaces : \E p \in Persons : members[s, p] = "owner"
    /\ \A i \in Served : /\ ~links[i].ended
                         /\ links[i].trashes = trashes[links[i].doc]

-----------------------------------------------------------------------------
(* Issues, comments, labels and stars of one project (engine-api           *)
(* project_issues.rs over the tables of migration 0039), and the audit     *)
(* rows each change writes in its own transaction.  Who may do what follows *)
(* from the members of the project, which TeamSpaces changes; a write holds *)
(* a share lock on the project, so the role it read stays until it commits. *)
(* The title and the description of an issue are one text.                  *)

CONSTANTS
    Project,            \* the space the issues belong to
    Texts, Labels, LabelNames,
    Inputs,             \* the changes people ask for: text, state, labels, assignee
    Keep,               \* a field the request leaves out
    MAX_ISSUES, MAX_COMMENTS, MAX_LABELS, MAX_ISSUE_LABELS,
    MaxTrail            \* audit rows

VARIABLES
    issues,     \* project_issue with its labels and comments, by number
    labels,     \* project_label: the name of each label there is
    stars,      \* project_star
    trail,      \* operation_audit
    lastRead        \* what a person last read of an issue: its revision and text

issue_vars == <<issues, labels, stars, trail, lastRead>>

can_write(p) == SpaceRank(Project, p) >= 2
can_manage(p) == SpaceRank(Project, p) >= 4
is_member(p) == inherited_space_role(Project, p) # Unset

NotRead == [revision |-> -1, text |-> Unset]

IssuesInit ==
    /\ issues = <<>>
    /\ labels = [l \in {} |-> Unset]
    /\ stars = {}
    /\ trail = <<>>
    /\ lastRead = [x \in Persons \X (1 .. MAX_ISSUES) |-> NotRead]

audit(rows) ==
    /\ Len(trail) + Len(rows) <= MaxTrail
    /\ trail' = trail \o rows

\* the answer to a write, and to a read, carries the issue as it is
Answered(p, n, i) == [lastRead EXCEPT ![p, n] = [revision |-> i.revision, text |-> i.text]]

label_set_ok(wanted) == Cardinality(wanted) <= MAX_ISSUE_LABELS
require_labels(wanted) == wanted \subseteq DOMAIN labels
require_assignee(q) == q # Unset => is_member(q)

create_issue(p, t, wanted, assignee) ==
    LET n == Len(issues) + 1
        i == [text |-> t, state |-> "open", author |-> p, assignee |-> assignee,
              closed_by |-> Unset, revision |-> 0, labels |-> wanted, comments |-> <<>>]
    IN /\ label_set_ok(wanted)
       /\ can_write(p)
       /\ require_labels(wanted)
       /\ require_assignee(assignee)
       /\ n <= MAX_ISSUES
       /\ issues' = Append(issues, i)
       /\ audit(<<[action |-> "issue.created", by |-> p, n |-> n, added |-> wanted,
                   assignee |-> assignee]>>)
       /\ lastRead' = Answered(p, n, i)
       /\ UNCHANGED <<labels, stars>>

get_issue(p, n) ==
    /\ is_member(p)
    /\ lastRead' = Answered(p, n, issues[n])
    /\ UNCHANGED <<issues, labels, stars, trail>>

\* the rows a change is recorded by, one for each kind of change
ChangeRows(p, n, old, new) ==
    LET edited   == [action |-> "issue.edited", by |-> p, n |-> n, previous |-> old.text]
        state    == [action |-> IF new.state = "closed" THEN "issue.closed" ELSE "issue.reopened",
                     by |-> p, n |-> n]
        assigned == [action |-> IF new.assignee = Unset THEN "issue.unassigned" ELSE "issue.assigned",
                     by |-> p, n |-> n, assignee |-> new.assignee]
        labelled == [action |-> "issue.labels_changed", by |-> p, n |-> n,
                     added |-> new.labels \ old.labels, removed |-> old.labels \ new.labels]
    IN (IF new.text # old.text THEN <<edited>> ELSE <<>>)
       \o (IF new.state # old.state THEN <<state>> ELSE <<>>)
       \o (IF new.assignee # old.assignee THEN <<assigned>> ELSE <<>>)
       \o (IF new.labels # old.labels THEN <<labelled>> ELSE <<>>)

Asked(new, old) == IF new = Keep THEN old ELSE new

\* A mutant: a stale revision is not refused.
stale_any(input, known, issue) == FALSE

\* the revision a request carries is not the issue's
stale(input, known, issue) == known # Unset /\ known # issue.revision

update_issue(p, n, input, known) ==
    LET old  == issues[n]
        next == [old EXCEPT
                   !.text = Asked(input.text, @),
                   !.state = Asked(input.state, @),
                   !.assignee = Asked(input.assignee, @),
                   !.labels = Asked(input.labels, @)]
        new  == IF next = old THEN old
                ELSE [next EXCEPT
                        !.revision = @ + 1,
                        !.closed_by = IF next.state # "closed" THEN Unset
                                      ELSE IF @ = Unset THEN p ELSE @]
    IN /\ input.text # Keep => known # Unset
       /\ input.labels # Keep => label_set_ok(input.labels)
       /\ can_write(p)
       /\ old.author = p \/ can_manage(p)
       /\ ~stale(input, known, old)
       /\ next.assignee # old.assignee => require_assignee(next.assignee)
       /\ input.labels # Keep => require_labels(input.labels)
       /\ issues' = [issues EXCEPT ![n] = new]
       /\ audit(ChangeRows(p, n, old, new))
       /\ lastRead' = Answered(p, n, new)
       /\ UNCHANGED <<labels, stars>>

create_comment(p, n) ==
    /\ can_write(p)
    /\ Len(issues[n].comments) < MAX_COMMENTS
    /\ issues' = [issues EXCEPT ![n].comments = Append(@, p)]
    /\ audit(<<[action |-> "issue.commented", by |-> p, n |-> n,
                seq |-> Len(issues[n].comments) + 1]>>)
    /\ UNCHANGED <<labels, stars, lastRead>>

\* label names are unique in a project, whatever their case
NameTaken(l, name) == \E o \in DOMAIN labels \ {l} : labels[o] = name

create_label(p, l, name) ==
    /\ can_manage(p)
    /\ Cardinality(DOMAIN labels) < MAX_LABELS
    /\ l \notin DOMAIN labels
    /\ ~NameTaken(l, name)
    /\ labels' = With(labels, l, name)
    /\ audit(<<[action |-> "label.created", by |-> p, label |-> l, name |-> name]>>)
    /\ UNCHANGED <<issues, stars, lastRead>>

update_label(p, l, name) ==
    /\ can_manage(p)
    /\ l \in DOMAIN labels
    /\ ~NameTaken(l, name)
    /\ labels' = [labels EXCEPT ![l] = name]
    /\ audit(IF name = labels[l] THEN <<>>
             ELSE <<[action |-> "label.edited", by |-> p, label |-> l, name |-> name]>>)
    /\ UNCHANGED <<issues, stars, lastRead>>

\* deleting a label takes it off every issue; no issue's revision moves
delete_label(p, l) ==
    /\ can_manage(p)
    /\ l \in DOMAIN labels
    /\ labels' = [o \in DOMAIN labels \ {l} |-> labels[o]]
    /\ issues' = [n \in DOMAIN issues |-> [issues[n] EXCEPT !.labels = @ \ {l}]]
    /\ audit(<<[action |-> "label.deleted", by |-> p, label |-> l]>>)
    /\ UNCHANGED <<stars, lastRead>>

\* A mutant: a star that is already there is recorded again.
star_again(p) ==
    /\ is_member(p)
    /\ stars' = stars \cup {p}
    /\ audit(<<[action |-> "project.starred", by |-> p]>>)
    /\ UNCHANGED <<issues, labels, lastRead>>

star(p) ==
    /\ is_member(p)
    /\ stars' = stars \cup {p}
    /\ audit(IF p \in stars THEN <<>> ELSE <<[action |-> "project.starred", by |-> p]>>)
    /\ UNCHANGED <<issues, labels, lastRead>>

unstar(p) ==
    /\ is_member(p)
    /\ stars' = stars \ {p}
    /\ audit(IF p \in stars THEN <<[action |-> "project.unstarred", by |-> p]>> ELSE <<>>)
    /\ UNCHANGED <<issues, labels, lastRead>>

IssueStep ==
    \/ \E p \in Persons, t \in Texts, w \in SUBSET Labels, q \in Persons \cup {Unset} :
          create_issue(p, t, w, q)
    \/ \E p \in Persons, n \in DOMAIN issues :
          \/ get_issue(p, n)
          \/ create_comment(p, n)
          \/ \E input \in Inputs :
                \/ update_issue(p, n, input, Unset)
                \/ lastRead[p, n] # NotRead /\ update_issue(p, n, input, lastRead[p, n].revision)
    \/ \E p \in Persons, l \in Labels, name \in LabelNames :
          create_label(p, l, name) \/ update_label(p, l, name)
    \/ \E p \in Persons, l \in Labels : delete_label(p, l)
    \/ \E p \in Persons : star(p) \/ unstar(p)

---------------------------------------------------------------------------
(* Properties.                                                              *)

\* what one audit row says happened
Replayed(told, row) ==
    CASE row.action = "issue.created" ->
            [told EXCEPT !.issues = Append(@, [state |-> "open", assignee |-> row.assignee,
                                               labels |-> row.added, comments |-> 0])]
      [] row.action = "issue.edited" -> told
      [] row.action = "issue.closed" -> [told EXCEPT !.issues[row.n].state = "closed"]
      [] row.action = "issue.reopened" -> [told EXCEPT !.issues[row.n].state = "open"]
      [] row.action \in {"issue.assigned", "issue.unassigned"} ->
            [told EXCEPT !.issues[row.n].assignee = row.assignee]
      [] row.action = "issue.labels_changed" ->
            [told EXCEPT !.issues[row.n].labels = (@ \ row.removed) \cup row.added]
      [] row.action = "issue.commented" -> [told EXCEPT !.issues[row.n].comments = row.seq]
      [] row.action \in {"label.created", "label.edited"} ->
            [told EXCEPT !.labels = With(@, row.label, row.name)]
      [] row.action = "label.deleted" ->
            [told EXCEPT
               !.labels = [l \in DOMAIN @ \ {row.label} |-> @[l]],
               !.issues = [n \in DOMAIN @ |-> [@[n] EXCEPT !.labels = @ \ {row.label}]]]
      [] row.action = "project.starred" -> [told EXCEPT !.stars = @ + 1]
      [] row.action = "project.unstarred" -> [told EXCEPT !.stars = @ - 1]

\* The audit trail accounts for the project: replaying its rows in order gives
\* the state, assignee, labels and number of comments of every issue, the labels
\* and the number of stars that the tables hold.  So no handler changes an issue
\* without the row that says so, and none records what it did not do.
TrailTellsIssues ==
    LET told == FoldLeft(Replayed, [issues |-> <<>>, labels |-> [l \in {} |-> Unset],
                                    stars |-> 0], trail)
    IN /\ told.labels = labels
       /\ told.stars = Cardinality(stars)
       /\ told.issues = [n \in DOMAIN issues |->
                           [state |-> issues[n].state, assignee |-> issues[n].assignee,
                            labels |-> issues[n].labels,
                            comments |-> Len(issues[n].comments)]]
       /\ \A n \in DOMAIN issues : /\ (issues[n].closed_by # Unset) = (issues[n].state = "closed")
                                   /\ issues[n].labels \subseteq DOMAIN labels

\* Nobody's words are overwritten unread: whoever changes the text of an issue
\* had been shown the very text the change replaces, whatever others did to the
\* issue in between.
NoLostText ==
    [][\A n \in DOMAIN issues :
         issues'[n].text # issues[n].text =>
           \E i \in Len(trail) + 1 .. Len(trail') :
              /\ trail'[i].action = "issue.edited"
              /\ lastRead[trail'[i].by, n].text = issues[n].text]_issue_vars

-----------------------------------------------------------------------------
(* What a public link shows (engine-api product.rs, publish and            *)
(* public_document).  A link is made from a snapshot of the document.  What *)
(* is served is the snapshot without its review discussion, without removed *)
(* choices and deleted nodes and everything below them, and with every node *)
(* identifier replaced by a pseudonym that depends on the link's token.     *)
(*                                                                          *)
(* A node has a parent, the nodes its declared reference fields name, the   *)
(* runs of its rich text with a review mark each, and the fields that only  *)
(* members may see.                                                         *)

CONSTANTS Root   \* the parent of a top-level node

PrivateFields == {"import_report", "research_source", "fonts", "note"}

\* has_text_revisions, over the live nodes: publish refuses such a document
has_text_revisions(node) ==
    \E i \in DOMAIN node.runs : node.runs[i].mark \in {"inserted", "deleted"}

publishable(content) ==
    \A n \in DOMAIN content.nodes :
        ~content.nodes[n].deleted => ~has_text_revisions(content.nodes[n])

\* A mutant: only the nodes hidden themselves are left out.
Hidden_direct(content) ==
    content.removed_choices \cup
        {n \in DOMAIN content.nodes : content.nodes[n].deleted}

\* removed choices and deleted nodes, then whatever sits below one, until
\* nothing is added
Hidden(content) ==
    LET nodes == content.nodes
        grow[k \in 0 .. Cardinality(DOMAIN nodes)] ==
          IF k = 0
          THEN content.removed_choices \cup {n \in DOMAIN nodes : nodes[n].deleted}
          ELSE grow[k - 1] \cup {n \in DOMAIN nodes : nodes[n].parent \in grow[k - 1]}
    IN grow[Cardinality(DOMAIN nodes)]

\* deleted runs go, review marks go, text stays
strip_private_review(runs) ==
    LET kept == SelectSeq(runs, LAMBDA r : r.mark # "deleted")
    IN [i \in DOMAIN kept |->
          IF kept[i].mark \in {"sourceComment", "inserted"} THEN [kept[i] EXCEPT !.mark = "none"]
          ELSE kept[i]]

plain(runs) == [i \in DOMAIN runs |-> runs[i].text]

\* HMAC of the identifier under the token: without the token no one can tell
\* which identifier it stands for
pseudonym(token, id) == [token |-> token, id |-> id]

\* the identifiers a copy may mention: nodes, their parents, declared references
reference_ids(content) ==
    DOMAIN content.nodes
    \cup ({content.nodes[n].parent : n \in DOMAIN content.nodes} \ {Root})
    \cup UNION {content.nodes[n].refs : n \in DOMAIN content.nodes}

replace_reference(token, ids, id) == IF id \in ids THEN pseudonym(token, id) ELSE id

public_node(token, ids, node) ==
    LET runs == strip_private_review(node.runs)
    IN [parent |-> replace_reference(token, ids, node.parent),
        refs   |-> {replace_reference(token, ids, r) : r \in node.refs},
        runs   |-> runs,
        label  |-> plain(runs),
        fields |-> node.fields \ PrivateFields]

public_document(token, content) ==
    LET ids   == reference_ids(content)
        shown == DOMAIN content.nodes \ Hidden(content)
        name  == [n \in shown |-> replace_reference(token, ids, n)]
    IN [nodes |-> [q \in {name[n] : n \in shown} |->
                     public_node(token, ids, content.nodes[CHOOSE n \in shown : name[n] = q])],
        comments |-> {}, suggestions |-> {}, removed_choices |-> {}]

---------------------------------------------------------------------------
(* The reference: a node is public when nothing on its way to the root is   *)
(* deleted or removed.                                                      *)

Above(nodes, n) ==
    LET up[k \in 0 .. Cardinality(DOMAIN nodes)] ==
          IF k = 0 THEN {n}
          ELSE up[k - 1] \cup ({nodes[m].parent : m \in up[k - 1]} \cap DOMAIN nodes)
    IN up[Cardinality(DOMAIN nodes)]

IsPublic(content, n) ==
    \A m \in Above(content.nodes, n) :
        ~content.nodes[m].deleted /\ m \notin content.removed_choices

Mentions(copy) ==
    DOMAIN copy.nodes \cup
    UNION {{copy.nodes[q].parent} \cup copy.nodes[q].refs : q \in DOMAIN copy.nodes}

\* what a public copy owes the document it was made from
CopyIsPrivate(token, content) ==
    LET copy  == public_document(token, content)
        nodes == content.nodes
        named == {m \in Mentions(copy) : m # Root}
    IN /\ \A n \in DOMAIN nodes :
            (pseudonym(token, n) \in DOMAIN copy.nodes) = IsPublic(content, n)
       /\ \A m \in named : \E id \in reference_ids(content) : m = pseudonym(token, id)
       /\ \A n \in {n \in DOMAIN nodes : IsPublic(content, n)} :
            LET node == copy.nodes[pseudonym(token, n)]
            IN /\ IF nodes[n].parent = Root THEN node.parent = Root
                  ELSE node.parent = pseudonym(token, nodes[n].parent)
               /\ node.refs = {pseudonym(token, r) : r \in nodes[n].refs}
               /\ node.fields \cap PrivateFields = {}
               /\ node.label = plain(nodes[n].runs)
               /\ \A i \in DOMAIN node.runs : node.runs[i].mark = "none"

(* The spaces of a team and the issues of a project at every moment.       *)
RecordsKept == SpacesKept /\ TrailTellsIssues
=============================================================================
