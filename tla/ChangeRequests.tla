--------------------------- MODULE ChangeRequests ---------------------------
(***************************************************************************)
(* Personal drafts, change requests, reviews and the review rules of one   *)
(* document that lives in a project (engine-api workspace.rs, reviews.rs,  *)
(* access.rs, people.rs, projects.rs).                                     *)
(*                                                                         *)
(* Every handler runs in one transaction that holds the document lock      *)
(* (apply::begin_write), so it is one action.  What a caller saw before it *)
(* called (the team sequence and the draft revision of its request body)   *)
(* may be any earlier value.  The content of a document is a value per     *)
(* block; WorkspaceMerge models the merge of whole trees.                  *)
(***************************************************************************)
EXTENDS Naturals, Sequences, FiniteSets, TLC

CONSTANTS
  People,            \* accounts of people
  Agents,            \* agent identities, which act for a person
  principal_id,      \* the person an agent acts for
  ProjectManagers,   \* the people who manage the project the file is in
  Blocks, Vals,      \* blocks of the document and what they may hold
  Empty,             \* the content the document starts with
  Drafts,            \* draft identifiers
  Policies,          \* the review rules people choose from
  Verdicts,          \* the verdicts reviewers give
  TeamEdits, DraftEdits, \* the edits people make: pairs of a block and a value
  None,
  MaxSeq, MaxRevision, MaxReviews, MaxChanges

ASSUME CollaborationAssumption ==
  /\ principal_id \in [Agents -> People]
  /\ ProjectManagers \subseteq People
  /\ Empty \in Vals
  /\ TeamEdits \cup DraftEdits \subseteq Blocks \X Vals
  /\ Agents \cap People = {} /\ None \notin People \cup Agents

VARIABLES
  states,    \* states[n + 1]: the team version after its n-th change
  last,      \* how the last change came to the team version
  owner,     \* document.created_by
  granted,   \* document_access: the role granted to a person
  rules,     \* document_policy, None when the file inherits
  floor,     \* project_settings: the rules of the project
  revision,  \* project_settings.revision
  draft,     \* workspace_draft
  reviews,   \* change_request_review, in insert order, with what the reviewer saw
  lapsed,    \* the reviews the audit log says stopped counting
  changes    \* changes of access and rules so far, bounded by MaxChanges

requestVars == <<states, last, owner, granted, rules, floor, revision,
                 draft, reviews, lapsed, changes>>
accessVars == <<owner, granted, rules, floor, revision, changes>>

-----------------------------------------------------------------------------
(* access.rs: the role ladder and the rules *)

Rank == [viewer |-> 1, contributor |-> 2, reviewer |-> 3,
         editor |-> 4, manager |-> 5, owner |-> 6]
AtLeast(r, least) == r # None /\ Rank[r] >= Rank[least]

member_role(p) ==
  CASE p = owner -> "owner"
    [] p # owner /\ p \in ProjectManagers -> "manager"
    [] OTHER -> IF p \in People THEN granted[p] ELSE None

\* A manager of the file who does not manage its project decides as an editor.
governance_role(p) ==
  IF AtLeast(member_role(p), "manager") /\ p \notin ProjectManagers
  THEN "editor" ELSE member_role(p)

\* The engine role: author, reviewer or auditor.
Role(p) == CASE AtLeast(member_role(p), "editor") -> "author"
             [] member_role(p) \in {"contributor", "reviewer"} -> "reviewer"
             [] member_role(p) = "viewer" -> "auditor"
             [] OTHER -> None

Default == [protect |-> FALSE, required |-> 0, mergers |-> "editors"]
Larger(a, b) == IF a >= b THEN a ELSE b
with_floor(own, least) ==
  [protect |-> own.protect \/ least.protect,
   required |-> Larger(own.required, least.required),
   mergers |-> IF "owners" \in {own.mergers, least.mergers}
               THEN "owners" ELSE "editors"]
policy == with_floor(IF rules = None THEN Default ELSE rules, floor)

can_merge(r) ==
  AtLeast(r, "manager") \/ (r = "editor" /\ policy.mergers = "editors")
can_edit_team(r) ==
  AtLeast(r, "manager") \/ (r = "editor" /\ ~policy.protect)
ensure_team_edit(p) == can_edit_team(governance_role(p))

-----------------------------------------------------------------------------
(* The team version, drafts and what combines them *)

Contents == [Blocks -> Vals]
latest_seq == Len(states) - 1
team == states[Len(states)]
state_through(n) == states[n + 1]

\* A draft is its creator's, and the principal's when an agent made it.
owned_by(d, p) ==
  \/ draft[d].created_by = p
  \/ draft[d].created_by \in Agents /\ principal_id[draft[d].created_by] = p
Unmerged(d) == draft[d] # None /\ ~draft[d].merged
status(d) == CASE draft[d].merged -> "merged"
               [] draft[d].outcome # None -> draft[d].outcome
               [] OTHER -> "open"
\* request_row: a submitted request, or a draft of the viewer's own.
Visible(d, p) == draft[d] # None /\ (draft[d].submitted \/ owned_by(d, p))

Conflicts(b, t, l) == {x \in Blocks : b[x] # t[x] /\ b[x] # l[x] /\ t[x] # l[x]}
plan(b, t, l, keep) ==
  [x \in Blocks |-> CASE l[x] \in {b[x], t[x]} -> t[x]
                      [] l[x] \notin {b[x], t[x]} /\ b[x] = t[x] -> l[x]
                      [] OTHER -> IF keep[x] = "team" THEN t[x] ELSE l[x]]
diff(a, b) == {x \in Blocks : a[x] # b[x]}
Take(t, s, nodes) == [x \in Blocks |-> IF x \in nodes THEN s[x] ELSE t[x]]
\* A mutant: any share or merge ends the draft.
FinishedAlways(next, target) == TRUE
\* Nothing of the draft is left out of the team version.
Finished(next, target) == next = target
Keepings(d) == IF draft[d] = None THEN {} ELSE
  [Conflicts(draft[d].base, team, draft[d].local) -> {"team", "draft"}]

\* append_to_team: the chosen changes become one more change of the team version.
append_to_team(next, how, p, d, more) ==
  /\ latest_seq < MaxSeq
  /\ states' = Append(states, next)
  /\ last' = [how |-> how, by |-> p, draft |-> d] @@ more

\* Every write of a draft's row is one more revision of it.
SaveDraft(d, row) ==
  /\ draft[d].revision < MaxRevision
  /\ draft' = [draft EXCEPT ![d] = [row EXCEPT !.revision = @ + 1]]

-----------------------------------------------------------------------------
(* reviews.rs: the verdicts that count *)

Deciding == {"approved", "changes_requested"}
Fresh(i) == reviews[i].revision >= draft[reviews[i].draft].content_revision
Eligible(d, p) ==
  {i \in DOMAIN reviews :
     /\ reviews[i].draft = d /\ reviews[i].by = p
     /\ reviews[i].verdict \in Deciding
     /\ Fresh(i)
     /\ AtLeast(member_role(p), "reviewer")
     /\ p \notin Agents}
\* Each reviewer's latest decision about the content as it is.
latest_counted(d) ==
  {i \in DOMAIN reviews :
     /\ i \in Eligible(d, reviews[i].by)
     /\ \A j \in Eligible(d, reviews[i].by) : j <= i}

Principal(d) == IF draft[d].created_by \in Agents
                THEN principal_id[draft[d].created_by] ELSE None
approved(d) == {i \in latest_counted(d) :
                  /\ reviews[i].verdict = "approved"
                  /\ reviews[i].by \notin {draft[d].created_by, Principal(d)}}
blocked(d) == {i \in latest_counted(d) : reviews[i].verdict = "changes_requested"}
satisfied(d) == /\ Cardinality(approved(d)) >= policy.required
                /\ policy.required = 0 \/ blocked(d) = {}
own_agent_request(d, p) == draft[d].created_by \in Agents /\ owned_by(d, p)

\* The content of d is about to move: what counted for it is audited as lapsed.
audit_lapsed_reviews(d) == lapsed' = lapsed \cup latest_counted(d)

-----------------------------------------------------------------------------
(* workspace.rs: the team version and personal drafts *)

\* Edits based on version n, merged onto the team version when it moved since.
batch(p, n, x, v) ==
  LET local == [state_through(n) EXCEPT ![x] = v]
      next == plan(state_through(n), team, local, <<>>)
  IN /\ Role(p) = "author" /\ ensure_team_edit(p)
     /\ Conflicts(state_through(n), team, local) = {}
     /\ n = latest_seq \/ next # team
     /\ append_to_team(next, "edit", p, None, [seen |-> n, nodes |-> {x}])
     /\ UNCHANGED <<accessVars, draft, reviews, lapsed>>

restore_version(p, n, seen) ==
  /\ Role(p) = "author" /\ ensure_team_edit(p)
  /\ seen = latest_seq
  /\ diff(team, state_through(n)) # {}
  /\ append_to_team(state_through(n), "restore", p, None,
                    [seen |-> seen, nodes |-> diff(team, state_through(n))])
  /\ UNCHANGED <<accessVars, draft, reviews, lapsed>>

NewDraft(p, n) ==
  [created_by |-> p, base |-> state_through(n), base_seq |-> n,
   local |-> state_through(n), revision |-> 0, content_revision |-> 0,
   submitted |-> FALSE, outcome |-> None, merged |-> FALSE, excluded |-> {}]
InsertDraft(d, row) == draft[d] = None /\ draft' = [draft EXCEPT ![d] = row]

create_draft(p, d, n) ==
  /\ Role(p) \notin {"auditor", None}
  /\ InsertDraft(d, NewDraft(p, n))
  /\ UNCHANGED <<accessVars, states, last, reviews, lapsed>>

\* reviews.rs create: a pushed file becomes a draft at revision 1, and perhaps
\* a request.
create(p, d, n, x, v, submit) ==
  /\ Role(p) \notin {"auditor", None}
  /\ InsertDraft(d, [NewDraft(p, n) EXCEPT !.revision = 1, !.submitted = submit,
                                          !.local[x] = v])
  /\ UNCHANGED <<accessVars, states, last, reviews, lapsed>>

edit_draft(p, d, r, x, v) ==
  /\ Role(p) \notin {"auditor", None}
  /\ Unmerged(d) /\ owned_by(d, p)
  /\ r = draft[d].revision
  /\ audit_lapsed_reviews(d)
  /\ SaveDraft(d, [draft[d] EXCEPT !.local[x] = v, !.content_revision = r + 1])
  /\ UNCHANGED <<accessVars, states, last, reviews>>

\* A mutant: the team version a caller compared with is not looked at.
AsSeenDraft(d, seen, r) == r = draft[d].revision
\* The comparison a caller acts on is the current one.
AsSeen(d, seen, r) == seen = latest_seq /\ r = draft[d].revision

\* sync_draft, action pull or rebase: team work comes into the draft; a rebase
\* gives the dropped blocks back to the team.
follow_team(p, d, seen, r, keep, dropped) ==
  LET target == Take(plan(draft[d].base, team, draft[d].local, keep), team, dropped)
  IN /\ Unmerged(d) /\ owned_by(d, p)
     /\ AsSeen(d, seen, r)
     /\ Role(p) \notin {"auditor", None}
     /\ audit_lapsed_reviews(d)
     /\ SaveDraft(d, [draft[d] EXCEPT !.local = target, !.base = team,
                        !.base_seq = latest_seq, !.content_revision = r + 1])
     /\ UNCHANGED <<accessVars, states, last, reviews>>

\* sync_draft, action share: the owner puts included changes (or, when they name
\* none, the ones they do not hold back) in the team version.
share(p, d, seen, r, keep, included, remember) ==
  LET target == plan(draft[d].base, team, draft[d].local, keep)
      offered == diff(team, target)
      chosen == IF included = None THEN offered \ draft[d].excluded
                ELSE offered \cap included
      next == Take(team, target, chosen)
      held == IF remember /\ included # None
              THEN (draft[d].excluded \cup offered) \ included
              ELSE draft[d].excluded
  IN /\ Unmerged(d) /\ owned_by(d, p)
     /\ draft[d].created_by = p
     /\ AsSeen(d, seen, r)
     /\ Role(p) = "author" /\ ensure_team_edit(p)
     /\ IF chosen = {} THEN UNCHANGED <<states, last>>
        ELSE append_to_team(next, "share", p, d, [seen |-> seen, nodes |-> chosen])
     /\ SaveDraft(d, [draft[d] EXCEPT !.local = target, !.base = next,
          !.base_seq = IF chosen = {} THEN seen ELSE seen + 1, !.excluded = held,
          !.merged = Finished(next, target),
          !.outcome = IF Finished(next, target) /\ draft[d].submitted THEN "merged" ELSE @])
     /\ UNCHANGED <<accessVars, reviews, lapsed>>

-----------------------------------------------------------------------------
(* reviews.rs: requests *)

\* Sending a closed request again is a new round: no earlier verdict counts for it.
mark_submitted(p, d, reopen) ==
  LET closed == draft[d].outcome # None
  IN /\ Unmerged(d) /\ owned_by(d, p)
     /\ reopen \/ ~closed
     /\ IF closed
        THEN /\ audit_lapsed_reviews(d)
             /\ SaveDraft(d, [draft[d] EXCEPT !.submitted = TRUE, !.outcome = None,
                                !.content_revision = draft[d].revision + 1])
        ELSE /\ draft' = [draft EXCEPT ![d].submitted = TRUE]
             /\ UNCHANGED lapsed

\* r: the revision the person read; None when they name none.
submit(p, d, r) ==
  /\ Role(p) \notin {"auditor", None}
  /\ Unmerged(d) /\ owned_by(d, p)
  /\ draft[d].created_by # p => r # None
  /\ r # None => r = draft[d].revision
  /\ mark_submitted(p, d, TRUE)
  /\ UNCHANGED <<accessVars, states, last, reviews>>

OpenRequest(d) == draft[d] # None /\ status(d) = "open" /\ draft[d].submitted

review(p, d, verdict, r) ==
  /\ p \notin Agents
  /\ OpenRequest(d)
  /\ AtLeast(governance_role(p), "contributor")
  /\ verdict \in Deciding => /\ AtLeast(governance_role(p), "reviewer")
                             /\ ~owned_by(d, p)
                             /\ r = draft[d].revision
  /\ Len(reviews) < MaxReviews
  /\ reviews' = Append(reviews, [draft |-> d, by |-> p, verdict |-> verdict,
                                 revision |-> r, saw |-> draft[d].local])
  /\ UNCHANGED <<accessVars, states, last, draft, lapsed>>

\* Bypassing the approvals is for managers, and not for their own agent's request.
may_override(d, p) ==
  /\ AtLeast(governance_role(p), "manager")
  /\ ~own_agent_request(d, p)

\* An editor puts the included changes in the team version; the rest stay open.
merge(p, d, seen, r, keep, included) ==
  LET target == plan(draft[d].base, team, draft[d].local, keep)
      chosen == diff(team, target) \cap included
      next == Take(team, target, chosen)
  IN /\ Role(p) = "author" /\ p \notin Agents
     /\ OpenRequest(d)
     /\ can_merge(governance_role(p))
     /\ satisfied(d) \/ may_override(d, p)
     /\ AsSeen(d, seen, r)
     /\ chosen # {}
     /\ append_to_team(next, "merge", p, d,
          [seen |-> seen, nodes |-> chosen, revision |-> r,
           required |-> policy.required, approved |-> approved(d),
           overridden |-> ~satisfied(d)])
     /\ SaveDraft(d, [draft[d] EXCEPT !.local = target, !.base = next,
          !.base_seq = seen + 1, !.merged = Finished(next, target),
          !.outcome = IF Finished(next, target) THEN "merged" ELSE None])
     /\ UNCHANGED <<accessVars, reviews, lapsed>>

close_request(p, d, outcome) ==
  LET discarding == own_agent_request(d, p) /\ ~draft[d].submitted
  IN /\ draft[d] # None /\ Visible(d, p) /\ Role(p) # None
     /\ outcome = "declined" => /\ Role(p) = "author" /\ p \notin Agents
                                /\ can_merge(governance_role(p))
     /\ outcome = "withdrawn" => owned_by(d, p)
     /\ status(d) = "open"
     /\ draft[d].submitted \/ (outcome = "withdrawn" /\ discarding)
     /\ draft' = [draft EXCEPT ![d].outcome = outcome]
     /\ UNCHANGED <<accessVars, states, last, reviews, lapsed>>

-----------------------------------------------------------------------------
(* people.rs, projects.rs, workspace.rs share: access and rules *)

Change == changes < MaxChanges /\ changes' = changes + 1
contentVars == <<states, last, draft, reviews, lapsed>>

\* The owner keeps access; managing comes with owning or with the project.
share_access(p, q, r) ==
  /\ Role(p) = "author" /\ AtLeast(member_role(p), "manager")
  /\ q = owner => r = "editor"
  /\ granted' = [granted EXCEPT ![q] = r]
  /\ Change /\ UNCHANGED <<contentVars, owner, rules, floor, revision>>

transfer(p, q) ==
  /\ AtLeast(member_role(p), "manager")
  /\ member_role(q) # None /\ q # owner
  /\ owner' = q
  /\ granted' = [granted EXCEPT ![q] = "editor", ![owner] = "editor"]
  /\ Change /\ UNCHANGED <<contentVars, rules, floor, revision>>

set_policy(p, chosen) ==
  /\ AtLeast(governance_role(p), "manager")
  /\ with_floor(chosen, floor) = chosen
  /\ rules' = chosen
  /\ Change /\ UNCHANGED <<contentVars, owner, granted, floor, revision>>

inherit_policy(p) ==
  /\ AtLeast(governance_role(p), "manager")
  /\ rules' = None
  /\ Change /\ UNCHANGED <<contentVars, owner, granted, floor, revision>>

settings(p, chosen, seen) ==
  /\ p \in ProjectManagers
  /\ seen = revision
  /\ floor' = chosen /\ revision' = revision + 1
  /\ Change /\ UNCHANGED <<contentVars, owner, granted, rules>>

-----------------------------------------------------------------------------
RequestInit ==
  /\ states = <<[x \in Blocks |-> Empty]>> /\ last = None
  /\ rules = None /\ floor = Default /\ revision = 0
  /\ draft = [d \in Drafts |-> None]
  /\ reviews = <<>> /\ lapsed = {} /\ changes = 0

Seqs == 0..latest_seq
\* What a caller last read is at most one change old.
Seen == {n \in Seqs : n + 1 >= latest_seq}
Revisions(d) == IF draft[d] = None THEN {} ELSE
                {n \in 0..draft[d].revision : n + 1 >= draft[d].revision}

TeamStep(p) == \E n \in Seqs :
  \/ \E e \in TeamEdits : batch(p, n, e[1], e[2])
  \/ \E seen \in Seen : restore_version(p, n, seen)

DraftStep(p, d) ==
  \/ \E n \in Seqs : create_draft(p, d, n)
  \/ \E n \in Seqs, e \in DraftEdits, s \in BOOLEAN : create(p, d, n, e[1], e[2], s)
  \/ \E r \in Revisions(d), e \in DraftEdits : edit_draft(p, d, r, e[1], e[2])
  \/ \E r \in Revisions(d), seen \in Seen, keep \in Keepings(d), set \in SUBSET Blocks :
       \/ follow_team(p, d, seen, r, keep, set)
       \/ share(p, d, seen, r, keep, set, TRUE)
       \/ set = {} /\ share(p, d, seen, r, keep, None, FALSE)

RequestStep(p, d) ==
  \/ \E r \in Revisions(d) \cup {None} : submit(p, d, r)
  \/ \E r \in Revisions(d), verdict \in Verdicts : review(p, d, verdict, r)
  \/ \E r \in Revisions(d), seen \in Seen, keep \in Keepings(d),
        set \in SUBSET Blocks : merge(p, d, seen, r, keep, set)
  \/ \E outcome \in {"declined", "withdrawn"} : close_request(p, d, outcome)

AccessStep(p) ==
  \/ \E q \in People, r \in {"viewer", "contributor", "reviewer", "editor", None} :
       share_access(p, q, r)
  \/ \E q \in People : transfer(p, q)
  \/ \E chosen \in Policies : set_policy(p, chosen)
  \/ inherit_policy(p)
  \/ \E chosen \in Policies, seen \in 0..revision : settings(p, chosen, seen)

RequestNext == \E p \in People :
  TeamStep(p) \/ AccessStep(p) \/ \E d \in Drafts : DraftStep(p, d) \/ RequestStep(p, d)

-----------------------------------------------------------------------------
(* Properties *)

\* reviews.rs merge, review_state: every merge that did not bypass the rules had
\* the number of approvals the rules asked for, from distinct people other than
\* the contributor and the principal of a contributing agent, and each of them
\* approved exactly the values which reached the team version.  A merge that
\* bypassed the rules was not the principal's.
MergedWasApproved ==
  last # None /\ last.how = "merge" =>
    LET Who == {reviews[i].by : i \in last.approved}
    IN /\ last.overridden => ~own_agent_request(last.draft, last.by)
       /\ ~last.overridden => Cardinality(Who) >= last.required
       /\ Who \cap {draft[last.draft].created_by, Principal(last.draft)} = {}
       /\ \A i \in last.approved, x \in last.nodes : reviews[i].saw[x] = team[x]

\* workspace.rs batch, sync_draft, restore_version and reviews.rs merge: a change
\* of a block replaces the value its author was looking at, whatever the team
\* did between their reading and their writing.
NoLostTeamEdit ==
  last # None => \A x \in diff(state_through(latest_seq - 1), team) :
    state_through(last.seen)[x] = state_through(latest_seq - 1)[x]

\* audit_lapsed_reviews: a verdict stops counting, with its reviewer still
\* entitled and no newer verdict of theirs, only in a step that names it in the
\* audit log; and the audit log names only verdicts that counted.
LapsesAudited == [][
  /\ \A i \in DOMAIN reviews :
       LET d == reviews[i].draft
       IN /\ i \in latest_counted(d) /\ reviews' = reviews
          /\ AtLeast(member_role(reviews[i].by)', "reviewer")
          => i \in latest_counted(d)' \cup lapsed'
  /\ \A i \in lapsed' \ lapsed : i \in latest_counted(reviews[i].draft)]_requestVars

\* carry_into_draft: nobody but its owner changes what a draft holds, except to
\* what the team version holds; and a draft closes as merged only when nothing in
\* it is missing from the team version.
DraftKeepsItsWork == [][\A d \in Drafts :
  draft[d] # None =>
    /\ \A x \in Blocks : draft[d].local[x] # draft'[d].local[x] =>
         \/ draft'[d].content_revision = draft'[d].revision
         \/ draft'[d].local[x] = team'[x]
    /\ draft'[d].merged /\ ~draft[d].merged => draft'[d].local = team']_requestVars

=============================================================================
