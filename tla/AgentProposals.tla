--------------------------- MODULE AgentProposals ---------------------------
(***************************************************************************)
(* What AI agents do to a document: propose, submit and withdraw (engine-  *)
(* api agent/write.rs, agent/proposal.rs), under the project's agent       *)
(* policy, its kill switch and the file's own setting (agent/policy.rs,    *)
(* agent/manage.rs), on top of the drafts and reviews of ChangeRequests.   *)
(*                                                                         *)
(* A call is admitted without a lock and decided later, in a transaction   *)
(* that holds the document lock and looks at everything again.  Between    *)
(* the two anyone may act; an answer may be lost, and the agent may repeat *)
(* the call.                                                               *)
(***************************************************************************)
EXTENDS ChangeRequests

CONSTANTS
  Calls,           \* calls in progress at once
  Requests,        \* request identifiers agents choose
  AgentPolicies,   \* the agent policies managers choose from
  AgentEdits,      \* the edits agents propose, like DraftEdits
  MaxCalls         \* calls made in all

VARIABLES
  agentPolicy,     \* project_agent_policy with its revision
  fileAccess,      \* file_agent_policy: "inherit", "read" or "none"
  grant,           \* does the agent's key hold a grant for the project?
  session,         \* was the agent's session issued after the last kill switch?
  call,            \* the calls in progress
  receipt,         \* agent_proposal_receipt, by agent and request
  today,           \* proposals opened by a person's agents since midnight
  staged,          \* how often the edits of a request were stored
  answered,        \* the answers agents were given: agent, request and proposal
  made             \* calls made so far, bounded by MaxCalls

agentVars == <<agentPolicy, fileAccess, grant, session, call, receipt, today,
               staged, answered, made>>
adminVars == <<agentPolicy, fileAccess, grant, session>>

can_propose(pol) == pol.write_mode # "none"
agent_may_submit(pol) ==
  pol.write_mode = "change_request" /\ ~pol.submit_requires_person

\* policy.rs role_allowed: the person an agent acts for has the role agents need.
role_allowed(a) ==
  AtLeast(member_role(principal_id[a]), agentPolicy.min_role)

\* auth/agent.rs verify_current and the checks both looks make.
Reaches(a, writing) ==
  /\ grant[a] /\ session[a]
  /\ agentPolicy.enabled /\ role_allowed(a)
  /\ writing => can_propose(agentPolicy)
  /\ fileAccess # "none"
  /\ writing => fileAccess # "read"

\* A call: the agent, what it wants, and its arguments.  Its digest covers all of
\* them, so two calls have the same digest when they have the same arguments.
NewCall(a, tool, id, n, proposal, e) ==
  [agent |-> a, tool |-> tool, request_id |-> id,
   digest |-> [rev |-> n, proposal |-> proposal, edit |-> e]]

\* routes.rs admit, write.rs propose_call, proposal.rs open: the first look, with
\* no lock held.
admit(c, new) ==
  /\ call[c] = None /\ made < MaxCalls
  /\ Reaches(new.agent, new.tool # "withdraw")
  /\ call' = [call EXCEPT ![c] = new] /\ made' = made + 1
  /\ UNCHANGED <<requestVars, adminVars, receipt, today, staged, answered>>

\* The call ends without a write: refused, timed out, or its connection lost.
give_up(c) ==
  /\ call[c] # None
  /\ call' = [call EXCEPT ![c] = None]
  /\ UNCHANGED <<requestVars, adminVars, receipt, today, staged, answered, made>>

\* A mutant: what the first look found is still taken for true.
verify_write_once(a, writing) == TRUE
\* write.rs verify_write: the second look, under the document lock.
verify_write(a, writing) ==
  Reaches(a, writing) /\ Role(principal_id[a]) \notin {"auditor", None}

Principals == {principal_id[a] : a \in Agents}
\* proposal_use: what the agents of one person have open.
OpenProposals(p) ==
  {d \in Drafts : /\ draft[d] # None /\ draft[d].created_by \in Agents
                  /\ principal_id[draft[d].created_by] = p
                  /\ status(d) = "open"}
budget_left(p) ==
  /\ today[p] < agentPolicy.proposals_per_day
  /\ Cardinality(OpenProposals(p)) < agentPolicy.open_proposals

Stored(a, id, d, digest) ==
  /\ receipt' = [receipt EXCEPT ![a][id] = [draft |-> d, digest |-> digest,
                                            revision |-> draft'[d].revision]]
  /\ staged' = [staged EXCEPT ![a][id] = @ + 1]
  /\ answered' = answered \cup {<<a, id, d>>}

\* A mutant: receipts are written and never looked for.
FoundNone(a, id) == None
\* The receipt of an earlier call with this request identifier.
Found(a, id) == receipt[a][id]

\* find_existing: the agent's own open draft, the one the call extends.
find_existing(a, d) ==
  d # None /\ draft[d] # None /\ draft[d].created_by = a /\ status(d) = "open"

\* stage: the agent's edit put into the content it is based on.
stage(local, g) == [local EXCEPT ![g.edit[1]] = g.edit[2]]

\* write_proposal, a new proposal: a draft of the agent's at revision 1, based on
\* the revision the agent read.
open_proposal(c, d) ==
  LET a == call[c].agent
      g == call[c].digest
  IN /\ verify_write(a, TRUE) /\ Found(a, call[c].request_id) = None
     /\ g.proposal = None /\ budget_left(principal_id[a])
     /\ InsertDraft(d, [NewDraft(a, g.rev) EXCEPT !.revision = 1,
                          !.content_revision = 1, !.local = stage(@, g)])
     /\ Stored(a, call[c].request_id, d, g)
     /\ today' = [today EXCEPT ![principal_id[a]] = @ + 1]
     /\ UNCHANGED lapsed

\* write_proposal with a proposal: the agent adds to its own open draft.
extend_proposal(c) ==
  LET a == call[c].agent
      g == call[c].digest
      d == g.proposal
  IN /\ verify_write(a, TRUE) /\ Found(a, call[c].request_id) = None
     /\ find_existing(a, d)
     /\ audit_lapsed_reviews(d)
     /\ SaveDraft(d, [draft[d] EXCEPT !.local = stage(@, g),
                        !.content_revision = draft[d].revision + 1])
     /\ Stored(a, call[c].request_id, d, g)
     /\ UNCHANGED today

\* A fresh identifier: which of the unused ones it is does not matter.
Unused == CHOOSE d \in Drafts : draft[d] = None

write_proposal(c) ==
  /\ call[c] # None /\ call[c].tool = "propose"
  /\ \/ extend_proposal(c)
     \/ (\E d \in Drafts : draft[d] = None) /\ open_proposal(c, Unused)
  /\ call' = [call EXCEPT ![c] = None]
  /\ UNCHANGED <<accessVars, states, last, reviews, adminVars, made>>

\* The same request again: the stored answer, and nothing is written.  Other
\* arguments under the same request are refused (give_up).
replay(c) ==
  LET found == Found(call[c].agent, call[c].request_id)
  IN /\ call[c] # None /\ call[c].tool = "propose"
     /\ verify_write(call[c].agent, TRUE)
     /\ found # None /\ found.digest = call[c].digest
     /\ answered' = answered \cup {<<call[c].agent, call[c].request_id, found.draft>>}
     /\ call' = [call EXCEPT ![c] = None]
     /\ UNCHANGED <<requestVars, adminVars, receipt, today, staged, made>>

\* proposal.rs submit_call and withdraw_call: the agent's own open proposal.
Own(c, d) == draft[d] # None /\ draft[d].created_by = call[c].agent /\ status(d) = "open"
EndCall(c) == /\ call' = [call EXCEPT ![c] = None]
              /\ UNCHANGED <<adminVars, receipt, today, staged, answered, made>>

submit_call(c, d) ==
  /\ call[c] # None /\ call[c].tool = "submit" /\ call[c].digest.proposal = d
  /\ verify_write(call[c].agent, TRUE) /\ Own(c, d) /\ ~draft[d].submitted
  /\ agent_may_submit(agentPolicy)
  /\ mark_submitted(call[c].agent, d, FALSE)
  /\ EndCall(c) /\ UNCHANGED <<accessVars, states, last, reviews>>

withdraw_call(c, d) ==
  /\ call[c] # None /\ call[c].tool = "withdraw" /\ call[c].digest.proposal = d
  /\ verify_write(call[c].agent, FALSE) /\ Own(c, d)
  /\ draft' = [draft EXCEPT ![d].outcome = "withdrawn"]
  /\ EndCall(c) /\ UNCHANGED <<accessVars, states, last, reviews, lapsed>>

-----------------------------------------------------------------------------
(* agent/manage.rs, and the key holder's grants and sessions *)

progressVars == <<call, receipt, today, staged, answered, made>>
Administer == Change /\ UNCHANGED <<contentVars, owner, granted, rules, floor,
                                   revision, progressVars>>

put_policy(p, wanted, seen) ==
  /\ p \in ProjectManagers /\ seen = agentPolicy.revision
  /\ wanted # [agentPolicy EXCEPT !.revision = 0]
  /\ agentPolicy' = [wanted EXCEPT !.revision = seen + 1]
  /\ Administer /\ UNCHANGED <<fileAccess, grant, session>>

\* Agents off, every grant ended and every session so far refused for good.
kill(p) ==
  /\ p \in ProjectManagers
  /\ agentPolicy' = [agentPolicy EXCEPT !.enabled = FALSE, !.write_mode = "none",
                                        !.revision = @ + 1]
  /\ grant' = [a \in Agents |-> FALSE] /\ session' = [a \in Agents |-> FALSE]
  /\ Administer /\ UNCHANGED fileAccess

Openness == [none |-> 0, read |-> 1, inherit |-> 2]
put_file_policy(p, access) ==
  /\ AtLeast(member_role(p), "manager") /\ access # fileAccess
  /\ Openness[access] > Openness[fileAccess] => p \in ProjectManagers
  /\ fileAccess' = access
  /\ Administer /\ UNCHANGED <<agentPolicy, grant, session>>

\* The key holder grants again, and opens a new session.
grant_again(a) ==
  /\ ~(grant[a] /\ session[a])
  /\ grant' = [grant EXCEPT ![a] = TRUE] /\ session' = [session EXCEPT ![a] = TRUE]
  /\ Administer /\ UNCHANGED <<agentPolicy, fileAccess>>

midnight ==
  /\ \E p \in Principals : today[p] > 0
  /\ today' = [p \in Principals |-> 0]
  /\ Change /\ UNCHANGED <<contentVars, owner, granted, rules, floor, revision,
                           adminVars, call, receipt, staged, answered, made>>

AgentInit ==
  /\ agentPolicy \in AgentPolicies /\ fileAccess = "inherit"
  /\ grant = [a \in Agents |-> TRUE] /\ session = [a \in Agents |-> TRUE]
  /\ call = [c \in Calls |-> None] /\ made = 0 /\ answered = {}
  /\ receipt = [a \in Agents |-> [id \in Requests |-> None]]
  /\ staged = [a \in Agents |-> [id \in Requests |-> 0]]
  /\ today = [p \in Principals |-> 0]

AgentStep ==
  \/ \E c \in Calls, a \in Agents :
       \/ \E id \in Requests, n \in Seen, e \in AgentEdits,
            proposal \in {None} \cup {d \in Drafts : draft[d] # None} :
              admit(c, NewCall(a, "propose", id, n, proposal, e))
       \/ \E d \in Drafts, tool \in {"submit", "withdraw"} :
            /\ draft[d] # None /\ draft[d].created_by = a
            /\ admit(c, NewCall(a, tool, None, 0, d, None))
  \/ \E c \in Calls : write_proposal(c) \/ replay(c) \/ give_up(c)
  \/ \E c \in Calls, d \in Drafts : submit_call(c, d) \/ withdraw_call(c, d)

ManageStep ==
  \/ \E p \in People :
       \/ \E wanted \in AgentPolicies : put_policy(p, wanted, agentPolicy.revision)
       \/ kill(p)
       \/ \E access \in DOMAIN Openness : put_file_policy(p, access)
  \/ \E a \in Agents : grant_again(a)
  \/ midnight

-----------------------------------------------------------------------------
(* Properties *)

\* write_proposal, replay: however often an agent repeats a call, and however its
\* copies interleave, the edits of one request are stored at most once, every
\* answer it gets names the one proposal that holds them, and that proposal is
\* the agent's own.
ProposedOnce ==
  /\ \A a \in Agents, id \in Requests : staged[a][id] <= 1
  /\ \A t \in answered :
       /\ staged[t[1]][t[2]] = 1 /\ receipt[t[1]][t[2]].draft = t[3]
       /\ draft[t[3]].created_by = t[1]
       /\ draft[t[3]].revision >= receipt[t[1]][t[2]].revision

\* verify_write, budget_refusal: a call that was admitted writes only what the
\* grant, the session, the project's policy and the file allow when it writes; and
\* opening a proposal never takes a person's agents past the limits then in force.
AgentWritesAllowed == [][\A c \in Calls, a \in Agents :
  call[c] # None /\ call[c].agent = a /\ call'[c] = None /\ draft' # draft =>
    /\ Reaches(a, call[c].tool # "withdraw")
    /\ today'[principal_id[a]] > today[principal_id[a]] =>
         /\ today'[principal_id[a]] <= agentPolicy.proposals_per_day
         /\ Cardinality(OpenProposals(principal_id[a])') <= agentPolicy.open_proposals
    ]_<<requestVars, agentVars>>


=============================================================================
