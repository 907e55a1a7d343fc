--------------------------- MODULE ProjectHistory ---------------------------
(***************************************************************************)
(* The shared history of one project on the server: account-private        *)
(* staging, explicit publication, branch heads that move by compare and    *)
(* swap, reviews of a candidate, named releases, and audited erasure.      *)
(*                                                                         *)
(* Every handler is one database transaction that first locks the caller's *)
(* account row and then, in authorize, the documents and spaces of its     *)
(* scope.  What it reads before authorize is not protected by those locks, *)
(* so a handler that loads rows first is two actions: Begin holds the      *)
(* account lock and what was loaded, End runs from authorize to the        *)
(* commit.  A refused, timed out or cancelled request rolls back: Refuse.  *)
(***************************************************************************)
EXTENDS Naturals, Sequences, FiniteSets, FiniteSetsExt, Reachability

CONSTANTS
    Accounts, Documents, Branches, Names,
    Commits,       \* signed commits of this project, valid in themselves
    Objects,       \* (document, address) keys of stored objects
    Project,       \* the project space: a place that roles and rules attach to
    Main,          \* the protected branch
    Nobody, NoCommit, NoReview,
    Parents,       \* commit -> ancestry parents
    Sources,       \* commit -> recovery source and mainline
    Files,         \* commit -> state roots of its files
    Below,         \* object -> the objects of the state graph below it
    DocumentOf,    \* object -> its document
    AuthorOf,      \* commit -> the account that enrolled its author_key
    Starts,        \* how a project may start: commits published, roles, rules
    Drafts,        \* commits that clients may stage and publish
    RoleChanges,   \* roles that may be granted
    RuleChoices,   \* review rules that may be set
    Erasable,      \* accounts and documents an administrator may act on
    MaxGeneration, \* bound on the generation of a branch
    MaxReviews     \* bound on recorded reviews

Places == Documents \cup {Project}

(* MemberRole, ordered; 0 is no access.  An owner passes every check here  *)
(* that a manager passes.                                                  *)
Viewer == 1
Contributor == 2
Reviewer == 3
Editor == 4
Manager == 5
Levels == 0..Manager
Policies == [approvals : Nat, owners : BOOLEAN]
Decisions == {"approve", "request_changes"}
Targets ==
    [branch : Branches, candidate : Commits,
     base : [commit : Commits \cup {NoCommit}, generation : Nat]]
Reviews == [target : Targets, reviewer : Accounts, decision : Decisions]

ASSUME HistoryAssumption ==
    /\ IsFiniteSet(Accounts) /\ IsFiniteSet(Documents) /\ IsFiniteSet(Commits)
    /\ Project \notin Documents
    /\ Main \in Branches
    /\ Nobody \notin Accounts
    /\ NoCommit \notin Commits
    /\ NoReview \notin Reviews
    /\ Parents \in [Commits -> SUBSET Commits]
    /\ Sources \in [Commits -> SUBSET Commits]
    /\ Files \in [Commits -> SUBSET Objects]
    /\ Below \in [Objects -> SUBSET Objects]
    /\ \A o \in Objects : o \in Below[o]
    /\ DocumentOf \in [Objects -> Documents]
    /\ \A o \in Objects : \A p \in Below[o] : DocumentOf[p] = DocumentOf[o]
    /\ AuthorOf \in [Commits -> Accounts]
    /\ RoleChanges \subseteq Accounts \X Places \X Levels
    /\ RuleChoices \subseteq Places \X Policies
    /\ Drafts \subseteq Commits
    /\ Erasable \subseteq Accounts \cup Documents
    /\ MaxGeneration \in Nat /\ MaxReviews \in Nat

Dependencies(c) == Parents[c] \cup Sources[c]

(* A commit published at the start brings what it depends on.              *)
ASSUME StartsAssumption ==
    /\ Starts \subseteq [seeded : SUBSET Commits, roles : [Accounts -> [Places -> Levels]],
                         rules : [Places -> Policies]]
    /\ \A s \in Starts : \A c \in s.seeded : Dependencies(c) \subseteq s.seeded

VARIABLES
    accounts,      \* account -> active, disabled or erased
    keys,          \* accounts whose signing key is not revoked
    documents,     \* document -> live, trash or gone
    roles,         \* account -> place -> the role granted there
    rules,         \* place -> review rules
    stagedObjects, \* <<account, object>>: acknowledged private bytes
    stagedCommits, \* <<account, commit>>
    publisher,     \* commit -> who published it, or Nobody
    publishedObjects, \* <<state root, object>>
    events,        \* branch -> the commits it pointed to, oldest first
    reviews,       \* recorded decisions by id; an erased row is NoReview
    releases,      \* release name -> commit
    requests,      \* account -> its request in progress
    serial         \* who holds the project's advisory lock across steps

people == <<accounts, keys, roles, rules>>
private == <<stagedObjects, stagedCommits>>
shared == <<publisher, publishedObjects, events, reviews, releases>>
inflight == <<requests, serial>>
vars == <<people, documents, private, shared, inflight>>

-----------------------------------------------------------------------------
(***************************************************************************)
(* What a commit mentions.                                                 *)
(***************************************************************************)
DocumentsOf(C) == {DocumentOf[o] : o \in UNION {Files[c] : c \in C}}

(* A mutant: a descendant that dropped a file forgets it.                  *)
ScopeOwnFiles(c) == DocumentsOf({c})

(* stage: the files of the commit and of everything it depends on.         *)
Scope(c) ==
    DocumentsOf(Least(Commits, [x \in Commits |-> Dependencies(x)], {c}))

Ancestry(c) == Least(Commits, Parents, {c})
Content(c) == UNION {Below[r] : r \in Files[c]}
Rows(c) == UNION {{r} \X Below[r] : r \in Files[c]}

Published == {c \in Commits : publisher[c] # Nobody}
Newest(log) == log[Len(log)]
HeadOf(b) ==
    [commit |-> IF events[b] = <<>> THEN NoCommit ELSE Newest(events[b]),
     generation |-> Len(events[b])]

-----------------------------------------------------------------------------
(***************************************************************************)
(* Who may do what, as the handlers evaluate it at the moment they ask.    *)
(***************************************************************************)
Active(a) == accounts[a] = "active"
ProjectRole(a) == IF Active(a) THEN roles[a][Project] ELSE 0
MemberRole(a, d) ==
    IF Active(a) /\ documents[d] = "live"
    THEN Max({roles[a][d], roles[a][Project]}) ELSE 0
GovernanceRole(a, d) ==
    IF MemberRole(a, d) >= Manager /\ ProjectRole(a) < Manager
    THEN Editor ELSE MemberRole(a, d)

(* authorize(writing): the project, then every document of the scope.      *)
MayRead(a, scope) ==
    /\ ProjectRole(a) >= Viewer
    /\ \A d \in scope : MemberRole(a, d) >= Viewer
MayWrite(a, scope) ==
    /\ ProjectRole(a) >= Contributor
    /\ \A d \in scope : MemberRole(a, d) >= Contributor

(* rules, Policy::with_floor: a file strengthens the project's rules.      *)
Rules(scope) ==
    LET places == scope \cup {Project}
    IN  [approvals |-> Max({rules[p].approvals : p \in places}),
         owners |-> \E p \in places : rules[p].owners]
CanMerge(policy, role) == role >= Manager \/ (role = Editor /\ ~policy.owners)
MayMerge(a, scope) ==
    /\ CanMerge(Rules(scope), ProjectRole(a))
    /\ \A d \in scope : CanMerge(Rules(scope), GovernanceRole(a, d))

IsReviewer(a, scope) ==
    /\ ProjectRole(a) >= Reviewer
    /\ \A d \in scope : MemberRole(a, d) >= Reviewer

-----------------------------------------------------------------------------
(***************************************************************************)
(* Requests.  Begin takes the account row lock and keeps what was loaded.  *)
(***************************************************************************)
Idle == [op |-> "idle"]
Free(a) == Active(a) /\ requests[a] = Idle
Begin(a, request) == requests' = [requests EXCEPT ![a] = request]
Done(a) == requests' = [requests EXCEPT ![a] = Idle]
Running(a, op) == requests[a] # Idle /\ requests[a].op = op

(* A mutant: a refused release keeps the advisory lock.                    *)
RefuseHoldingSerial(a) ==
    /\ requests[a] # Idle
    /\ Done(a)
    /\ UNCHANGED <<people, documents, private, shared, serial>>

(* Rollback: any refusal, quota, busy answer, lock or statement timeout.   *)
Refuse(a) ==
    /\ requests[a] # Idle
    /\ Done(a)
    /\ serial' = IF serial = a THEN Nobody ELSE serial
    /\ UNCHANGED <<people, documents, private, shared>>

-----------------------------------------------------------------------------
(***************************************************************************)
(* Private staging (project_staging).                                      *)
(***************************************************************************)
Staged(a) == {o \in Objects : <<a, o>> \in stagedObjects}

(* upload: nothing but the caller's own acknowledgements changes.          *)
Upload(a, o) ==
    /\ Free(a)
    /\ MayWrite(a, {DocumentOf[o]})
    /\ <<a, o>> \notin stagedObjects
    /\ stagedObjects' = stagedObjects \cup {<<a, o>>}
    /\ UNCHANGED <<people, documents, stagedCommits, shared, inflight>>

(* stage, up to authorize: each dependency is an own draft or published.   *)
StageBegin(a, c) ==
    /\ Free(a)
    /\ <<a, c>> \notin stagedCommits
    /\ \A d \in Dependencies(c) : <<a, d>> \in stagedCommits \/ d \in Published
    /\ Begin(a, [op |-> "stage", commit |-> c])
    /\ UNCHANGED <<people, documents, private, shared, serial>>
StageEnd(a) ==
    /\ Running(a, "stage")
    /\ LET c == requests[a].commit
       IN  /\ MayWrite(a, Scope(c))
           /\ AuthorOf[c] = a /\ a \in keys
           /\ Content(c) \subseteq Staged(a)
           /\ stagedCommits' = stagedCommits \cup {<<a, c>>}
    /\ Done(a)
    /\ UNCHANGED <<people, documents, stagedObjects, shared, serial>>

-----------------------------------------------------------------------------
(***************************************************************************)
(* Publication (project_history).                                          *)
(***************************************************************************)

(* publish, up to authorize.  A commit already published is only read.     *)
PublishBegin(a, c) ==
    /\ Free(a)
    /\ ProjectRole(a) >= Viewer
    /\ c \notin Published
    /\ <<a, c>> \in stagedCommits
    /\ Begin(a, [op |-> "publish", commit |-> c])
    /\ UNCHANGED <<people, documents, private, shared, serial>>

(* A mutant: a candidate may be published before what it builds on.        *)
PublishableAlone(a, c) == a \in keys /\ Content(c) \subseteq Staged(a)

(* current_key, then every dependency, then the typed graphs.              *)
Publishable(a, c) ==
    /\ a \in keys
    /\ Dependencies(c) \subseteq Published
    /\ Content(c) \subseteq Staged(a)
PublishEnd(a) ==
    /\ Running(a, "publish")
    /\ serial = Nobody
    /\ LET c == requests[a].commit
       IN  /\ MayWrite(a, Scope(c))
           /\ Publishable(a, c)
           /\ c \notin Published  \* the primary key
           /\ publisher' = [publisher EXCEPT ![c] = a]
           /\ publishedObjects' = publishedObjects \cup Rows(c)
    /\ Done(a)
    /\ UNCHANGED <<people, documents, private, events, reviews, releases, serial>>

(* acknowledge: published objects of one file become private input without *)
(* an upload; all of the request or nothing.                               *)
Acknowledge(a, c, S) ==
    /\ Free(a)
    /\ c \in Published
    /\ MayRead(a, Scope(c))
    /\ S # {} /\ \E r \in Files[c] :
          /\ MayWrite(a, {DocumentOf[r]})
          /\ {r} \X S \subseteq publishedObjects
    /\ ~ S \subseteq Staged(a)
    /\ stagedObjects' = stagedObjects \cup {a} \X S
    /\ UNCHANGED <<people, documents, stagedCommits, shared, inflight>>

-----------------------------------------------------------------------------
(***************************************************************************)
(* Branch heads and reviews.  A target is a candidate for one branch over  *)
(* one exact base; the base is what the client last saw.                   *)
(***************************************************************************)
Target(b, c) == [branch |-> b, candidate |-> c, base |-> HeadOf(b)]

(* A mutant: an approval given over another base still counts.             *)
AboutAnyBase(r, t) == r.target.branch = t.branch /\ r.target.candidate = t.candidate

About(r, t) == r.target = t

Recorded == {i \in DOMAIN reviews : reviews[i] # NoReview}

(* latest_reviews: the newest decision of each reviewer about the target.  *)
LatestBy(a, t) ==
    LET mine == {i \in Recorded : reviews[i].reviewer = a /\ About(reviews[i], t)}
    IN  IF mine = {} THEN "none" ELSE reviews[Max(mine)].decision

(* A mutant: any published candidate may follow.                           *)
FollowsAny(before, after) == after \in Published

(* fast_forward: along parents only; a missing commit on the way is an     *)
(* error, never a yes.                                                     *)
FastForward(before, after) ==
    /\ before \in Ancestry(after)
    /\ Ancestry(after) \ Ancestry(before) \subseteq Published

(* advance, up to authorize.                                               *)
AdvanceBegin(a, b, c) ==
    /\ Free(a)
    /\ ProjectRole(a) >= Viewer
    /\ c \in Published
    /\ Begin(a, [op |-> "advance", target |-> Target(b, c)])
    /\ UNCHANGED <<people, documents, private, shared, serial>>

(* The protected branch: current merge rights, no eligible objection, and  *)
(* enough eligible approvals by people other than the publisher.  Locking  *)
(* a reviewer's account row never waits: a busy one refuses the request.   *)
Accepted(a, t) ==
    LET scope == Scope(t.candidate)
        heard == {r \in Accounts \ {publisher[t.candidate]} : LatestBy(r, t) # "none"}
        eligible == {r \in heard : IsReviewer(r, scope)}
    IN  /\ MayMerge(a, scope)
        /\ \A r \in heard \ {a} : requests[r] = Idle
        /\ \A r \in eligible : LatestBy(r, t) = "approve"
        /\ Cardinality(eligible) >= Rules(scope).approvals
AdvanceEnd(a) ==
    /\ Running(a, "advance")
    /\ serial = Nobody
    /\ LET t == requests[a].target
       IN  /\ MayWrite(a, Scope(t.candidate))
           /\ HeadOf(t.branch) = t.base
           /\ t.base.commit # t.candidate
           /\ t.base.generation > 0 => /\ t.base.commit \in Published
                                       /\ FastForward(t.base.commit, t.candidate)
           /\ t.branch = Main => Accepted(a, t)
           /\ t.base.generation < MaxGeneration
           /\ events' = [events EXCEPT ![t.branch] = Append(@, t.candidate)]
    /\ Done(a)
    /\ UNCHANGED <<people, documents, private, publisher, publishedObjects, reviews,
                   releases, serial>>

(* review, up to authorize; then the base must be current and the reviewer *)
(* independent.  An unchanged decision writes nothing.                     *)
ReviewBegin(a, b, c, decision) ==
    /\ Free(a)
    /\ ProjectRole(a) >= Viewer
    /\ c \in Published
    /\ Begin(a, [op |-> "review", target |-> Target(b, c), decision |-> decision])
    /\ UNCHANGED <<people, documents, private, shared, serial>>
ReviewEnd(a) ==
    /\ Running(a, "review")
    /\ serial = Nobody
    /\ LET t == requests[a].target
           decision == requests[a].decision
       IN  /\ MayRead(a, Scope(t.candidate))
           /\ HeadOf(t.branch) = t.base
           /\ publisher[t.candidate] # a
           /\ IsReviewer(a, Scope(t.candidate))
           /\ LatestBy(a, t) # decision
           /\ Len(reviews) < MaxReviews
           /\ reviews' = Append(reviews, [target |-> t, reviewer |-> a, decision |-> decision])
    /\ Done(a)
    /\ UNCHANGED <<people, documents, private, publisher, publishedObjects, events,
                   releases, serial>>

-----------------------------------------------------------------------------
(***************************************************************************)
(* Releases.  This handler takes the project's advisory lock first, and    *)
(* reads the head, the rules and the caller's roles before authorize locks *)
(* the documents and spaces.                                               *)
(***************************************************************************)

(* A mutant: any published commit may be named.                            *)
ReleasableAny(c) == c \in Published

Releasable(c) == c \in Published /\ c = HeadOf(Main).commit
ReleaseBegin(a, n, c) ==
    /\ Free(a)
    /\ ProjectRole(a) >= Viewer
    /\ serial = Nobody
    /\ Releasable(c)
    /\ MayMerge(a, Scope(c))
    /\ serial' = a
    /\ Begin(a, [op |-> "release", name |-> n, commit |-> c])
    /\ UNCHANGED <<people, documents, private, shared>>
ReleaseEnd(a) ==
    /\ Running(a, "release")
    /\ LET n == requests[a].name
           c == requests[a].commit
       IN  /\ MayRead(a, Scope(c))
           /\ releases[n] = NoCommit
           /\ releases' = [releases EXCEPT ![n] = c]
    /\ Done(a)
    /\ serial' = Nobody
    /\ UNCHANGED <<people, documents, private, publisher, publishedObjects, events, reviews>>

-----------------------------------------------------------------------------
(***************************************************************************)
(* Sharing, rules and administration.  Each locks the rows it changes: an  *)
(* account is never changed under its own request in progress.             *)
(***************************************************************************)
SetRole(a, p, level) ==
    /\ <<a, p, level>> \in RoleChanges
    /\ accounts[a] # "erased"
    /\ roles' = [roles EXCEPT ![a][p] = level]
    /\ UNCHANGED <<accounts, keys, rules, documents, private, shared, inflight>>
SetRules(p, policy) ==
    /\ <<p, policy>> \in RuleChoices
    /\ p = Project \/ documents[p] # "gone"
    /\ rules' = [rules EXCEPT ![p] = policy]
    /\ UNCHANGED <<accounts, keys, roles, documents, private, shared, inflight>>
RevokeKey(a) ==
    /\ Free(a)
    /\ a \in keys
    /\ keys' = keys \ {a}
    /\ UNCHANGED <<accounts, roles, rules, documents, private, shared, inflight>>

(* action(documents): Trash and back.                                      *)
TrashDocument(d) ==
    /\ documents[d] # "gone"
    /\ documents' = [documents EXCEPT ![d] = IF @ = "live" THEN "trash" ELSE "live"]
    /\ UNCHANGED <<people, private, shared, inflight>>

(* erase_one(documents) with its triggers: every row whose scope mentions  *)
(* the document goes; branch events stay.                                  *)
EraseDocument(d) ==
    LET doomed == {c \in Commits : d \in Scope(c)}
    IN  /\ documents[d] # "gone"
        /\ documents' = [documents EXCEPT ![d] = "gone"]
        /\ stagedCommits' = {x \in stagedCommits : x[2] \notin doomed}
        /\ stagedObjects' = {x \in stagedObjects : DocumentOf[x[2]] # d}
        /\ publisher' = [c \in Commits |-> IF c \in doomed THEN Nobody ELSE publisher[c]]
        /\ publishedObjects' = {x \in publishedObjects : DocumentOf[x[2]] # d}
        /\ reviews' = [i \in DOMAIN reviews |->
                         IF i \in Recorded /\ reviews[i].target.candidate \in doomed
                         THEN NoReview ELSE reviews[i]]
        /\ releases' = [n \in Names |-> IF releases[n] \in doomed THEN NoCommit ELSE releases[n]]
        /\ UNCHANGED <<people, events, inflight>>

(* A mutant: removal does not wait for the account row.                    *)
DisableAnyTime(a) ==
    /\ accounts[a] # "erased"
    /\ accounts' = [accounts EXCEPT ![a] = IF @ = "active" THEN "disabled" ELSE "active"]
    /\ keys' = keys \ {a}
    /\ UNCHANGED <<roles, rules, documents, private, shared, inflight>>

(* action(users): removal revokes every key for good; restoring the        *)
(* account does not bring them back.                                       *)
DisableAccount(a) ==
    /\ requests[a] = Idle
    /\ accounts[a] # "erased"
    /\ accounts' = [accounts EXCEPT ![a] = IF @ = "active" THEN "disabled" ELSE "active"]
    /\ keys' = keys \ {a}
    /\ UNCHANGED <<roles, rules, documents, private, shared, inflight>>

(* erase_one(users): private history goes, published history stays.        *)
EraseAccount(a) ==
    /\ requests[a] = Idle
    /\ accounts[a] = "disabled"
    /\ accounts' = [accounts EXCEPT ![a] = "erased"]
    /\ roles' = [roles EXCEPT ![a] = [p \in Places |-> 0]]
    /\ stagedCommits' = {x \in stagedCommits : x[1] # a}
    /\ stagedObjects' = {x \in stagedObjects : x[1] # a}
    /\ UNCHANGED <<keys, rules, documents, shared, inflight>>

-----------------------------------------------------------------------------
Init ==
    /\ accounts = [a \in Accounts |-> "active"]
    /\ keys = Accounts
    /\ documents = [d \in Documents |-> "live"]
    /\ \E s \in Starts :
         /\ roles = s.roles
         /\ rules = s.rules
         /\ publisher = [c \in Commits |-> IF c \in s.seeded THEN AuthorOf[c] ELSE Nobody]
         /\ publishedObjects = UNION {Rows(c) : c \in s.seeded}
    /\ stagedObjects = {}
    /\ stagedCommits = {}
    /\ events = [b \in Branches |-> <<>>]
    /\ reviews = <<>>
    /\ releases = [n \in Names |-> NoCommit]
    /\ requests = [a \in Accounts |-> Idle]
    /\ serial = Nobody

Staging ==
    \E a \in Accounts :
        \/ \E c \in Drafts : (\E o \in Content(c) : Upload(a, o)) \/ StageBegin(a, c)
        \/ StageEnd(a)
Publication ==
    \E a \in Accounts :
        \/ \E c \in Drafts : PublishBegin(a, c)
        \/ PublishEnd(a)
        \/ \E c \in Drafts : \E S \in SUBSET Content(c) : Acknowledge(a, c, S)
Review ==
    \E a \in Accounts :
        \/ \E b \in Branches, c \in Commits, d \in Decisions : ReviewBegin(a, b, c, d)
        \/ ReviewEnd(a)
Advance ==
    \E a \in Accounts :
        \/ \E b \in Branches, c \in Commits : AdvanceBegin(a, b, c)
        \/ AdvanceEnd(a)
Release ==
    \E a \in Accounts :
        \/ \E n \in Names, c \in Commits : ReleaseBegin(a, n, c)
        \/ ReleaseEnd(a)
Administration ==
    \/ \E a \in Accounts, p \in Places, level \in Levels : SetRole(a, p, level)
    \/ \E choice \in RuleChoices : SetRules(choice[1], choice[2])
    \/ \E d \in Documents \cap Erasable : TrashDocument(d) \/ EraseDocument(d)
    \/ \E a \in Accounts \cap Erasable :
           RevokeKey(a) \/ DisableAccount(a) \/ EraseAccount(a)

Next ==
    \/ \E a \in Accounts : Refuse(a)
    \/ Staging
    \/ Publication
    \/ Review
    \/ Advance
    \/ Release
    \/ Administration

Spec == Init /\ [][Next]_vars

-----------------------------------------------------------------------------
(***************************************************************************)
(* Properties.                                                             *)
(***************************************************************************)
Requests ==
    {Idle}
    \cup [op : {"stage", "publish"}, commit : Commits]
    \cup [op : {"advance"}, target : Targets]
    \cup [op : {"review"}, target : Targets, decision : Decisions]
    \cup [op : {"release"}, name : Names, commit : Commits]

(* The state of the tables and of the requests in progress; the lock on    *)
(* its account row keeps an account active while a request of its runs.    *)
TypeOK ==
    /\ accounts \in [Accounts -> {"active", "disabled", "erased"}]
    /\ keys \subseteq Accounts
    /\ documents \in [Documents -> {"live", "trash", "gone"}]
    /\ roles \in [Accounts -> [Places -> Levels]]
    /\ rules \in [Places -> Policies]
    /\ stagedObjects \subseteq Accounts \X Objects
    /\ stagedCommits \subseteq Accounts \X Commits
    /\ publisher \in [Commits -> Accounts \cup {Nobody}]
    /\ publishedObjects \subseteq Objects \X Objects
    /\ events \in [Branches -> Seq(Commits)]
    /\ reviews \in Seq(Reviews \cup {NoReview})
    /\ releases \in [Names -> Commits \cup {NoCommit}]
    /\ requests \in [Accounts -> Requests]
    /\ \A a \in Accounts : requests[a] # Idle => Active(a)
    /\ serial \in {Nobody} \cup {a \in Accounts : Running(a, "release")}

(* A published commit can be read in full: all it depends on is published  *)
(* and every object below its files is a published row.  Publication reads *)
(* before it locks and erasure deletes behind it, so this needs scopes to  *)
(* be transitive.                                                          *)
HistoryClosed ==
    \A c \in Published :
        /\ Dependencies(c) \subseteq Published
        /\ Rows(c) \subseteq publishedObjects

(* Erasing a document leaves no row that mentions it, in any account's     *)
(* staging or in the shared history, and no request that was under way     *)
(* brings one back; a removed account keeps no private history.            *)
ErasedIsGone ==
    /\ \A d \in Documents : documents[d] = "gone" =>
         LET mention == {c \in Commits : \E x \in Commits :
                            /\ d \in DocumentsOf({x})
                            /\ c = x \/ x \in Ancestry(c) \/
                               \E y \in Ancestry(c) : x \in Sources[y]}
         IN  /\ Published \cap mention = {}
             /\ \A x \in stagedCommits : x[2] \notin mention
             /\ \A x \in stagedObjects : DocumentOf[x[2]] # d
             /\ \A x \in publishedObjects : DocumentOf[x[2]] # d
             /\ \A i \in Recorded : reviews[i].target.candidate \notin mention
             /\ \A n \in Names : releases[n] \notin mention
    /\ \A a \in Accounts : accounts[a] = "erased" =>
         \A x \in stagedObjects \cup stagedCommits : x[1] # a

(* Shared branches only fast-forward: a branch never loses an event, not   *)
(* even to erasure, moves one generation at a time, and to a commit that   *)
(* descends from the head it had.                                          *)
FastForwardOnly ==
    [][\A b \in Branches : events'[b] # events[b] =>
        /\ Len(events'[b]) = Len(events[b]) + 1
        /\ SubSeq(events'[b], 1, Len(events[b])) = events[b]
        /\ events[b] # <<>> => Newest(events[b]) \in Ancestry(Newest(events'[b]))]_vars

(* Protected main accepts a candidate only with the approvals its rules    *)
(* ask for at that moment: of people other than the publisher who may      *)
(* still review all of it, about this candidate over this head, with no    *)
(* such person's objection standing.                                       *)
ReviewedMain ==
    [][events'[Main] # events[Main] =>
        LET c == Newest(events'[Main])
            says(a, decision) == \E i \in Recorded :
                /\ reviews[i].reviewer = a
                /\ reviews[i].decision = decision
                /\ reviews[i].target = [branch |-> Main, candidate |-> c, base |-> HeadOf(Main)]
                /\ \A j \in Recorded \cap (i + 1 .. Len(reviews)) :
                     reviews[j].reviewer # a \/ reviews[j].target # reviews[i].target
            peers == {a \in Accounts \ {AuthorOf[c]} : IsReviewer(a, Scope(c))}
        IN  /\ \A a \in peers : ~says(a, "request_changes")
            /\ \A p \in Scope(c) \cup {Project} :
                 Cardinality({a \in peers : says(a, "approve")}) >= rules[p].approvals]_vars

(* A release names a commit that protected main accepted, and it is        *)
(* readable for as long as the release exists.                             *)
ReleasesAccepted ==
    \A n \in Names : releases[n] # NoCommit =>
        /\ releases[n] \in Published
        /\ \E i \in DOMAIN events[Main] : events[Main][i] = releases[n]

(* The shared history at every moment, between and inside requests: tables *)
(* of the right shape, published commits readable in full, and releases    *)
(* that name accepted ones.                                                *)
HistorySound == TypeOK /\ HistoryClosed /\ ReleasesAccepted
=============================================================================
