------------------------ MODULE ProjectHistory_lemmas ------------------------
(***************************************************************************)
(* The shared history of a project, for any accounts, documents, branches, *)
(* commit graph, starts and bounds.                                        *)
(***************************************************************************)
EXTENDS ProjectHistory, Reachability_proofs, FiniteSetTheorems

(* What a commit depends on, directly or not, and itself.                  *)
Reach(c) == Least(Commits, [x \in Commits |-> Dependencies(x)], {c})

(* Some document that the commit or its past mentions has been erased.     *)
Lost(c) == \E d \in Scope(c) : documents[d] = "gone"

(* Nothing that is stored is lost, and nothing is stored for an erased     *)
(* account.                                                                *)
StoreClean ==
    /\ \A c \in Published : ~Lost(c)
    /\ \A x \in stagedCommits : ~Lost(x[2])
    /\ \A x \in stagedObjects : documents[DocumentOf[x[2]]] # "gone"
    /\ \A x \in publishedObjects : documents[DocumentOf[x[2]]] # "gone"
    /\ \A i \in Recorded : ~Lost(reviews[i].target.candidate)
    /\ \A n \in Names : releases[n] # NoCommit => ~Lost(releases[n])
    /\ \A a \in Accounts : accounts[a] = "erased" =>
         \A x \in stagedObjects \cup stagedCommits : x[1] # a

(* Commits are staged and published by their author only.                  *)
Authored ==
    /\ \A x \in stagedCommits : AuthorOf[x[2]] = x[1]
    /\ \A c \in Published : publisher[c] = AuthorOf[c]
    /\ \A a \in Accounts : Running(a, "publish") => AuthorOf[requests[a].commit] = a

(* What a request loaded before the locks is there, or was erased since.   *)
Loaded ==
    \A a \in Accounts :
        /\ Running(a, "advance") \/ Running(a, "review") =>
             requests[a].target.candidate \in Published \/ Lost(requests[a].target.candidate)
        /\ Running(a, "release") =>
             /\ requests[a].commit \in Published \/ Lost(requests[a].commit)
             /\ \E i \in DOMAIN events[Main] : events[Main][i] = requests[a].commit

(* The inductive invariant.                                                *)
IInv ==
    /\ TypeOK /\ HistoryClosed /\ ReleasesAccepted
    /\ StoreClean /\ Authored /\ Loaded

-----------------------------------------------------------------------------
(* Scopes are transitive.                                                  *)
-----------------------------------------------------------------------------

(* The walk over dependencies holds its start and follows every commit.    *)
LEMMA ReachCloses ==
    ASSUME NEW c \in Commits
    PROVE  /\ c \in Reach(c) /\ Reach(c) \subseteq Commits
           /\ \A x \in Reach(c) : Dependencies(x) \subseteq Reach(c)
<1> DEFINE g == [x \in Commits |-> Dependencies(x)]
<1>1. c \in Reach(c)
  BY LeastHasRoots DEF Reach
<1>2. Reach(c) \subseteq Commits
  BY DEF Reach, Least
<1>3. ASSUME NEW x \in Reach(c), NEW y \in Dependencies(x) PROVE y \in Reach(c)
  <2>1. x \in Commits /\ y \in Commits
    BY <1>2, HistoryAssumption DEF Dependencies
  <2>2. y \in g[x]
    BY <2>1
  <2> QED
    BY <2>1, <2>2, LeastFollows DEF Reach
<1> QED
  BY <1>1, <1>2, <1>3

(* It visits no more than it has to.                                       *)
LEMMA ReachIsLeast ==
    ASSUME NEW c \in Commits, NEW V \in SUBSET Commits, c \in V,
           \A x \in V : Dependencies(x) \subseteq V
    PROVE  Reach(c) \subseteq V
  BY DEF Reach, Least, Closed

(* Ancestry, and the sources of ancestors, are within the walk.            *)
LEMMA AncestryReached ==
    ASSUME NEW c \in Commits
    PROVE  Ancestry(c) \subseteq Reach(c)
<1> DEFINE g == [x \in Commits |-> Dependencies(x)]
<1>1. \A x \in Commits : Parents[x] \subseteq g[x]
  BY HistoryAssumption DEF Dependencies
<1> HIDE DEF g
<1> QED
  BY <1>1, LeastGrows DEF Reach, Ancestry, g

(* The documents of all it visits are its scope.                           *)
LEMMA ScopeHolds ==
    ASSUME NEW c \in Commits, NEW x \in Reach(c), NEW o \in Files[x]
    PROVE  DocumentOf[o] \in Scope(c)
  BY DEF Scope, DocumentsOf, Reach

(* A scope names documents only.                                           *)
LEMMA ScopeIsDocuments ==
    ASSUME NEW c \in Commits
    PROVE  Scope(c) \subseteq Documents
<1>1. Reach(c) \subseteq Commits
  BY ReachCloses
<1> QED
  <2> SUFFICES ASSUME NEW d \in Scope(c) PROVE d \in Documents
    OBVIOUS
  <2>1. PICK o \in UNION {Files[x] : x \in Reach(c)} : d = DocumentOf[o]
    BY DEF Scope, DocumentsOf, Reach
  <2>2. o \in Objects
    BY <1>1, <2>1, HistoryAssumption
  <2> QED
    BY <2>1, <2>2, HistoryAssumption

(* A commit's scope holds those of the commits it depends on.              *)
LEMMA ScopeGrows ==
    ASSUME NEW c \in Commits, NEW e \in Dependencies(c)
    PROVE  Scope(e) \subseteq Scope(c)
<1>1. /\ c \in Reach(c) /\ Reach(c) \in SUBSET Commits
      /\ \A x \in Reach(c) : Dependencies(x) \subseteq Reach(c)
  BY ReachCloses
<1>2. e \in Reach(c) /\ e \in Commits
  BY <1>1
<1>3. Reach(e) \subseteq Reach(c)
  BY <1>1, <1>2, ReachIsLeast
<1> QED
  BY <1>3, Zenon DEF Scope, DocumentsOf, Reach

(* The objects below a file belong to its document.                        *)
LEMMA RowsInScope ==
    ASSUME NEW c \in Commits, NEW x \in Rows(c)
    PROVE  /\ x \in Objects \X Objects
           /\ x[1] \in Files[c] /\ x[2] \in Content(c)
           /\ DocumentOf[x[2]] \in Scope(c) /\ DocumentOf[x[2]] \in Documents
<1>1. PICK r \in Files[c] : x \in {r} \X Below[r]
  BY DEF Rows
<1>2. r \in Objects /\ x[1] = r /\ x[2] \in Below[r] /\ x[2] \in Objects /\ x = <<x[1], x[2]>>
  BY <1>1, HistoryAssumption
<1>3. DocumentOf[x[2]] = DocumentOf[r] /\ DocumentOf[r] \in Documents
  BY <1>2, HistoryAssumption
<1>4. DocumentOf[r] \in Scope(c)
  BY <1>1, ReachCloses, ScopeHolds
<1> QED
  BY <1>1, <1>2, <1>3, <1>4 DEF Content

(* The same for the objects of its content.                                *)
LEMMA ContentInScope ==
    ASSUME NEW c \in Commits, NEW o \in Content(c)
    PROVE  o \in Objects /\ DocumentOf[o] \in Scope(c) /\ DocumentOf[o] \in Documents
<1>1. PICK r \in Files[c] : o \in Below[r]
  BY DEF Content
<1>2. r \in Objects /\ o \in Objects /\ DocumentOf[o] = DocumentOf[r] /\ DocumentOf[r] \in Documents
  BY <1>1, HistoryAssumption
<1>3. DocumentOf[r] \in Scope(c)
  BY <1>1, ReachCloses, ScopeHolds
<1> QED
  BY <1>2, <1>3

(* A scope that a member may read, write or review holds no erased         *)
(* document: authorize asks for a role on every one of them.               *)
LEMMA AllowedIsThere ==
    ASSUME NEW a, NEW scope,
           MayRead(a, scope) \/ MayWrite(a, scope)
    PROVE  \A d \in scope : documents[d] # "gone"
<1> SUFFICES ASSUME NEW d \in scope, documents[d] = "gone" PROVE FALSE
  OBVIOUS
<1>1. MemberRole(a, d) = 0
  BY DEF MemberRole
<1>2. MemberRole(a, d) >= 1 \/ MemberRole(a, d) >= 2
  BY DEF MayRead, MayWrite, Viewer, Contributor
<1> QED
  BY <1>1, <1>2

-----------------------------------------------------------------------------
(* Types.                                                                  *)
-----------------------------------------------------------------------------

(* The tables, and the requests in progress with the lock they hold.       *)
TablesTyped ==
    /\ accounts \in [Accounts -> {"active", "disabled", "erased"}]
    /\ keys \subseteq Accounts
    /\ documents \in [Documents -> {"live", "trash", "gone"}]
    /\ roles \in [Accounts -> [Places -> Levels]]
    /\ rules \in [Places -> Policies]
    /\ stagedObjects \subseteq Accounts \X Objects
    /\ stagedCommits \subseteq Accounts \X Commits
    /\ publisher \in [Commits -> Accounts \cup {Nobody}]
    /\ publishedObjects \subseteq Objects \X Objects
    /\ events \in [Branches -> Seq(Commits)]
    /\ reviews \in Seq(Reviews \cup {NoReview})
    /\ releases \in [Names -> Commits \cup {NoCommit}]
RequestsTyped ==
    /\ requests \in [Accounts -> Requests]
    /\ \A a \in Accounts : requests[a] # Idle => Active(a)
    /\ serial \in {Nobody} \cup {a \in Accounts : Running(a, "release")}

(* TypeOK in two parts.                                                    *)
LEMMA TypeParts == TypeOK <=> TablesTyped /\ RequestsTyped
  BY DEF TypeOK, TablesTyped, RequestsTyped
(* The same after a step.                                                  *)
LEMMA TypePartsNext == TypeOK' <=> TablesTyped' /\ RequestsTyped'
  BY DEF TypeOK, TablesTyped, RequestsTyped

(* What a request in progress holds.                                       *)
LEMMA RequestFields ==
    ASSUME RequestsTyped, NEW a \in Accounts
    PROVE  /\ Running(a, "stage") \/ Running(a, "publish") => requests[a].commit \in Commits
           /\ Running(a, "advance") \/ Running(a, "review") => requests[a].target \in Targets
           /\ Running(a, "review") => requests[a].decision \in Decisions
           /\ Running(a, "release") => requests[a].commit \in Commits /\ requests[a].name \in Names
<1>1. requests[a] \in Requests
  BY DEF RequestsTyped
<1> QED
  BY <1>1 DEF Running, Requests, Idle

(* A request ends and gives back the lock it may hold.                     *)
LEMMA RequestEnds ==
    ASSUME RequestsTyped, NEW a \in Accounts, Done(a), UNCHANGED accounts,
           serial' = Nobody \/ (serial' = serial /\ serial # a)
    PROVE  RequestsTyped'
<1>1. requests' = [requests EXCEPT ![a] = Idle] /\ Idle \in Requests
  BY DEF Done, Requests
<1>2. requests' \in [Accounts -> Requests]
  BY <1>1 DEF RequestsTyped
<1>3. ASSUME NEW b \in Accounts, requests'[b] # Idle PROVE Active(b)'
  <2>1. requests'[b] = requests[b] /\ b # a
    BY <1>1, <1>3 DEF RequestsTyped
  <2> QED
    BY <1>3, <2>1 DEF RequestsTyped, Active
<1>4. serial' \in {Nobody} \cup {b \in Accounts : Running(b, "release")'}
  BY <1>1 DEF RequestsTyped, Running
<1> QED
  BY <1>2, <1>3, <1>4 DEF RequestsTyped

(* A request begins, for an account that had none.                         *)
LEMMA RequestBegins ==
    ASSUME RequestsTyped, NEW a \in Accounts, Free(a), UNCHANGED accounts,
           NEW q \in Requests, q # Idle, Begin(a, q),
           serial' = serial \/ (serial' = a /\ q.op = "release")
    PROVE  RequestsTyped'
<1>1. requests' = [requests EXCEPT ![a] = q]
  BY DEF Begin
<1>2. requests' \in [Accounts -> Requests]
  BY <1>1 DEF RequestsTyped
<1>3. ASSUME NEW b \in Accounts, requests'[b] # Idle PROVE Active(b)'
  <2>1. b = a \/ requests'[b] = requests[b]
    BY <1>1 DEF RequestsTyped
  <2> QED
    BY <1>3, <2>1 DEF RequestsTyped, Active, Free
<1>4. serial' \in {Nobody} \cup {b \in Accounts : Running(b, "release")'}
  BY <1>1 DEF RequestsTyped, Running, Free
<1> QED
  BY <1>2, <1>3, <1>4 DEF RequestsTyped

(* A step that moves no request and no account.                            *)
LEMMA RequestsStay ==
    ASSUME RequestsTyped, UNCHANGED <<requests, serial>>,
           \A a \in Accounts : Active(a) /\ requests[a] # Idle => Active(a)'
    PROVE  RequestsTyped'
  BY DEF RequestsTyped, Running

(* The head of a branch is a commit and a generation.                      *)
LEMMA HeadTyped ==
    ASSUME TablesTyped, NEW b \in Branches
    PROVE  /\ HeadOf(b) \in [commit : Commits \cup {NoCommit}, generation : Nat]
           /\ events[b] # <<>> => HeadOf(b).commit = events[b][Len(events[b])]
           /\ HeadOf(b).generation = Len(events[b])
<1>1. events[b] \in Seq(Commits)
  BY DEF TablesTyped
<1>2. events[b] # <<>> => Len(events[b]) \in 1 .. Len(events[b])
  BY <1>1
<1> QED
  BY <1>1, <1>2 DEF HeadOf, Newest

(* A target read now is well formed.                                       *)
LEMMA TargetTyped ==
    ASSUME TablesTyped, NEW b \in Branches, NEW c \in Commits
    PROVE  Target(b, c) \in Targets
  BY HeadTyped DEF Target, Targets

-----------------------------------------------------------------------------
(* The tables stay well typed, action by action.                           *)
LEMMA InitTypes == Init => TypeOK
<1> SUFFICES ASSUME Init PROVE TypeOK
  OBVIOUS
<1>1. PICK s \in Starts :
         /\ roles = s.roles /\ rules = s.rules
         /\ publisher = [c \in Commits |-> IF c \in s.seeded THEN AuthorOf[c] ELSE Nobody]
         /\ publishedObjects = UNION {Rows(c) : c \in s.seeded}
  BY DEF Init
<1>2. /\ s.roles \in [Accounts -> [Places -> Levels]] /\ s.rules \in [Places -> Policies]
      /\ s.seeded \subseteq Commits
  BY StartsAssumption
<1>3. publishedObjects \subseteq Objects \X Objects
  BY <1>1, <1>2, RowsInScope
<1>4. publisher \in [Commits -> Accounts \cup {Nobody}]
  BY <1>1, <1>2, HistoryAssumption
<1>5. events \in [Branches -> Seq(Commits)] /\ reviews \in Seq(Reviews \cup {NoReview})
  BY DEF Init
<1>6. TablesTyped
  BY <1>1, <1>2, <1>3, <1>4, <1>5 DEF Init, TablesTyped
<1>7. RequestsTyped
  BY DEF Init, RequestsTyped, Requests, Active, Running
<1> QED
  BY <1>6, <1>7, TypeParts

(* A refused request leaves every table as it is.                          *)
LEMMA RefuseTypes ==
    ASSUME TypeOK, NEW a \in Accounts, Refuse(a)
    PROVE  TypeOK'
<1>1. TablesTyped'
  BY TypeParts DEF TablesTyped, Refuse, people, private, shared
<1>2. RequestsTyped'
  BY TypeParts, RequestEnds DEF Refuse, people
<1> QED
  BY <1>1, <1>2, TypePartsNext

(* Staging and discarding objects and commits keeps the types.             *)
LEMMA StagingTypes ==
    ASSUME TypeOK, Staging
    PROVE  TypeOK'
<1>0. TablesTyped /\ RequestsTyped
  BY TypeParts
<1>1. ASSUME NEW a \in Accounts, NEW c \in Drafts, NEW o \in Content(c), Upload(a, o)
      PROVE  TypeOK'
  <2>1. o \in Objects
    BY ContentInScope, HistoryAssumption
  <2>2. TablesTyped'
    BY <1>0, <1>1, <2>1 DEF TablesTyped, Upload, people, shared
  <2>3. RequestsTyped'
    BY <1>0, <1>1, RequestsStay DEF Upload, people, inflight, Active
  <2> QED
    BY <2>2, <2>3, TypePartsNext
<1>2. ASSUME NEW a \in Accounts, NEW c \in Drafts, StageBegin(a, c) PROVE TypeOK'
  <2>1. TablesTyped'
    BY <1>0, <1>2 DEF TablesTyped, StageBegin, people, private, shared
  <2>2. [op |-> "stage", commit |-> c] \in Requests /\ [op |-> "stage", commit |-> c] # Idle
    BY HistoryAssumption, SMTT(30) DEF Requests, Idle
  <2>3. RequestsTyped'
    BY <1>0, <1>2, <2>2, RequestBegins DEF StageBegin, people
  <2> QED
    BY <2>1, <2>3, TypePartsNext
<1>3. ASSUME NEW a \in Accounts, StageEnd(a) PROVE TypeOK'
  <2>1. requests[a].commit \in Commits /\ serial # a
    BY <1>0, <1>3, RequestFields, HistoryAssumption DEF StageEnd, RequestsTyped, Running
  <2>2. TablesTyped'
    <3>1. /\ stagedCommits \subseteq Accounts \X Commits
          /\ stagedCommits' = stagedCommits \cup {<<a, requests[a].commit>>}
      BY <1>0, <1>3, Zenon DEF TablesTyped, StageEnd
    <3>2. stagedCommits' \subseteq Accounts \X Commits
      BY <2>1, <3>1
    <3> QED
      BY <1>0, <1>3, <3>2, Zenon DEF TablesTyped, StageEnd, people, shared
  <2>3. RequestsTyped'
    BY <1>0, <1>3, <2>1, RequestEnds, Zenon DEF StageEnd, people
  <2> QED
    BY <2>2, <2>3, TypePartsNext
<1> QED
  BY <1>1, <1>2, <1>3 DEF Staging

(* So does publication, begun and ended.                                   *)
LEMMA PublicationTypes ==
    ASSUME TypeOK, Publication
    PROVE  TypeOK'
<1>0. TablesTyped /\ RequestsTyped
  BY TypeParts
<1>1. ASSUME NEW a \in Accounts, NEW c \in Drafts, PublishBegin(a, c) PROVE TypeOK'
  <2>1. TablesTyped'
    BY <1>0, <1>1 DEF TablesTyped, PublishBegin, people, private, shared
  <2>2. [op |-> "publish", commit |-> c] \in Requests /\ [op |-> "publish", commit |-> c] # Idle
    BY HistoryAssumption DEF Requests, Idle
  <2>3. RequestsTyped'
    BY <1>0, <1>1, <2>2, RequestBegins DEF PublishBegin, people
  <2> QED
    BY <2>1, <2>3, TypePartsNext
<1>2. ASSUME NEW a \in Accounts, PublishEnd(a) PROVE TypeOK'
  <2>1. requests[a].commit \in Commits /\ serial # a
    BY <1>0, <1>2, RequestFields, HistoryAssumption, Zenon DEF PublishEnd
  <2>2. Rows(requests[a].commit) \subseteq Objects \X Objects
    BY <2>1, RowsInScope
  <2>3. TablesTyped'
    <3>1. /\ publisher \in [Commits -> Accounts \cup {Nobody}]
          /\ publishedObjects \subseteq Objects \X Objects
          /\ publisher' = [publisher EXCEPT ![requests[a].commit] = a]
          /\ publishedObjects' = publishedObjects \cup Rows(requests[a].commit)
      BY <1>0, <1>2, Zenon DEF TablesTyped, PublishEnd
    <3>2. /\ publisher' \in [Commits -> Accounts \cup {Nobody}]
          /\ publishedObjects' \subseteq Objects \X Objects
      BY <2>1, <2>2, <3>1
    <3> QED
      BY <1>0, <1>2, <3>2, Zenon DEF TablesTyped, PublishEnd, people, private
  <2>4. RequestsTyped'
    BY <1>0, <1>2, <2>1, RequestEnds DEF PublishEnd, people
  <2> QED
    BY <2>3, <2>4, TypePartsNext
<1>3. ASSUME NEW a \in Accounts, NEW c \in Drafts, NEW S \in SUBSET Content(c),
             Acknowledge(a, c, S)
      PROVE  TypeOK'
  <2>1. S \subseteq Objects
    BY ContentInScope, HistoryAssumption
  <2>2. TablesTyped'
    <3>1. /\ stagedObjects \subseteq Accounts \X Objects
          /\ stagedObjects' = stagedObjects \cup ({a} \X S)
      BY <1>0, <1>3, Zenon DEF TablesTyped, Acknowledge
    <3>2. stagedObjects' \subseteq Accounts \X Objects
      BY <2>1, <3>1
    <3> QED
      BY <1>0, <1>3, <3>2, Zenon DEF TablesTyped, Acknowledge, people, shared
  <2>3. RequestsTyped'
    BY <1>0, <1>3, RequestsStay, Zenon DEF Acknowledge, people, inflight, Active
  <2> QED
    BY <2>2, <2>3, TypePartsNext
<1> QED
  BY <1>1, <1>2, <1>3 DEF Publication

(* So does recording a decision on the head the request has loaded.        *)
LEMMA ReviewTypes ==
    ASSUME TypeOK, Review
    PROVE  TypeOK'
<1>0. TablesTyped /\ RequestsTyped
  BY TypeParts
<1>1. ASSUME NEW a \in Accounts, NEW b \in Branches, NEW c \in Commits, NEW d \in Decisions,
             ReviewBegin(a, b, c, d)
      PROVE  TypeOK'
  <2> DEFINE q == [op |-> "review", target |-> Target(b, c), decision |-> d]
  <2>1. TablesTyped'
    BY <1>0, <1>1 DEF TablesTyped, ReviewBegin, people, private, shared
  <2>2. q \in Requests /\ q # Idle
    BY <1>0, TargetTyped, SMTT(30) DEF Requests, Idle
  <2>3. RequestsTyped'
    BY <1>0, <1>1, <2>2, RequestBegins DEF ReviewBegin, people
  <2> QED
    BY <2>1, <2>3, TypePartsNext
<1>2. ASSUME NEW a \in Accounts, ReviewEnd(a) PROVE TypeOK'
  <2>1. requests[a].target \in Targets /\ requests[a].decision \in Decisions /\ serial # a
    BY <1>0, <1>2, RequestFields, HistoryAssumption, Zenon DEF ReviewEnd
  <2>2. reviews' \in Seq(Reviews \cup {NoReview})
    <3> DEFINE r == [target |-> requests[a].target, reviewer |-> a,
                     decision |-> requests[a].decision]
    <3>1. reviews' = Append(reviews, r)
      BY <1>2, Zenon DEF ReviewEnd
    <3>2. r \in Reviews
      BY <2>1 DEF Reviews
    <3>3. reviews \in Seq(Reviews \cup {NoReview})
      BY <1>0 DEF TablesTyped
    <3> HIDE DEF r
    <3> QED
      BY <3>1, <3>2, <3>3
  <2>3. TablesTyped'
    BY <1>0, <1>2, <2>2, Zenon DEF TablesTyped, ReviewEnd, people, private
  <2>4. RequestsTyped'
    BY <1>0, <1>2, <2>1, RequestEnds, Zenon DEF ReviewEnd, people
  <2> QED
    BY <2>3, <2>4, TypePartsNext
<1> QED
  BY <1>1, <1>2 DEF Review

(* So does the advance of a branch, which appends one event.               *)
LEMMA AdvanceTypes ==
    ASSUME TypeOK, Advance
    PROVE  TypeOK'
<1>0. TablesTyped /\ RequestsTyped
  BY TypeParts
<1>1. ASSUME NEW a \in Accounts, NEW b \in Branches, NEW c \in Commits, AdvanceBegin(a, b, c)
      PROVE  TypeOK'
  <2> DEFINE q == [op |-> "advance", target |-> Target(b, c)]
  <2>1. TablesTyped'
    BY <1>0, <1>1 DEF TablesTyped, AdvanceBegin, people, private, shared
  <2>2. q \in Requests /\ q # Idle
    BY <1>0, TargetTyped, SMTT(30) DEF Requests, Idle
  <2>3. RequestsTyped'
    BY <1>0, <1>1, <2>2, RequestBegins DEF AdvanceBegin, people
  <2> QED
    BY <2>1, <2>3, TypePartsNext
<1>2. ASSUME NEW a \in Accounts, AdvanceEnd(a) PROVE TypeOK'
  <2>1. requests[a].target \in Targets /\ serial # a
    BY <1>0, <1>2, RequestFields, HistoryAssumption, Zenon DEF AdvanceEnd
  <2>2. events' \in [Branches -> Seq(Commits)]
    <3> DEFINE t == requests[a].target
    <3>1. events' = [events EXCEPT ![t.branch] = Append(events[t.branch], t.candidate)]
      BY <1>2, Zenon DEF AdvanceEnd
    <3>2. t.branch \in Branches /\ t.candidate \in Commits
      BY <2>1 DEF Targets
    <3>3. events \in [Branches -> Seq(Commits)]
      BY <1>0 DEF TablesTyped
    <3> HIDE DEF t
    <3>4. Append(events[t.branch], t.candidate) \in Seq(Commits)
      BY <3>2, <3>3
    <3> QED
      BY <3>1, <3>2, <3>3, <3>4
  <2>3. TablesTyped'
    BY <1>0, <1>2, <2>2, Zenon DEF TablesTyped, AdvanceEnd, people, private
  <2>4. RequestsTyped'
    BY <1>0, <1>2, <2>1, RequestEnds, Zenon DEF AdvanceEnd, people
  <2> QED
    BY <2>3, <2>4, TypePartsNext
<1> QED
  BY <1>1, <1>2 DEF Advance

(* So does a release.                                                      *)
LEMMA ReleaseTypes ==
    ASSUME TypeOK, Release
    PROVE  TypeOK'
<1>0. TablesTyped /\ RequestsTyped
  BY TypeParts
<1>1. ASSUME NEW a \in Accounts, NEW n \in Names, NEW c \in Commits, ReleaseBegin(a, n, c)
      PROVE  TypeOK'
  <2> DEFINE q == [op |-> "release", name |-> n, commit |-> c]
  <2>1. TablesTyped'
    BY <1>0, <1>1 DEF TablesTyped, ReleaseBegin, people, private, shared
  <2>2. q \in Requests /\ q # Idle /\ q.op = "release"
    <3>1. q \in [op : {"release"}, name : Names, commit : Commits]
      OBVIOUS
    <3>2. q.op # Idle.op /\ q.op = "release"
      BY DEF Idle
    <3> HIDE DEF q
    <3>3. q \in Requests
      BY <3>1, Zenon DEF Requests
    <3> QED
      BY <3>2, <3>3, Zenon
  <2>3. RequestsTyped'
    BY <1>0, <1>1, <2>2, RequestBegins DEF ReleaseBegin, people
  <2> QED
    BY <2>1, <2>3, TypePartsNext
<1>2. ASSUME NEW a \in Accounts, ReleaseEnd(a) PROVE TypeOK'
  <2>1. requests[a].commit \in Commits /\ requests[a].name \in Names
    BY <1>0, <1>2, RequestFields DEF ReleaseEnd
  <2>2. TablesTyped'
    <3>1. /\ releases \in [Names -> Commits \cup {NoCommit}]
          /\ releases' = [releases EXCEPT ![requests[a].name] = requests[a].commit]
      BY <1>0, <1>2, Zenon DEF TablesTyped, ReleaseEnd
    <3>2. releases' \in [Names -> Commits \cup {NoCommit}]
      BY <2>1, <3>1
    <3> QED
      BY <1>0, <1>2, <3>2, Zenon DEF TablesTyped, ReleaseEnd, people, private
  <2>3. RequestsTyped'
    BY <1>0, <1>2, RequestEnds DEF ReleaseEnd, people
  <2> QED
    BY <2>2, <2>3, TypePartsNext
<1> QED
  BY <1>1, <1>2 DEF Release

(* So do roles, rules, removed accounts and erased documents.              *)
LEMMA AdministrationTypes ==
    ASSUME TypeOK, Administration
    PROVE  TypeOK'
<1>0. TablesTyped /\ RequestsTyped
  BY TypeParts
<1>1. ASSUME NEW a \in Accounts, NEW p \in Places, NEW level \in Levels, SetRole(a, p, level)
      PROVE  TypeOK'
  <2>1. roles' \in [Accounts -> [Places -> Levels]]
    BY <1>0, <1>1 DEF TablesTyped, SetRole
  <2>2. TablesTyped'
    BY <1>0, <1>1, <2>1 DEF TablesTyped, SetRole, private, shared
  <2>3. RequestsTyped'
    BY <1>0, <1>1, RequestsStay DEF SetRole, inflight, Active
  <2> QED
    BY <2>2, <2>3, TypePartsNext
<1>2. ASSUME NEW choice \in RuleChoices, SetRules(choice[1], choice[2]) PROVE TypeOK'
  <2>1. choice[1] \in Places /\ choice[2] \in Policies
    BY HistoryAssumption
  <2>2. TablesTyped'
    BY <1>0, <1>2, <2>1 DEF TablesTyped, SetRules, private, shared
  <2>3. RequestsTyped'
    BY <1>0, <1>2, RequestsStay DEF SetRules, inflight, Active
  <2> QED
    BY <2>2, <2>3, TypePartsNext
<1>3. ASSUME NEW d \in Documents, TrashDocument(d) PROVE TypeOK'
  <2>1. TablesTyped'
    BY <1>0, <1>3 DEF TablesTyped, TrashDocument, people, private, shared
  <2>2. RequestsTyped'
    BY <1>0, <1>3, RequestsStay DEF TrashDocument, people, inflight, Active
  <2> QED
    BY <2>1, <2>2, TypePartsNext
<1>4. ASSUME NEW d \in Documents, EraseDocument(d) PROVE TypeOK'
  <2>1. reviews' \in Seq(Reviews \cup {NoReview})
    <3>1. DOMAIN reviews = 1 .. Len(reviews) /\ Len(reviews) \in Nat
          /\ \A i \in DOMAIN reviews : reviews[i] \in Reviews \cup {NoReview}
      BY <1>0 DEF TablesTyped
    <3>2. /\ DOMAIN reviews' = DOMAIN reviews
          /\ reviews' = [i \in DOMAIN reviews |-> reviews'[i]]
          /\ \A i \in DOMAIN reviews : reviews'[i] \in {reviews[i], NoReview}
      BY <1>4, SMTT(30) DEF EraseDocument
    <3> QED
      BY <3>1, <3>2
  <2>2. publisher' \in [Commits -> Accounts \cup {Nobody}]
    BY <1>0, <1>4, SMTT(30) DEF TablesTyped, EraseDocument
  <2>3. releases' \in [Names -> Commits \cup {NoCommit}]
    BY <1>0, <1>4, SMTT(30) DEF TablesTyped, EraseDocument
  <2>4. TablesTyped'
    BY <1>0, <1>4, <2>1, <2>2, <2>3, Zenon DEF TablesTyped, EraseDocument, people
  <2>5. RequestsTyped'
    BY <1>0, <1>4, RequestsStay, Zenon DEF EraseDocument, people, inflight, Active
  <2> QED
    BY <2>4, <2>5, TypePartsNext
<1>5. ASSUME NEW a \in Accounts, RevokeKey(a) \/ DisableAccount(a) \/ EraseAccount(a)
      PROVE  TypeOK'
  <2>1. [p \in Places |-> 0] \in [Places -> Levels]
    BY DEF Levels, Manager
  <2>2. TablesTyped'
    <3>1. CASE RevokeKey(a)
      BY <1>0, <3>1 DEF TablesTyped, RevokeKey, private, shared
    <3>2. CASE DisableAccount(a)
      BY <1>0, <3>2 DEF TablesTyped, DisableAccount, private, shared
    <3>3. CASE EraseAccount(a)
      BY <1>0, <2>1, <3>3 DEF TablesTyped, EraseAccount, shared
    <3> QED
      BY <1>5, <3>1, <3>2, <3>3
  <2>3. \A b \in Accounts : Active(b) /\ requests[b] # Idle => Active(b)'
    BY <1>0, <1>5 DEF TablesTyped, RevokeKey, DisableAccount, EraseAccount, Active
  <2>4. UNCHANGED <<requests, serial>>
    BY <1>5, Zenon DEF RevokeKey, DisableAccount, EraseAccount, inflight
  <2>5. RequestsTyped'
    BY <1>0, <2>3, <2>4, RequestsStay
  <2> QED
    BY <2>2, <2>5, TypePartsNext
<1> QED
  BY <1>1, <1>2, <1>3, <1>4, <1>5 DEF Administration

(* Every step keeps the types.                                             *)
LEMMA NextTypes ==
    ASSUME TypeOK, [Next]_vars
    PROVE  TypeOK'
<1>1. CASE UNCHANGED vars
  BY <1>1, SMTT(30) DEF vars, people, private, shared, inflight, TypeOK, Active, Running
<1> QED
  BY <1>1, RefuseTypes, StagingTypes, PublicationTypes, ReviewTypes, AdvanceTypes, ReleaseTypes,
     AdministrationTypes DEF Next

-----------------------------------------------------------------------------
(* Who changes what.                                                       *)
-----------------------------------------------------------------------------
Publishing == \E a \in Accounts : PublishEnd(a)
Erasing == \E d \in Documents : EraseDocument(d)

(* Only publication and erasure change the published rows.                 *)
LEMMA PublishedFrame ==
    ASSUME [Next]_vars, ~Publishing, ~Erasing
    PROVE  UNCHANGED <<publisher, publishedObjects>>
  BY Zenon DEF Publishing, Erasing, Next, vars, people, private, shared, inflight, Staging, Publication,
         Review, Advance, Release, Administration, Refuse, Upload, StageBegin, StageEnd,
         PublishBegin, Acknowledge, ReviewBegin, ReviewEnd, AdvanceBegin, AdvanceEnd,
         ReleaseBegin, ReleaseEnd, SetRole, SetRules, TrashDocument, RevokeKey,
         DisableAccount, EraseAccount

(* Only an advance changes a branch.                                       *)
LEMMA EventsFrame ==
    ASSUME [Next]_vars, ~\E a \in Accounts : AdvanceEnd(a)
    PROVE  UNCHANGED events
  BY Zenon DEF Next, vars, people, private, shared, inflight, Staging, Publication, Review, Advance,
         Release, Administration, Refuse, Upload, StageBegin, StageEnd, PublishBegin, PublishEnd,
         Acknowledge, ReviewBegin, ReviewEnd, AdvanceBegin, ReleaseBegin, ReleaseEnd, SetRole,
         SetRules, TrashDocument, EraseDocument, RevokeKey, DisableAccount, EraseAccount

(* Only a release and an erasure change the releases.                      *)
LEMMA ReleasesFrame ==
    ASSUME [Next]_vars, ~Erasing, ~\E a \in Accounts : ReleaseEnd(a)
    PROVE  UNCHANGED releases
  BY Zenon DEF Erasing, Next, vars, people, private, shared, inflight, Staging, Publication, Review,
         Advance, Release, Administration, Refuse, Upload, StageBegin, StageEnd, PublishBegin,
         PublishEnd, Acknowledge, ReviewBegin, ReviewEnd, AdvanceBegin, AdvanceEnd, ReleaseBegin,
         SetRole, SetRules, TrashDocument, RevokeKey, DisableAccount, EraseAccount

(* Only a review and an erasure change the reviews.                        *)
LEMMA ReviewsFrame ==
    ASSUME [Next]_vars, ~Erasing, ~\E a \in Accounts : ReviewEnd(a)
    PROVE  UNCHANGED reviews
  BY Zenon DEF Erasing, Next, vars, people, private, shared, inflight, Staging, Publication, Review,
         Advance, Release, Administration, Refuse, Upload, StageBegin, StageEnd, PublishBegin,
         PublishEnd, Acknowledge, ReviewBegin, AdvanceBegin, AdvanceEnd, ReleaseBegin, ReleaseEnd,
         SetRole, SetRules, TrashDocument, RevokeKey, DisableAccount, EraseAccount

(* Only staging adds drafts.                                               *)
LEMMA DraftsFrame ==
    ASSUME [Next]_vars, ~\E a \in Accounts : StageEnd(a)
    PROVE  stagedCommits' \subseteq stagedCommits
  BY Zenon DEF Next, vars, people, private, shared, inflight, Staging, Publication, Review, Advance,
         Release, Administration, Refuse, Upload, StageBegin, PublishBegin, PublishEnd,
         Acknowledge, ReviewBegin, ReviewEnd, AdvanceBegin, AdvanceEnd, ReleaseBegin, ReleaseEnd,
         SetRole, SetRules, TrashDocument, EraseDocument, RevokeKey, DisableAccount, EraseAccount

(* Only an upload and an acknowledgement add private objects.              *)
LEMMA ObjectsFrame ==
    ASSUME [Next]_vars,
           ~\E a \in Accounts, c \in Drafts : \E o \in Content(c) : Upload(a, o),
           ~\E a \in Accounts, c \in Drafts : \E S \in SUBSET Content(c) : Acknowledge(a, c, S)
    PROVE  stagedObjects' \subseteq stagedObjects
  BY Zenon DEF Next, vars, people, private, shared, inflight, Staging, Publication, Review, Advance,
         Release, Administration, Refuse, StageBegin, StageEnd, PublishBegin, PublishEnd,
         ReviewBegin, ReviewEnd, AdvanceBegin, AdvanceEnd, ReleaseBegin, ReleaseEnd,
         SetRole, SetRules, TrashDocument, EraseDocument, RevokeKey, DisableAccount, EraseAccount

(* Only erasure makes a document gone, and nothing brings one back.        *)
LEMMA DocumentsFrame ==
    ASSUME TypeOK, [Next]_vars
    PROVE  /\ \A d \in Documents : documents[d] = "gone" => documents'[d] = "gone"
           /\ ~Erasing => \A d \in Documents : documents'[d] = "gone" => documents[d] = "gone"
<1>1. documents \in [Documents -> {"live", "trash", "gone"}]
  BY DEF TypeOK
<1>2. CASE UNCHANGED documents
  BY <1>2
<1>3. ASSUME NEW d \in Documents, TrashDocument(d)
      PROVE  \A e \in Documents : documents'[e] = "gone" <=> documents[e] = "gone"
  BY <1>1, <1>3 DEF TrashDocument
<1>4. ASSUME NEW d \in Documents, EraseDocument(d)
      PROVE  Erasing /\ \A e \in Documents : documents[e] = "gone" => documents'[e] = "gone"
  BY <1>1, <1>4, Zenon DEF EraseDocument, Erasing
<1>5. \/ UNCHANGED documents
      \/ \E d \in Documents : TrashDocument(d) \/ EraseDocument(d)
  BY Zenon DEF Next, vars, people, private, shared, inflight, Staging, Publication, Review, Advance,
         Release, Administration, Refuse, Upload, StageBegin, StageEnd, PublishBegin, PublishEnd,
         Acknowledge, ReviewBegin, ReviewEnd, AdvanceBegin, AdvanceEnd, ReleaseBegin, ReleaseEnd,
         SetRole, SetRules, RevokeKey, DisableAccount, EraseAccount
<1> QED
  BY <1>2, <1>3, <1>4, <1>5

(* So what is lost stays lost, and only an erasure loses more.             *)
LEMMA LostFrame ==
    ASSUME TypeOK, [Next]_vars, NEW c \in Commits
    PROVE  /\ Lost(c) => Lost(c)'
           /\ ~Erasing /\ Lost(c)' => Lost(c)
           /\ \A d \in Documents : EraseDocument(d) /\ Lost(c)' => Lost(c) \/ d \in Scope(c)
<1>1. Scope(c) \subseteq Documents
  BY ScopeIsDocuments
<1>2. ASSUME NEW d \in Documents, EraseDocument(d)
      PROVE  \A e \in Documents : documents'[e] = "gone" => e = d \/ documents[e] = "gone"
  BY <1>2, Zenon DEF EraseDocument, TypeOK
<1> QED
  BY <1>1, <1>2, DocumentsFrame DEF Lost

(* Requests begin, end or go on as they were.                              *)
LEMMA RequestsFrame ==
    ASSUME TypeOK, [Next]_vars, NEW a \in Accounts
    PROVE  \/ requests'[a] = requests[a]
           \/ requests'[a] = Idle
           \/ \E c \in Drafts : StageBegin(a, c)
           \/ \E c \in Drafts : PublishBegin(a, c)
           \/ \E b \in Branches, c \in Commits, d \in Decisions : ReviewBegin(a, b, c, d)
           \/ \E b \in Branches, c \in Commits : AdvanceBegin(a, b, c)
           \/ \E n \in Names, c \in Commits : ReleaseBegin(a, n, c)
<1>1. \A b \in Accounts : b # a => \A q : [requests EXCEPT ![b] = q][a] = requests[a]
  OBVIOUS
<1>2. [requests EXCEPT ![a] = Idle][a] = Idle
  BY DEF TypeOK
<1>3. ASSUME NEW b \in Accounts, Done(b) PROVE requests'[a] \in {requests[a], Idle}
  BY <1>1, <1>2, <1>3 DEF Done
<1>4. ASSUME NEW b \in Accounts, NEW q, Begin(b, q) PROVE b = a \/ requests'[a] = requests[a]
  BY <1>1, <1>4 DEF Begin
<1>5. CASE UNCHANGED vars
  BY <1>5 DEF vars, inflight
<1>6. CASE \E b \in Accounts : Refuse(b)
  BY <1>3, <1>6, Zenon DEF Refuse
<1>7. CASE Staging
  BY <1>3, <1>4, <1>7, Zenon DEF Staging, Upload, StageBegin, StageEnd, inflight
<1>8. CASE Publication
  BY <1>3, <1>4, <1>8, Zenon DEF Publication, PublishBegin, PublishEnd, Acknowledge, inflight
<1>9. CASE Review
  BY <1>3, <1>4, <1>9, Zenon DEF Review, ReviewBegin, ReviewEnd
<1>10. CASE Advance
  BY <1>3, <1>4, <1>10, Zenon DEF Advance, AdvanceBegin, AdvanceEnd
<1>11. CASE Release
  BY <1>3, <1>4, <1>11, Zenon DEF Release, ReleaseBegin, ReleaseEnd
<1>12. CASE Administration
  BY <1>12, Zenon DEF Administration, SetRole, SetRules, TrashDocument, EraseDocument, RevokeKey,
               DisableAccount, EraseAccount, inflight
<1> QED
  BY <1>5, <1>6, <1>7, <1>8, <1>9, <1>10, <1>11, <1>12, Zenon DEF Next

-----------------------------------------------------------------------------
(* Reviews.                                                                *)
-----------------------------------------------------------------------------

(* A finite set of numbers that is not empty has a largest one: by         *)
(* induction on how many it holds.                                         *)
LEMMA FiniteLargest ==
    ASSUME NEW S \in SUBSET Nat, IsFiniteSet(S), S # {}
    PROVE  \E m \in S : \A y \in S : y <= m
<1> DEFINE Has(T) == \E m \in T : \A y \in T : y <= m
<1> DEFINE R == {n \in Nat : \A T \in SUBSET Nat : IsFiniteSet(T) /\ Cardinality(T) = n + 1 => Has(T)}
<1>1. 0 \in R
  <2> SUFFICES ASSUME NEW T \in SUBSET Nat, IsFiniteSet(T), Cardinality(T) = 1 PROVE Has(T)
    OBVIOUS
  <2>1. PICK x : T = {x}
    BY FS_Singleton, Zenon
  <2> QED
    BY <2>1
<1>2. ASSUME NEW n \in Nat, n \in R PROVE n + 1 \in R
  <2> SUFFICES ASSUME NEW T \in SUBSET Nat, IsFiniteSet(T), Cardinality(T) = n + 1 + 1 PROVE Has(T)
    OBVIOUS
  <2>1. T # {}
    BY FS_EmptySet
  <2>2. PICK x \in T : TRUE
    BY <2>1, Zenon
  <2>3. IsFiniteSet(T \ {x}) /\ Cardinality(T \ {x}) = n + 1
    BY FS_RemoveElement
  <2>4. PICK m \in T \ {x} : \A y \in T \ {x} : y <= m
    BY <1>2, <2>3
  <2>5. m \in T /\ x \in Nat /\ m \in Nat
    BY <2>2, <2>4
  <2>6. CASE x <= m
    BY <2>4, <2>5, <2>6
  <2>7. CASE m <= x
    BY <2>4, <2>5, <2>7
  <2> QED
    BY <2>5, <2>6, <2>7
<1> HIDE DEF R
<1>3. Nat \subseteq R
  BY <1>1, <1>2, SetInduction
<1>4. Cardinality(S) \in Nat /\ Cardinality(S) # 0
  BY FS_CardinalityType, FS_EmptySet
<1>5. Cardinality(S) - 1 \in R /\ Cardinality(S) = (Cardinality(S) - 1) + 1
  BY <1>3, <1>4
<1> QED
  BY <1>5 DEF R

(* Max of a finite set of numbers that is not empty.                       *)
LEMMA FiniteMax ==
    ASSUME NEW S \in SUBSET Nat, IsFiniteSet(S), S # {}
    PROVE  Max(S) \in S /\ \A y \in S : y <= Max(S)
<1>1. PICK m \in S : \A y \in S : y <= m
  BY FiniteLargest
<1>2. \A y \in S : m >= y
  BY <1>1
<1>3. Max(S) \in S /\ \A y \in S : Max(S) >= y
  BY <1>2, Zenon DEF Max
<1> QED
  BY <1>3

(* A merged rule asks for at least what each place asks for.               *)
LEMMA RulesAtLeast ==
    ASSUME TablesTyped, NEW c \in Commits, NEW p \in Scope(c) \cup {Project}
    PROVE  Rules(Scope(c)).approvals >= rules[p].approvals
           /\ Rules(Scope(c)).approvals \in Nat /\ rules[p].approvals \in Nat
<1> DEFINE places == Scope(c) \cup {Project}
<1> DEFINE asked == {rules[q].approvals : q \in places}
<1>1. places \subseteq Places
  BY ScopeIsDocuments DEF Places
<1>2. IsFiniteSet(places)
  <2>1. IsFiniteSet(Scope(c))
    BY ScopeIsDocuments, HistoryAssumption, FS_Subset
  <2> QED
    BY <2>1, FS_AddElement
<1>3. asked \in SUBSET Nat /\ rules[p].approvals \in asked
  <2>1. ASSUME NEW q \in places PROVE rules[q].approvals \in Nat
    <3>1. rules[q] \in Policies
      BY <1>1 DEF TablesTyped
    <3> QED
      BY <3>1 DEF Policies
  <2> QED
    BY <2>1
<1> DEFINE f == [q \in places |-> rules[q].approvals]
<1>4. f \in Surjection(places, asked)
  <2>1. f \in [places -> asked]
    BY SMTT(30)
  <2>2. ASSUME NEW y \in asked PROVE \E q \in places : f[q] = y
    BY SMTT(30)
  <2> HIDE DEF f, asked
  <2> QED
    BY <2>1, <2>2, Zenon DEF Surjection
<1> HIDE DEF asked, f, places
<1>5. IsFiniteSet(asked)
  BY <1>2, <1>4, FS_Surjection
<1>6. Max(asked) \in asked /\ \A y \in asked : y <= Max(asked)
  BY <1>3, <1>5, FiniteMax, Zenon
<1>7. Rules(Scope(c)).approvals = Max(asked)
  BY DEF Rules, asked, places
<1> QED
  BY <1>3, <1>6, <1>7, Zenon

(* An account's last word about a target, as the property states it.       *)
Says(a, decision, t) ==
    \E i \in Recorded :
        /\ reviews[i].reviewer = a
        /\ reviews[i].decision = decision
        /\ reviews[i].target = t
        /\ \A j \in Recorded \cap (i + 1 .. Len(reviews)) :
             reviews[j].reviewer # a \/ reviews[j].target # reviews[i].target

(* It is what latest_reviews finds.                                        *)
LEMMA LatestIsSaid ==
    ASSUME TablesTyped, NEW a, NEW t, NEW decision \in Decisions
    PROVE  Says(a, decision, t) <=> LatestBy(a, t) = decision
<1> DEFINE mine == {i \in Recorded : reviews[i].reviewer = a /\ About(reviews[i], t)}
<1>1. /\ Len(reviews) \in Nat /\ mine \subseteq 1 .. Len(reviews) /\ Recorded \subseteq 1 .. Len(reviews)
  <2>1. Len(reviews) \in Nat /\ DOMAIN reviews = 1 .. Len(reviews)
    BY DEF TablesTyped
  <2> QED
    BY <2>1 DEF Recorded
<1>2. mine \in SUBSET Nat /\ IsFiniteSet(mine)
  <2>1. IsFiniteSet(1 .. Len(reviews)) /\ 1 .. Len(reviews) \subseteq Nat
    BY <1>1, FS_Interval
  <2> QED
    BY <1>1, <2>1, FS_Subset
<1>3. mine # {} => Max(mine) \in mine /\ \A y \in mine : y <= Max(mine)
  <2> HIDE DEF mine
  <2> QED
    BY <1>2, FiniteMax
<1>4. LatestBy(a, t) = IF mine = {} THEN "none" ELSE reviews[Max(mine)].decision
  BY DEF LatestBy
<1>5. \A i \in Recorded : i \in mine <=> reviews[i].reviewer = a /\ reviews[i].target = t
  BY DEF About
<1>6. ASSUME Says(a, decision, t) PROVE LatestBy(a, t) = decision
  <2>1. PICK i \in Recorded :
           /\ i \in mine /\ reviews[i].decision = decision
           /\ \A j \in Recorded \cap (i + 1 .. Len(reviews)) : j \notin mine
    BY <1>5, <1>6 DEF Says
  <2> HIDE DEF mine
  <2>2. Max(mine) \in mine /\ i <= Max(mine) /\ Max(mine) \in 1 .. Len(reviews) /\ i \in Nat
    <3>1. Max(mine) \in mine /\ i <= Max(mine)
      BY <1>3, <2>1
    <3>2. Max(mine) \in 1 .. Len(reviews) /\ i \in 1 .. Len(reviews)
      BY <1>1, <2>1, <3>1, Zenon
    <3> QED
      BY <3>1, <3>2
  <2>3. Max(mine) \in Recorded
    BY <2>2 DEF mine
  <2>4. Max(mine) = i
    BY <1>1, <2>1, <2>2, <2>3
  <2> QED
    BY <1>4, <2>1, <2>2, <2>4
<1>7. ASSUME LatestBy(a, t) = decision PROVE Says(a, decision, t)
  <2>1. mine # {} /\ reviews[Max(mine)].decision = decision
    BY <1>4, <1>7, SMTT(30) DEF Decisions
  <2>2. Max(mine) \in mine /\ \A y \in mine : y <= Max(mine)
    BY <1>3, <2>1
  <2>3. /\ Max(mine) \in Recorded /\ reviews[Max(mine)].reviewer = a /\ reviews[Max(mine)].target = t
    BY <1>5, <2>2, SMTT(30)
  <2> HIDE DEF mine
  <2>4. \A j \in Recorded \cap (Max(mine) + 1 .. Len(reviews)) : j \notin mine
    <3> SUFFICES ASSUME NEW j \in Recorded, j \in Max(mine) + 1 .. Len(reviews), j \in mine PROVE FALSE
      OBVIOUS
    <3>1. j <= Max(mine) /\ Max(mine) \in Nat /\ j \in Nat
      BY <1>2, <2>2, Zenon
    <3> QED
      BY <1>1, <3>1
  <2>5. \A j \in Recorded \cap (Max(mine) + 1 .. Len(reviews)) :
             reviews[j].reviewer # a \/ reviews[j].target # reviews[Max(mine)].target
    BY <1>5, <2>3, <2>4
  <2> QED
    BY <2>1, <2>3, <2>5 DEF Says
<1> QED
  BY <1>6, <1>7

(* The newest event of a branch is the one that was appended.              *)
LEMMA NewestAppended ==
    ASSUME NEW S, NEW s \in Seq(S), NEW e \in S
    PROVE  Newest(Append(s, e)) = e
  BY DEF Newest

=============================================================================
