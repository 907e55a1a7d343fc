------------------------ MODULE ProjectHistory_proofs ------------------------
(***************************************************************************)
(* The shared history of a project: the invariant is kept by every step,   *)
(* and what it gives.                                                      *)
(***************************************************************************)
EXTENDS ProjectHistory_lemmas

-----------------------------------------------------------------------------
(* Steps.                                                                  *)
-----------------------------------------------------------------------------

(* Publication adds a commit whose dependencies are published and its      *)
(* rows; erasure removes rows of documents outside every scope that stays. *)
LEMMA ClosedStep ==
    ASSUME IInv, [Next]_vars
    PROVE  HistoryClosed'
<1>0. TypeOK /\ TablesTyped /\ RequestsTyped /\ HistoryClosed
  BY TypeParts DEF IInv
<1>1. ASSUME NEW a \in Accounts, PublishEnd(a) PROVE HistoryClosed'
  <2> DEFINE c == requests[a].commit
  <2>1. /\ c \in Commits /\ publisher' = [publisher EXCEPT ![c] = a]
        /\ publishedObjects' = publishedObjects \cup Rows(c)
        /\ Dependencies(c) \subseteq Published
    BY <1>0, <1>1, RequestFields DEF PublishEnd, Publishable
  <2> HIDE DEF c
  <2>2. Published' = Published \cup {c}
    BY <1>0, <2>1, HistoryAssumption DEF Published, TablesTyped
  <2> QED
    BY <1>0, <2>1, <2>2 DEF HistoryClosed
<1>2. ASSUME NEW d \in Documents, EraseDocument(d) PROVE HistoryClosed'
  <2>1. Published' = {c \in Published : d \notin Scope(c)}
    BY <1>0, <1>2 DEF EraseDocument, Published, TablesTyped
  <2>2. publishedObjects' = {x \in publishedObjects : DocumentOf[x[2]] # d}
    BY <1>2 DEF EraseDocument
  <2>3. ASSUME NEW c \in Published' PROVE Dependencies(c) \subseteq Published'
    <3>1. c \in Commits /\ c \in Published /\ d \notin Scope(c)
      BY <2>1 DEF Published
    <3>2. Dependencies(c) \subseteq Published
      BY <1>0, <3>1 DEF HistoryClosed
    <3>3. \A e \in Dependencies(c) : d \notin Scope(e)
      BY <3>1, ScopeGrows
    <3> QED
      BY <2>1, <3>2, <3>3
  <2>4. ASSUME NEW c \in Published' PROVE Rows(c) \subseteq publishedObjects'
    <3>1. c \in Commits /\ c \in Published /\ d \notin Scope(c)
      BY <2>1 DEF Published
    <3>2. Rows(c) \subseteq publishedObjects
      BY <1>0, <3>1 DEF HistoryClosed
    <3>3. \A x \in Rows(c) : DocumentOf[x[2]] # d
      BY <3>1, RowsInScope
    <3> QED
      BY <2>2, <3>2, <3>3
  <2> QED
    BY <2>3, <2>4 DEF HistoryClosed
<1>3. CASE ~Publishing /\ ~Erasing
  BY <1>0, <1>3, PublishedFrame DEF HistoryClosed, Published
<1> QED
  BY <1>1, <1>2, <1>3 DEF Publishing, Erasing

(* A commit that was published stays so until one of its documents is      *)
(* erased.                                                                 *)
LEMMA PublishedOrLost ==
    ASSUME TypeOK, [Next]_vars, NEW c \in Commits, c \in Published \/ Lost(c)
    PROVE  c \in Published' \/ Lost(c)'
<1>0. TablesTyped /\ RequestsTyped
  BY TypeParts
<1>1. CASE Lost(c)
  BY <1>1, LostFrame
<1>2. ASSUME c \in Published, NEW a \in Accounts, PublishEnd(a) PROVE c \in Published'
  BY <1>0, <1>2, HistoryAssumption DEF PublishEnd, Published, TablesTyped
<1>3. ASSUME c \in Published, NEW d \in Documents, EraseDocument(d) PROVE c \in Published' \/ Lost(c)'
  <2>1. CASE d \in Scope(c)
    BY <1>0, <1>3, <2>1 DEF EraseDocument, TablesTyped, Lost
  <2>2. CASE d \notin Scope(c)
    BY <1>0, <1>3, <2>2 DEF EraseDocument, TablesTyped, Published
  <2> QED
    BY <2>1, <2>2
<1>4. CASE c \in Published /\ ~Publishing /\ ~Erasing
  BY <1>4, PublishedFrame DEF Published
<1> QED
  BY <1>1, <1>2, <1>3, <1>4 DEF Publishing, Erasing

(* A branch keeps every commit it pointed to.                              *)
LEMMA EventsGrow ==
    ASSUME TypeOK, [Next]_vars, NEW i \in DOMAIN events[Main]
    PROVE  i \in DOMAIN events'[Main] /\ events'[Main][i] = events[Main][i]
<1>0. TablesTyped /\ RequestsTyped
  BY TypeParts
<1>1. ASSUME NEW a \in Accounts, AdvanceEnd(a)
      PROVE  i \in DOMAIN events'[Main] /\ events'[Main][i] = events[Main][i]
  <2>1. /\ requests[a].target.branch \in Branches /\ requests[a].target.candidate \in Commits
    <3>1. requests[a].target \in Targets
      BY <1>0, <1>1, RequestFields, Zenon DEF AdvanceEnd
    <3> QED
      BY <3>1 DEF Targets
  <2>2. events[Main] \in Seq(Commits) /\ Main \in Branches /\ events \in [Branches -> Seq(Commits)]
    BY <1>0, HistoryAssumption DEF TablesTyped
  <2>3. events' = [events EXCEPT ![requests[a].target.branch] =
                      Append(events[requests[a].target.branch], requests[a].target.candidate)]
    BY <1>1, Zenon DEF AdvanceEnd
  <2>4. events'[Main] = events[Main] \/ events'[Main] = Append(events[Main], requests[a].target.candidate)
    BY <2>1, <2>2, <2>3, Zenon
  <2> QED
    BY <2>1, <2>2, <2>4
<1>2. CASE ~\E a \in Accounts : AdvanceEnd(a)
  BY <1>2, EventsFrame
<1> QED
  BY <1>1, <1>2

(* What requests loaded before the locks.                                  *)
LEMMA LoadedStep ==
    ASSUME IInv, [Next]_vars
    PROVE  Loaded'
<1>0. TypeOK /\ TablesTyped /\ RequestsTyped /\ Loaded /\ TypeOK' /\ RequestsTyped'
  BY TypeParts, TypePartsNext, NextTypes DEF IInv
<1> SUFFICES ASSUME NEW a \in Accounts
             PROVE  /\ Running(a, "advance")' \/ Running(a, "review")' =>
                         requests'[a].target.candidate \in Published'
                         \/ Lost(requests[a].target.candidate)'
                    /\ Running(a, "release")' =>
                         /\ requests'[a].commit \in Published' \/ Lost(requests[a].commit)'
                         /\ \E i \in DOMAIN events'[Main] : events'[Main][i] = requests'[a].commit
  BY DEF Loaded
<1>1. CASE requests'[a] = requests[a]
  <2>1. ASSUME Running(a, "advance") \/ Running(a, "review")
        PROVE  requests'[a].target.candidate \in Published' \/ Lost(requests[a].target.candidate)'
    <3>1. requests[a].target.candidate \in Commits
      BY <1>0, <2>1, RequestFields DEF Targets
    <3>2. requests[a].target.candidate \in Published \/ Lost(requests[a].target.candidate)
      BY <1>0, <2>1 DEF Loaded
    <3> QED
      BY <1>0, <1>1, <3>1, <3>2, PublishedOrLost DEF Lost
  <2>2. ASSUME Running(a, "release")
        PROVE  /\ requests'[a].commit \in Published' \/ Lost(requests[a].commit)'
               /\ \E i \in DOMAIN events'[Main] : events'[Main][i] = requests'[a].commit
    <3>1. requests[a].commit \in Commits
      BY <1>0, <2>2, RequestFields
    <3>2. /\ requests[a].commit \in Published \/ Lost(requests[a].commit)
          /\ \E i \in DOMAIN events[Main] : events[Main][i] = requests[a].commit
      BY <1>0, <2>2 DEF Loaded
    <3>3. requests'[a].commit \in Published' \/ Lost(requests[a].commit)'
      BY <1>0, <1>1, <3>1, <3>2, PublishedOrLost DEF Lost
    <3> QED
      BY <1>0, <1>1, <3>2, <3>3, EventsGrow
  <2> QED
    BY <1>1, <2>1, <2>2 DEF Running
<1>2. CASE requests'[a] = Idle
  BY <1>2 DEF Running
<1>3. ASSUME NEW c \in Drafts, StageBegin(a, c) \/ PublishBegin(a, c)
      PROVE  ~Running(a, "advance")' /\ ~Running(a, "review")' /\ ~Running(a, "release")'
  BY <1>0, <1>3 DEF StageBegin, PublishBegin, Begin, Running, RequestsTyped
<1>4. ASSUME NEW c \in Commits, NEW b \in Branches,
             AdvanceBegin(a, b, c) \/ \E d \in Decisions : ReviewBegin(a, b, c, d)
      PROVE  /\ requests'[a].target.candidate \in Published'
             /\ ~Running(a, "release")'
  <2>1. c \in Published /\ Published' = Published
    BY <1>4, Zenon DEF AdvanceBegin, ReviewBegin, shared, Published
  <2>2. requests'[a].target.candidate = c /\ requests'[a].op # "release"
    <3>1. requests \in [Accounts -> Requests]
      BY <1>0 DEF RequestsTyped
    <3>2. CASE AdvanceBegin(a, b, c)
      <4>1. requests'[a] = [op |-> "advance", target |-> Target(b, c)]
        BY <3>1, <3>2 DEF AdvanceBegin, Begin
      <4> QED
        BY <4>1 DEF Target
    <3>3. ASSUME NEW d \in Decisions, ReviewBegin(a, b, c, d)
          PROVE  requests'[a].target.candidate = c /\ requests'[a].op # "release"
      <4>1. requests'[a] = [op |-> "review", target |-> Target(b, c), decision |-> d]
        BY <3>1, <3>3 DEF ReviewBegin, Begin
      <4> QED
        BY <4>1 DEF Target
    <3> QED
      BY <1>4, <3>2, <3>3
  <2> QED
    BY <2>1, <2>2 DEF Running
<1>5. ASSUME NEW c \in Commits, NEW n \in Names, ReleaseBegin(a, n, c)
      PROVE  /\ ~Running(a, "advance")' /\ ~Running(a, "review")'
             /\ requests'[a].commit \in Published'
             /\ \E i \in DOMAIN events'[Main] : events'[Main][i] = requests'[a].commit
  <2>1. c \in Published /\ Published' = Published /\ events' = events /\ c = HeadOf(Main).commit
    BY <1>5 DEF ReleaseBegin, shared, Published, Releasable
  <2>2. requests'[a].commit = c /\ requests'[a].op = "release"
    BY <1>0, <1>5 DEF ReleaseBegin, Begin, RequestsTyped
  <2>3. events[Main] \in Seq(Commits) /\ events[Main] # <<>>
    BY <1>0, <2>1, HistoryAssumption DEF TablesTyped, HeadOf
  <2>4. Len(events[Main]) \in DOMAIN events[Main] /\ events[Main][Len(events[Main])] = c
    BY <1>0, <2>1, <2>3, HeadTyped, HistoryAssumption
  <2> QED
    BY <2>1, <2>2, <2>4 DEF Running
<1> QED
  BY <1>0, <1>1, <1>2, <1>3, <1>4, <1>5, RequestsFrame

(* Releases name commits that were heads of main and are readable.         *)
LEMMA ReleasesStep ==
    ASSUME IInv, [Next]_vars
    PROVE  ReleasesAccepted'
<1>0. TypeOK /\ TablesTyped /\ RequestsTyped /\ Loaded /\ ReleasesAccepted
  BY TypeParts DEF IInv
<1>1. ASSUME NEW c \in Commits, \E i \in DOMAIN events[Main] : events[Main][i] = c
      PROVE  \E i \in DOMAIN events'[Main] : events'[Main][i] = c
  BY <1>0, <1>1, EventsGrow
<1>2. ASSUME NEW a \in Accounts, ReleaseEnd(a) PROVE ReleasesAccepted'
  <2> DEFINE c == requests[a].commit
  <2> DEFINE n == requests[a].name
  <2>1. /\ c \in Commits /\ n \in Names /\ Running(a, "release")
        /\ releases' = [releases EXCEPT ![n] = c] /\ Published' = Published
        /\ MayRead(a, Scope(c))
    BY <1>0, <1>2, RequestFields, Zenon DEF ReleaseEnd, Published
  <2>2. ~Lost(c)
    BY <2>1, AllowedIsThere DEF Lost
  <2>3. c \in Published /\ \E i \in DOMAIN events[Main] : events[Main][i] = c
    BY <1>0, <2>1, <2>2 DEF Loaded
  <2> HIDE DEF c, n
  <2>4. \A m \in Names : releases'[m] = c \/ releases'[m] = releases[m]
    BY <1>0, <2>1 DEF TablesTyped
  <2>5. \A m \in Names : releases[m] # NoCommit => releases[m] \in Commits
    BY <1>0 DEF TablesTyped
  <2> QED
    BY <1>0, <1>1, <2>1, <2>3, <2>4, <2>5 DEF ReleasesAccepted
<1>3. ASSUME NEW d \in Documents, EraseDocument(d) PROVE ReleasesAccepted'
  <2>1. ASSUME NEW n \in Names, releases'[n] # NoCommit
        PROVE  releases'[n] = releases[n] /\ releases[n] \in Published /\ releases[n] \in Commits
               /\ d \notin Scope(releases[n])
    BY <1>0, <1>3, <2>1 DEF EraseDocument, ReleasesAccepted, TablesTyped, Published
  <2>2. \A c \in Published : d \notin Scope(c) => c \in Published'
    BY <1>0, <1>3 DEF EraseDocument, Published, TablesTyped
  <2>3. \A n \in Names : releases'[n] # NoCommit =>
            \E i \in DOMAIN events[Main] : events[Main][i] = releases'[n]
    BY <1>0, <2>1 DEF ReleasesAccepted
  <2> QED
    BY <1>1, <2>1, <2>2, <2>3 DEF ReleasesAccepted
<1>4. CASE ~Erasing /\ ~\E a \in Accounts : ReleaseEnd(a)
  <2>1. releases' = releases
    BY <1>4, ReleasesFrame
  <2>2. ASSUME NEW c \in Published PROVE c \in Published' /\ c \in Commits
    <3>1. CASE Publishing
      BY <1>0, <3>1, HistoryAssumption, Zenon DEF Publishing, PublishEnd, Published, TablesTyped
    <3>2. CASE ~Publishing
      BY <1>4, <3>2, PublishedFrame DEF Published
    <3> QED
      BY <3>1, <3>2
  <2> QED
    BY <1>0, <1>1, <2>1, <2>2 DEF ReleasesAccepted
<1> QED
  BY <1>2, <1>3, <1>4 DEF Erasing

(* Staging asks for the caller's own signature, publication for the        *)
(* caller's own draft.                                                     *)
LEMMA AuthoredStep ==
    ASSUME IInv, [Next]_vars
    PROVE  Authored'
<1>0. TypeOK /\ TablesTyped /\ RequestsTyped /\ Authored
  BY TypeParts DEF IInv
<1>1. \A x \in stagedCommits' : AuthorOf[x[2]] = x[1]
  <2>1. ASSUME NEW a \in Accounts, StageEnd(a) PROVE \A x \in stagedCommits' : AuthorOf[x[2]] = x[1]
    BY <1>0, <2>1 DEF StageEnd, Authored
  <2>2. CASE ~\E a \in Accounts : StageEnd(a)
    BY <1>0, <2>2, DraftsFrame DEF Authored
  <2> QED
    BY <2>1, <2>2
<1>2. \A c \in Published' : publisher'[c] = AuthorOf[c]
  <2>1. ASSUME NEW a \in Accounts, PublishEnd(a) PROVE \A c \in Published' : publisher'[c] = AuthorOf[c]
    <3>1. requests[a].commit \in Commits /\ AuthorOf[requests[a].commit] = a
      BY <1>0, <2>1, RequestFields, Zenon DEF PublishEnd, Authored
    <3> QED
      BY <1>0, <2>1, <3>1, Zenon DEF PublishEnd, Authored, Published, TablesTyped
  <2>2. ASSUME NEW d \in Documents, EraseDocument(d)
        PROVE  \A c \in Published' : publisher'[c] = AuthorOf[c]
    BY <1>0, <2>2, Zenon DEF EraseDocument, Authored, Published, TablesTyped
  <2>3. CASE ~Publishing /\ ~Erasing
    BY <1>0, <2>3, PublishedFrame DEF Authored, Published
  <2> QED
    BY <2>1, <2>2, <2>3 DEF Publishing, Erasing
<1>3. ASSUME NEW a \in Accounts, Running(a, "publish")' PROVE AuthorOf[requests'[a].commit] = a
  <2>1. requests'[a] # Idle /\ requests'[a].op = "publish"
    BY <1>3 DEF Running
  <2>2. CASE requests'[a] = requests[a]
    BY <1>0, <2>1, <2>2 DEF Authored, Running
  <2>3. ASSUME NEW c \in Drafts, PublishBegin(a, c) PROVE AuthorOf[requests'[a].commit] = a
    <3>1. <<a, c>> \in stagedCommits /\ requests'[a].commit = c
      BY <1>0, <2>3 DEF PublishBegin, Begin, RequestsTyped
    <3>2. AuthorOf[<<a, c>>[2]] = <<a, c>>[1]
      BY <1>0, <3>1, Zenon DEF Authored
    <3> QED
      BY <3>1, <3>2
  <2>4. ~\E c \in Drafts : StageBegin(a, c)
    <3> SUFFICES ASSUME NEW c \in Drafts, StageBegin(a, c) PROVE FALSE
      OBVIOUS
    <3>1. requests'[a] = [op |-> "stage", commit |-> c]
      BY <1>0 DEF StageBegin, Begin, RequestsTyped
    <3> QED
      BY <2>1, <3>1
  <2>5. ~\E b \in Branches, c \in Commits, d \in Decisions : ReviewBegin(a, b, c, d)
    <3> SUFFICES ASSUME NEW b \in Branches, NEW c \in Commits, NEW d \in Decisions,
                        ReviewBegin(a, b, c, d)
                 PROVE  FALSE
      OBVIOUS
    <3>1. requests'[a] = [op |-> "review", target |-> Target(b, c), decision |-> d]
      BY <1>0 DEF ReviewBegin, Begin, RequestsTyped
    <3> QED
      BY <2>1, <3>1
  <2>6. ~\E b \in Branches, c \in Commits : AdvanceBegin(a, b, c)
    <3> SUFFICES ASSUME NEW b \in Branches, NEW c \in Commits, AdvanceBegin(a, b, c) PROVE FALSE
      OBVIOUS
    <3>1. requests'[a] = [op |-> "advance", target |-> Target(b, c)]
      BY <1>0 DEF AdvanceBegin, Begin, RequestsTyped
    <3> QED
      BY <2>1, <3>1
  <2>7. ~\E n \in Names, c \in Commits : ReleaseBegin(a, n, c)
    <3> SUFFICES ASSUME NEW n \in Names, NEW c \in Commits, ReleaseBegin(a, n, c) PROVE FALSE
      OBVIOUS
    <3>1. requests'[a] = [op |-> "release", name |-> n, commit |-> c]
      BY <1>0 DEF ReleaseBegin, Begin, RequestsTyped
    <3> QED
      BY <2>1, <3>1
  <2> QED
    BY <1>0, <2>1, <2>2, <2>3, <2>4, <2>5, <2>6, <2>7, RequestsFrame, Zenon
<1> QED
  BY <1>1, <1>2, <1>3 DEF Authored

-----------------------------------------------------------------------------
(* Erasure, table by table.                                                *)
-----------------------------------------------------------------------------

(* Published commits.                                                      *)
LEMMA PublishedClean ==
    ASSUME IInv, [Next]_vars, NEW c \in Published'
    PROVE  ~Lost(c)'
<1>0. TypeOK /\ TablesTyped /\ RequestsTyped /\ StoreClean /\ c \in Commits
  BY TypeParts DEF IInv, Published
<1>1. ASSUME NEW a \in Accounts, PublishEnd(a) PROVE ~Lost(c)'
  <2>1. documents' = documents
    BY <1>1 DEF PublishEnd
  <2>2. CASE c \in Published
    BY <1>0, <2>1, <2>2 DEF StoreClean, Lost
  <2>3. CASE c \notin Published
    <3>1. c = requests[a].commit
      BY <1>0, <1>1, <2>3, HistoryAssumption, Zenon DEF PublishEnd, Published, TablesTyped
    <3> QED
      BY <1>1, <2>1, <3>1, AllowedIsThere DEF PublishEnd, Lost
  <2> QED
    BY <2>2, <2>3
<1>2. ASSUME NEW d \in Documents, EraseDocument(d) PROVE ~Lost(c)'
  <2>1. c \in Published /\ d \notin Scope(c)
    BY <1>0, <1>2, Zenon DEF EraseDocument, Published, TablesTyped
  <2> QED
    BY <1>0, <1>2, <2>1, LostFrame, Zenon DEF StoreClean
<1>3. CASE ~Publishing /\ ~Erasing
  <2>1. c \in Published
    BY <1>3, PublishedFrame DEF Published
  <2> QED
    BY <1>0, <1>3, <2>1, LostFrame, Zenon DEF StoreClean
<1> QED
  BY <1>1, <1>2, <1>3 DEF Publishing, Erasing

(* Drafts.                                                                 *)
LEMMA DraftsClean ==
    ASSUME IInv, [Next]_vars, NEW x \in stagedCommits'
    PROVE  ~Lost(x[2])'
<1>0. /\ TypeOK /\ TablesTyped /\ RequestsTyped /\ StoreClean
      /\ stagedCommits' \subseteq Accounts \X Commits /\ x[2] \in Commits
  BY TypeParts, NextTypes, Zenon DEF IInv, TypeOK
<1>1. ASSUME NEW a \in Accounts, StageEnd(a) PROVE ~Lost(x[2])'
  <2>1. documents' = documents
    BY <1>1, Zenon DEF StageEnd
  <2>2. CASE x \in stagedCommits
    BY <1>0, <2>1, <2>2, Zenon DEF StoreClean, Lost
  <2>3. CASE x \notin stagedCommits
    <3>1. x[2] = requests[a].commit
      <4>1. stagedCommits' = stagedCommits \cup {<<a, requests[a].commit>>}
        BY <1>1, Zenon DEF StageEnd
      <4>2. x = <<a, requests[a].commit>>
        BY <2>3, <4>1
      <4> QED
        BY <4>2
    <3>2. MayWrite(a, Scope(requests[a].commit))
      BY <1>1, Zenon DEF StageEnd
    <3>3. \A d \in Scope(x[2]) : documents[d] # "gone"
      BY <3>1, <3>2, AllowedIsThere, Zenon
    <3> QED
      BY <2>1, <3>3 DEF Lost
  <2> QED
    BY <2>2, <2>3
<1>2. ASSUME NEW d \in Documents, EraseDocument(d) PROVE ~Lost(x[2])'
  <2>1. x \in stagedCommits /\ d \notin Scope(x[2])
    BY <1>0, <1>2, Zenon DEF EraseDocument
  <2> QED
    BY <1>0, <1>2, <2>1, LostFrame, Zenon DEF StoreClean
<1>3. CASE ~Erasing /\ ~\E a \in Accounts : StageEnd(a)
  <2>1. x \in stagedCommits
    BY <1>3, DraftsFrame
  <2> QED
    BY <1>0, <1>3, <2>1, LostFrame, Zenon DEF StoreClean
<1> QED
  BY <1>1, <1>2, <1>3 DEF Erasing

(* Private objects.                                                        *)
LEMMA ObjectsClean ==
    ASSUME IInv, [Next]_vars, NEW x \in stagedObjects'
    PROVE  documents'[DocumentOf[x[2]]] # "gone"
<1>0. /\ TypeOK /\ TablesTyped /\ StoreClean /\ x[2] \in Objects /\ DocumentOf[x[2]] \in Documents
  BY TypeParts, NextTypes, HistoryAssumption, Zenon DEF IInv, TypeOK
<1>1. ASSUME NEW a \in Accounts, NEW c \in Drafts, NEW o \in Content(c), Upload(a, o)
      PROVE  documents'[DocumentOf[x[2]]] # "gone"
  <2>1. documents' = documents /\ documents[DocumentOf[o]] # "gone"
    BY <1>1, AllowedIsThere, Zenon DEF Upload
  <2> QED
    <3>1. stagedObjects' = stagedObjects \cup {<<a, o>>}
      BY <1>1 DEF Upload
    <3>2. CASE x \in stagedObjects
      BY <1>0, <2>1, <3>2, Zenon DEF StoreClean
    <3>3. CASE x = <<a, o>>
      BY <2>1, <3>3
    <3> QED
      BY <3>1, <3>2, <3>3
<1>2. ASSUME NEW a \in Accounts, NEW c \in Drafts, NEW S \in SUBSET Content(c), Acknowledge(a, c, S)
      PROVE  documents'[DocumentOf[x[2]]] # "gone"
  <2>1. documents' = documents
    BY <1>2 DEF Acknowledge
  <2>2. PICK r \in Files[c] : {r} \X S \subseteq publishedObjects
    BY <1>2 DEF Acknowledge
  <2>3. \A o \in S : documents[DocumentOf[o]] # "gone"
    <3> SUFFICES ASSUME NEW o \in S PROVE documents[DocumentOf[o]] # "gone"
      OBVIOUS
    <3>1. <<r, o>> \in publishedObjects
      BY <2>2
    <3>2. documents[DocumentOf[<<r, o>>[2]]] # "gone"
      BY <1>0, <3>1 DEF StoreClean
    <3> QED
      BY <3>2
  <2> QED
    BY <1>0, <1>2, <2>1, <2>3, Zenon DEF Acknowledge, StoreClean
<1>3. ASSUME NEW d \in Documents, EraseDocument(d) PROVE documents'[DocumentOf[x[2]]] # "gone"
  BY <1>0, <1>3, Zenon DEF EraseDocument, StoreClean, TablesTyped
<1>4. CASE /\ ~Erasing
           /\ ~\E a \in Accounts, c \in Drafts : \E o \in Content(c) : Upload(a, o)
           /\ ~\E a \in Accounts, c \in Drafts : \E S \in SUBSET Content(c) : Acknowledge(a, c, S)
  <2>1. x \in stagedObjects
    BY <1>4, ObjectsFrame
  <2> QED
    BY <1>0, <1>4, <2>1, DocumentsFrame, Zenon DEF StoreClean
<1> QED
  BY <1>1, <1>2, <1>3, <1>4, Zenon DEF Erasing

(* Published objects.                                                      *)
LEMMA RowsClean ==
    ASSUME IInv, [Next]_vars, NEW x \in publishedObjects'
    PROVE  documents'[DocumentOf[x[2]]] # "gone"
<1>0. /\ TypeOK /\ TablesTyped /\ RequestsTyped /\ StoreClean
      /\ x[2] \in Objects /\ DocumentOf[x[2]] \in Documents
  BY TypeParts, NextTypes, HistoryAssumption, Zenon DEF IInv, TypeOK
<1>1. ASSUME NEW a \in Accounts, PublishEnd(a) PROVE documents'[DocumentOf[x[2]]] # "gone"
  <2> DEFINE c == requests[a].commit
  <2>1. /\ c \in Commits /\ documents' = documents /\ MayWrite(a, Scope(c))
        /\ publishedObjects' = publishedObjects \cup Rows(c)
    BY <1>0, <1>1, RequestFields, Zenon DEF PublishEnd
  <2> HIDE DEF c
  <2>2. \A y \in Rows(c) : documents[DocumentOf[y[2]]] # "gone"
    BY <2>1, RowsInScope, AllowedIsThere, Zenon
  <2> QED
    BY <1>0, <2>1, <2>2, Zenon DEF StoreClean
<1>2. ASSUME NEW d \in Documents, EraseDocument(d) PROVE documents'[DocumentOf[x[2]]] # "gone"
  BY <1>0, <1>2, Zenon DEF EraseDocument, StoreClean, TablesTyped
<1>3. CASE ~Publishing /\ ~Erasing
  <2>1. x \in publishedObjects
    BY <1>3, PublishedFrame
  <2> QED
    BY <1>0, <1>3, <2>1, DocumentsFrame, Zenon DEF StoreClean
<1> QED
  BY <1>1, <1>2, <1>3 DEF Publishing, Erasing

(* Reviews.                                                                *)
LEMMA ReviewsClean ==
    ASSUME IInv, [Next]_vars, NEW i \in Recorded'
    PROVE  ~Lost(reviews[i].target.candidate)'
<1>0. /\ TypeOK /\ TablesTyped /\ RequestsTyped /\ StoreClean
      /\ reviews' \in Seq(Reviews \cup {NoReview})
  BY TypeParts, NextTypes, Zenon DEF IInv, TypeOK
<1>1. i \in DOMAIN reviews' /\ reviews'[i] # NoReview /\ reviews'[i] \in Reviews
  BY <1>0 DEF Recorded
<1>2. reviews'[i].target.candidate \in Commits
  BY <1>1 DEF Reviews, Targets
<1>3. ASSUME i \in Recorded, reviews'[i] = reviews[i], ~Erasing
      PROVE  ~Lost(reviews[i].target.candidate)'
  <2>1. ~Lost(reviews[i].target.candidate)
    BY <1>0, <1>3 DEF StoreClean
  <2> QED
    BY <1>0, <1>2, <1>3, <2>1, LostFrame, Zenon DEF Lost
<1>4. ASSUME NEW a \in Accounts, ReviewEnd(a) PROVE ~Lost(reviews[i].target.candidate)'
  <2> DEFINE t == requests[a].target
  <2>1. /\ t.candidate \in Commits /\ documents' = documents /\ MayRead(a, Scope(t.candidate))
        /\ reviews' = Append(reviews, [target |-> t, reviewer |-> a, decision |-> requests[a].decision])
    BY <1>0, <1>4, RequestFields, Zenon DEF ReviewEnd, Targets
  <2>2. ~Erasing
    BY <1>0, <2>1, Zenon DEF Erasing, EraseDocument, TablesTyped
  <2> HIDE DEF t
  <2>3. CASE i = Len(reviews) + 1
    <3>1. reviews'[i].target = t
      BY <1>0, <2>1, <2>3 DEF TablesTyped
    <3> QED
      BY <2>1, <3>1, AllowedIsThere, Zenon DEF Lost
  <2>4. CASE i # Len(reviews) + 1
    <3>1. i \in DOMAIN reviews /\ reviews'[i] = reviews[i]
      <4> DEFINE r == [target |-> t, reviewer |-> a, decision |-> requests[a].decision]
      <4>1. reviews \in Seq(Reviews \cup {NoReview}) /\ reviews' = Append(reviews, r)
        BY <1>0, <2>1 DEF TablesTyped
      <4> HIDE DEF r
      <4>2. Len(reviews') = Len(reviews) + 1 /\ DOMAIN reviews' = 1..Len(reviews')
            /\ Len(reviews) \in Nat
        BY <4>1
      <4>3. i \in 1..Len(reviews)
        BY <1>1, <2>4, <4>2
      <4> QED
        BY <4>1, <4>3
    <3>2. i \in Recorded
      BY <1>1, <3>1 DEF Recorded
    <3> QED
      BY <1>3, <2>2, <3>1, <3>2
  <2> QED
    BY <2>3, <2>4
<1>5. ASSUME NEW d \in Documents, EraseDocument(d) PROVE ~Lost(reviews[i].target.candidate)'
  <2>1. /\ i \in Recorded /\ reviews'[i] = reviews[i]
        /\ reviews[i].target.candidate \notin {c \in Commits : d \in Scope(c)}
    BY <1>1, <1>5, Zenon DEF EraseDocument, Recorded
  <2>2. ~Lost(reviews[i].target.candidate)
    BY <1>0, <2>1 DEF StoreClean
  <2>3. ASSUME NEW c \in Commits, c = reviews[i].target.candidate PROVE ~Lost(c)'
    BY <1>0, <1>5, <2>1, <2>2, <2>3, LostFrame, Zenon
  <2> QED
    BY <1>2, <2>1, <2>3 DEF Lost
<1>6. CASE ~Erasing /\ ~\E a \in Accounts : ReviewEnd(a)
  <2>1. reviews' = reviews /\ i \in Recorded
    BY <1>1, <1>6, ReviewsFrame DEF Recorded
  <2> QED
    BY <1>3, <1>6, <2>1
<1> QED
  BY <1>4, <1>5, <1>6 DEF Erasing

(* Releases.                                                               *)
LEMMA ReleasesClean ==
    ASSUME IInv, [Next]_vars, NEW n \in Names, releases'[n] # NoCommit
    PROVE  ~Lost(releases[n])'
<1>1. ReleasesAccepted'
  BY ReleasesStep
<1>2. releases'[n] \in Published'
  BY <1>1 DEF ReleasesAccepted
<1>3. \A c \in Published' : ~Lost(c)'
  BY PublishedClean
<1> QED
  BY <1>2, <1>3 DEF Lost

(* The private history of an account.                                      *)
LEMMA AccountsClean ==
    ASSUME IInv, [Next]_vars, NEW a \in Accounts, accounts'[a] = "erased",
           NEW x \in stagedObjects' \cup stagedCommits'
    PROVE  x[1] # a
<1>0. TypeOK /\ TablesTyped /\ RequestsTyped /\ StoreClean
  BY TypeParts DEF IInv
<1>1. ASSUME NEW b \in Accounts, NEW c \in Drafts, NEW o \in Content(c), Upload(b, o) PROVE x[1] # a
  <2>1. accounts' = accounts /\ Active(b)
    BY <1>1, Zenon DEF Upload, Free, people
  <2> QED
    <3>1. stagedObjects' = stagedObjects \cup {<<b, o>>} /\ stagedCommits' = stagedCommits
      BY <1>1 DEF Upload
    <3>2. CASE x \in stagedObjects \cup stagedCommits
      BY <1>0, <2>1, <3>2, Zenon DEF StoreClean
    <3>3. CASE x = <<b, o>>
      BY <2>1, <3>3 DEF Active
    <3> QED
      BY <3>1, <3>2, <3>3
<1>2. ASSUME NEW b \in Accounts, NEW c \in Drafts, NEW S \in SUBSET Content(c), Acknowledge(b, c, S)
      PROVE  x[1] # a
  <2>1. accounts' = accounts /\ Active(b)
    BY <1>2, Zenon DEF Acknowledge, Free, people
  <2> QED
    BY <1>0, <1>2, <2>1, Zenon DEF Acknowledge, StoreClean, Active
<1>3. ASSUME NEW b \in Accounts, StageEnd(b) PROVE x[1] # a
  <2>1. accounts' = accounts /\ Active(b)
    BY <1>0, <1>3, Zenon DEF StageEnd, Running, RequestsTyped, people
  <2> QED
    <3>1. /\ stagedCommits' = stagedCommits \cup {<<b, requests[b].commit>>}
          /\ stagedObjects' = stagedObjects
      BY <1>3, Zenon DEF StageEnd
    <3>2. CASE x \in stagedObjects \cup stagedCommits
      BY <1>0, <2>1, <3>2, Zenon DEF StoreClean
    <3>3. CASE x = <<b, requests[b].commit>>
      BY <2>1, <3>3 DEF Active
    <3> QED
      BY <3>1, <3>2, <3>3, Zenon
<1>4. ASSUME NEW b \in Accounts, EraseAccount(b) PROVE x[1] # a
  <2>1. CASE a = b
    BY <1>4, <2>1, Zenon DEF EraseAccount
  <2>2. CASE a # b
    BY <1>0, <1>4, <2>2, Zenon DEF EraseAccount, StoreClean, TablesTyped
  <2> QED
    BY <2>1, <2>2
<1>5. CASE /\ ~\E b \in Accounts : StageEnd(b) \/ EraseAccount(b)
           /\ ~\E b \in Accounts, c \in Drafts : \E o \in Content(c) : Upload(b, o)
           /\ ~\E b \in Accounts, c \in Drafts : \E S \in SUBSET Content(c) : Acknowledge(b, c, S)
  <2>1. accounts[a] = "erased"
    <3>1. \/ UNCHANGED accounts
          \/ \E b \in Accounts : DisableAccount(b)
      BY <1>5, Zenon DEF Next, vars, people, private, shared, inflight, Staging, Publication, Review,
             Advance, Release, Administration, Refuse, StageBegin, PublishBegin, PublishEnd,
             ReviewBegin, ReviewEnd, AdvanceBegin, AdvanceEnd, ReleaseBegin, ReleaseEnd,
             SetRole, SetRules, TrashDocument, EraseDocument, RevokeKey
    <3> QED
      BY <1>0, <3>1, Zenon DEF DisableAccount, TablesTyped
  <2>2. x \in stagedObjects \cup stagedCommits
    BY <1>5, ObjectsFrame, DraftsFrame
  <2> QED
    BY <1>0, <2>1, <2>2, Zenon DEF StoreClean
<1> QED
  BY <1>1, <1>2, <1>3, <1>4, <1>5, Zenon

(* Together: no step stores what is lost or belongs to an erased account.  *)
LEMMA CleanStep ==
    ASSUME IInv, [Next]_vars
    PROVE  StoreClean'
  BY PublishedClean, DraftsClean, ObjectsClean, RowsClean, ReviewsClean, ReleasesClean,
     AccountsClean, Zenon DEF StoreClean

-----------------------------------------------------------------------------
(* A project starts with a closed history, nothing staged, nobody waiting. *)
LEMMA InitInvariant ==
    ASSUME Init
    PROVE  IInv
<1>1. PICK s \in Starts :
         /\ publisher = [c \in Commits |-> IF c \in s.seeded THEN AuthorOf[c] ELSE Nobody]
         /\ publishedObjects = UNION {Rows(c) : c \in s.seeded}
  BY Zenon DEF Init
<1>2. s.seeded \subseteq Commits /\ \A c \in s.seeded : Dependencies(c) \subseteq s.seeded
  BY StartsAssumption
<1>3. Published = s.seeded
  BY <1>1, <1>2, HistoryAssumption DEF Published
<1>4. TypeOK
  BY InitTypes
<1>5. HistoryClosed
  BY <1>1, <1>2, <1>3 DEF HistoryClosed
<1>6. ReleasesAccepted
  BY Zenon DEF Init, ReleasesAccepted
<1>7. Authored
  BY <1>1, <1>2, <1>3, Zenon DEF Init, Authored, Running
<1>8. Loaded
  <2>1. \A a \in Accounts : requests[a] = Idle
    BY DEF Init
  <2> QED
    BY <2>1, Zenon DEF Loaded, Running
<1>9. StoreClean
  <2>1. \A d \in Documents : documents[d] # "gone"
    BY DEF Init
  <2>2. \A c \in Commits : ~Lost(c)
    BY <2>1, ScopeIsDocuments DEF Lost
  <2>3. \A x \in publishedObjects : documents[DocumentOf[x[2]]] # "gone"
    BY <1>1, <1>2, <2>1, RowsInScope
  <2>4. Published \subseteq Commits
    BY DEF Published
  <2> QED
    BY <2>2, <2>3, <2>4 DEF Init, StoreClean, Recorded
<1> QED
  BY <1>4, <1>5, <1>6, <1>7, <1>8, <1>9 DEF IInv

(* The invariant holds for any accounts, documents, branches, commits,     *)
(* rules and bounds: every handler of project_history.rs and               *)
(* project_staging.rs keeps it, although it reads before it locks.         *)
THEOREM ProjectInvariant == Spec => []IInv
<1>1. Init => IInv
  BY InitInvariant
<1>2. IInv /\ [Next]_vars => IInv'
  BY NextTypes, ClosedStep, ReleasesStep, CleanStep, AuthoredStep, LoadedStep DEF IInv
<1> QED
  BY <1>1, <1>2, PTL DEF Spec

(* HistorySound, for every instance: in every state, between and inside    *)
(* requests, published commits are readable in full and releases name      *)
(* commits that protected main accepted.                                   *)
THEOREM HistoryStaysSound == Spec => []HistorySound
<1>1. IInv => HistorySound
  BY DEF IInv, HistorySound
<1> QED
  BY <1>1, ProjectInvariant, PTL

(* ErasedIsGone, for every instance: no row of an erased document or       *)
(* account, whatever requests were under way.                              *)
THEOREM ErasedStaysGone == Spec => []ErasedIsGone
<1>1. ASSUME IInv PROVE ErasedIsGone
  <2>0. TypeOK /\ StoreClean
    BY <1>1 DEF IInv
  <2>1. ASSUME NEW d \in Documents, documents[d] = "gone",
               NEW c \in Commits, NEW x \in Commits, d \in DocumentsOf({x}),
               c = x \/ x \in Ancestry(c) \/ \E y \in Ancestry(c) : x \in Sources[y]
        PROVE  Lost(c)
    <3>1. /\ c \in Reach(c) /\ Reach(c) \subseteq Commits
          /\ \A y \in Reach(c) : Dependencies(y) \subseteq Reach(c)
      BY ReachCloses
    <3>2. x \in Reach(c)
      BY <2>1, <3>1, AncestryReached, Zenon DEF Dependencies
    <3>3. PICK o \in Files[x] : d = DocumentOf[o]
      BY <2>1, Zenon DEF DocumentsOf
    <3> QED
      BY <2>1, <3>2, <3>3, ScopeHolds, Zenon DEF Lost
  <2>2. ASSUME NEW d \in Documents, documents[d] = "gone"
        PROVE  \A x \in stagedObjects \cup publishedObjects : DocumentOf[x[2]] # d
    BY <2>0, <2>2 DEF StoreClean
  <2>3. /\ Published \subseteq Commits /\ \A x \in stagedCommits : x[2] \in Commits
        /\ \A n \in Names : releases[n] # NoCommit => releases[n] \in Commits
    BY <2>0 DEF TypeOK, Published
  <2>4. NoCommit \notin Commits
    BY HistoryAssumption
  <2> QED
    BY <2>0, <2>1, <2>2, <2>3, <2>4, Zenon DEF ErasedIsGone, StoreClean
<1> QED
  BY <1>1, ProjectInvariant, PTL

(* FastForwardOnly, for every instance: shared branches only append, and   *)
(* to the head's descendants.                                              *)
THEOREM BranchesFastForward == Spec => FastForwardOnly
<1> DEFINE A == \A b \in Branches : events'[b] # events[b] =>
                   /\ Len(events'[b]) = Len(events[b]) + 1
                   /\ SubSeq(events'[b], 1, Len(events[b])) = events[b]
                   /\ events[b] # <<>> => Newest(events[b]) \in Ancestry(Newest(events'[b]))
<1>1. ASSUME IInv, [Next]_vars PROVE [A]_vars
  <2>0. TablesTyped /\ RequestsTyped
    BY <1>1, TypeParts DEF IInv
  <2>1. ASSUME NEW a \in Accounts, AdvanceEnd(a), NEW b \in Branches, events'[b] # events[b]
        PROVE  /\ Len(events'[b]) = Len(events[b]) + 1
               /\ SubSeq(events'[b], 1, Len(events[b])) = events[b]
               /\ events[b] # <<>> => Newest(events[b]) \in Ancestry(Newest(events'[b]))
    <3> DEFINE t == requests[a].target
    <3>1. /\ t \in Targets /\ HeadOf(t.branch) = t.base
          /\ t.base.generation > 0 => FastForward(t.base.commit, t.candidate)
          /\ events' = [events EXCEPT ![t.branch] = Append(events[t.branch], t.candidate)]
      BY <2>0, <2>1, RequestFields, Zenon DEF AdvanceEnd
    <3> HIDE DEF t
    <3>2. t.branch = b /\ t.candidate \in Commits /\ events[b] \in Seq(Commits)
      BY <2>0, <2>1, <3>1 DEF TablesTyped, Targets
    <3>3. events'[b] = Append(events[b], t.candidate)
      BY <2>0, <3>1, <3>2, Zenon DEF TablesTyped
    <3>4. Newest(events'[b]) = t.candidate /\ Len(events'[b]) = Len(events[b]) + 1
      <4>1. /\ Len(events'[b]) = Len(events[b]) + 1 /\ Len(events[b]) \in Nat
            /\ events'[b][Len(events[b]) + 1] = t.candidate
        BY <3>2, <3>3
      <4> QED
        BY <4>1, Zenon DEF Newest
    <3>5. SubSeq(events'[b], 1, Len(events[b])) = events[b]
      BY <3>2, <3>3
    <3>6. ASSUME events[b] # <<>> PROVE Newest(events[b]) \in Ancestry(t.candidate)
      <4>1. t.base.generation > 0 /\ t.base.commit = Newest(events[b])
        BY <2>0, <3>1, <3>2, <3>6, HeadTyped, SMTT(30) DEF Newest
      <4> QED
        BY <3>1, <4>1, Zenon DEF FastForward
    <3> QED
      BY <3>4, <3>5, <3>6, Zenon
  <2>2. CASE ~\E a \in Accounts : AdvanceEnd(a)
    BY <1>1, <2>2, EventsFrame
  <2> QED
    BY <2>1, <2>2, Zenon
<1> QED
  BY <1>1, ProjectInvariant, PTL DEF Spec, FastForwardOnly

(* An advance of main has been reviewed.                                   *)
LEMMA MainReviewed ==
    ASSUME IInv, [Next]_vars, events'[Main] # events[Main]
    PROVE  LET c == Newest(events'[Main])
               t == [branch |-> Main, candidate |-> c, base |-> HeadOf(Main)]
               peers == {a \in Accounts \ {AuthorOf[c]} : IsReviewer(a, Scope(c))}
           IN  /\ \A a \in peers : ~Says(a, "request_changes", t)
               /\ \A p \in Scope(c) \cup {Project} :
                    Cardinality({a \in peers : Says(a, "approve", t)}) >= rules[p].approvals
<1>0. TypeOK /\ TablesTyped /\ RequestsTyped /\ Authored /\ Loaded
  BY TypeParts DEF IInv
<1>1. PICK a \in Accounts : AdvanceEnd(a)
  BY EventsFrame
<1> DEFINE t == requests[a].target
<1> DEFINE c == Newest(events'[Main])
<1>2. /\ t \in Targets /\ HeadOf(t.branch) = t.base /\ Running(a, "advance")
      /\ MayWrite(a, Scope(t.candidate))
      /\ t.branch = Main => Accepted(a, t)
      /\ events' = [events EXCEPT ![t.branch] = Append(events[t.branch], t.candidate)]
  BY <1>0, <1>1, RequestFields, Zenon DEF AdvanceEnd
<1>3. t.branch = Main /\ t.candidate \in Commits
  <2>1. t.candidate \in Commits /\ Main \in Branches
    BY <1>2, HistoryAssumption, Zenon DEF Targets
  <2>2. CASE t.branch # Main
    BY <1>0, <1>2, <2>1, <2>2, Zenon DEF TablesTyped
  <2> QED
    BY <2>1, <2>2
<1>4. c = t.candidate
  <2>1. Main \in Branches /\ events \in [Branches -> Seq(Commits)]
    BY <1>0, HistoryAssumption, Zenon DEF TablesTyped
  <2>2. events[Main] \in Seq(Commits) /\ events'[Main] = Append(events[Main], t.candidate)
    BY <1>2, <1>3, <2>1, Zenon
  <2> QED
    BY <1>3, <2>2, NewestAppended
<1>5. t = [branch |-> Main, candidate |-> c, base |-> HeadOf(Main)]
  BY <1>2, <1>3, <1>4, Zenon DEF Targets
<1>6. c \in Published /\ publisher[c] = AuthorOf[c]
  <2>1. ~Lost(t.candidate)
    BY <1>2, <1>3, AllowedIsThere, SMTT(30) DEF Lost
  <2> QED
    BY <1>0, <1>2, <1>4, <2>1, Zenon DEF Loaded, Authored
<1> DEFINE peers == {b \in Accounts \ {AuthorOf[c]} : IsReviewer(b, Scope(c))}
<1> DEFINE heard == {b \in Accounts \ {publisher[t.candidate]} : LatestBy(b, t) # "none"}
<1> DEFINE eligible == {b \in heard : IsReviewer(b, Scope(t.candidate))}
<1> DEFINE approving == {b \in peers : Says(b, "approve", t)}
<1>7. /\ \A b \in eligible : LatestBy(b, t) = "approve"
      /\ Cardinality(eligible) >= Rules(Scope(t.candidate)).approvals
  BY <1>2, <1>3, Zenon DEF Accepted
<1>8. \A b \in peers : LatestBy(b, t) # "none" => b \in eligible
  BY <1>4, <1>6, Zenon
<1>9. \A b \in peers : ~Says(b, "request_changes", t)
  <2> SUFFICES ASSUME NEW b \in peers, Says(b, "request_changes", t) PROVE FALSE
    BY Zenon
  <2>1. LatestBy(b, t) = "request_changes"
    BY <1>0, LatestIsSaid, Zenon DEF Decisions
  <2> QED
    BY <1>7, <1>8, <2>1, Zenon
<1>10. eligible \subseteq approving
  <2> SUFFICES ASSUME NEW b \in eligible PROVE b \in peers /\ Says(b, "approve", t)
    BY Zenon
  <2>1. b \in peers
    BY <1>4, <1>6, Zenon
  <2>2. LatestBy(b, t) = "approve"
    BY <1>7, Zenon
  <2> QED
    BY <1>0, <2>1, <2>2, LatestIsSaid, Zenon DEF Decisions
<1>11. IsFiniteSet(approving) /\ IsFiniteSet(eligible)
  <2>1. IsFiniteSet(Accounts)
    BY HistoryAssumption, Zenon
  <2>2. approving \subseteq Accounts /\ eligible \subseteq Accounts
    BY Zenon
  <2> HIDE DEF eligible, approving
  <2> QED
    BY <2>1, <2>2, FS_Subset, Zenon
<1>14. Cardinality(eligible) >= Rules(Scope(c)).approvals
  BY <1>4, <1>7, Zenon
<1> HIDE DEF eligible, approving, c, t
<1>12. /\ Cardinality(eligible) <= Cardinality(approving)
       /\ Cardinality(eligible) \in Nat /\ Cardinality(approving) \in Nat
  BY <1>10, <1>11, FS_Subset, FS_CardinalityType, SMTT(30)
<1>13. \A p \in Scope(c) \cup {Project} : Cardinality(approving) >= rules[p].approvals
  <2> SUFFICES ASSUME NEW p \in Scope(c) \cup {Project} PROVE Cardinality(approving) >= rules[p].approvals
    BY Zenon
  <2>1. /\ Rules(Scope(c)).approvals >= rules[p].approvals
        /\ Rules(Scope(c)).approvals \in Nat /\ rules[p].approvals \in Nat
    BY <1>0, <1>3, <1>4, RulesAtLeast, Zenon
  <2> QED
    BY <1>12, <1>14, <2>1, SMTT(30)
<1> QED
  BY <1>5, <1>9, <1>13, Zenon DEF approving, c, t

(* ReviewedMain, for every instance: an advance of protected main has the  *)
(* standing approvals that every place of its scope asks for at that       *)
(* moment, and no standing objection.                                      *)
THEOREM MainIsReviewed == Spec => ReviewedMain
<1>1. ASSUME IInv, [Next]_vars
      PROVE  [events'[Main] # events[Main] =>
                LET c == Newest(events'[Main])
                    says(a, decision) == \E i \in Recorded :
                        /\ reviews[i].reviewer = a
                        /\ reviews[i].decision = decision
                        /\ reviews[i].target = [branch |-> Main, candidate |-> c, base |-> HeadOf(Main)]
                        /\ \A j \in Recorded \cap (i + 1 .. Len(reviews)) :
                             reviews[j].reviewer # a \/ reviews[j].target # reviews[i].target
                    peers == {a \in Accounts \ {AuthorOf[c]} : IsReviewer(a, Scope(c))}
                IN  /\ \A a \in peers : ~says(a, "request_changes")
                    /\ \A p \in Scope(c) \cup {Project} :
                         Cardinality({a \in peers : says(a, "approve")}) >= rules[p].approvals]_vars
  BY <1>1, MainReviewed, Zenon DEF Says
<1> QED
  BY <1>1, ProjectInvariant, PTL DEF Spec, ReviewedMain
=============================================================================
