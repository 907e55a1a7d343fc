----------------------------- MODULE Connectors -----------------------------
(***************************************************************************)
(* An editor add-in joined to one document (engine-api/src/provenance.rs): *)
(* the grants a person gives it, the bundles of changes it pushes, what it *)
(* reads back, the images it stores, and the proposals it closes; and the  *)
(* tokens that name nodes in an exported file (export_tokens.rs).          *)
(*                                                                         *)
(* One document and one person.  A request first finds its grant           *)
(* (Connector::from_request_parts, a statement of its own) and only then   *)
(* does its work in a transaction, so a request is two steps, and a merge  *)
(* three.  The chain hash of a revision is the history up to it.           *)
(***************************************************************************)
EXTENDS Integers, FiniteSetsExt, SequencesExt

CONSTANTS
  Doors,              \* the connection challenges: a grant is known by its hash
  Hosts,              \* the editors of this kind of document
  Requests,           \* the requests there may be at a time
  Bundles, Contents,  \* bundle ids, and what may be in a bundle
  Blocks,             \* the nodes of the document
  Images, Size,       \* images and how large they are
  Exports,            \* the export ids there may be
  MaxGrants, MEDIA_QUOTA_BYTES,
  KindSets,           \* the kinds of request that are made together
  MaxLog, MaxEndings,
  Nothing

VARIABLES
  history,            \* the document's events: the node each one changed
  account,            \* the person: role in the document, session generation
  grants,             \* connector_grant, by the hash of its secret
  bundles,            \* provenance_bundle
  proposals,          \* the drafts pushed, by bundle
  media,              \* connector_media
  asked,              \* requests under way
  answers,            \* receipts given out, and what the last token named
  file,               \* what the add-in holds: a revision and the nodes at it
  exports,            \* export_node_token, by export
  endings,            \* things that end a grant, counted
  kinds               \* the requests made in this behaviour

connVars == <<history, account, grants, bundles, proposals, media, asked, answers, file,
              exports, endings, kinds>>

Idle == [kind |-> "idle", grant |-> Nothing, arg |-> Nothing]

\* the state at a revision: the event that wrote each node last
state_through(seq) ==
    [n \in {history[i] : i \in 1 .. seq} |-> Max({i \in 1 .. seq : history[i] = n})]

anchor(seq) == SubSeq(history, 1, seq)

usable(g) ==
    /\ grants[g] # Nothing
    /\ ~grants[g].revoked /\ ~grants[g].expired
    /\ grants[g].generation = account.generation

\* A mutant: a grant found when the request came in is good for all of it.
check_grant_once(g) == grants[g] # Nothing

check_grant(g) == usable(g)

---------------------------------------------------------------------------
(* The person.                                                              *)

grant(g, host) ==
    /\ account.role \in {"contributor", "editor"}
    /\ IF usable(g) /\ grants[g].host = host
       THEN UNCHANGED grants
       ELSE /\ Cardinality({d \in Doors : grants[d] # Nothing /\ ~grants[d].revoked
                                          /\ ~grants[d].expired}) < MaxGrants
            /\ grants[g] = Nothing
            /\ grants' = [grants EXCEPT ![g] = [host |-> host, generation |-> account.generation,
                                                revoked |-> FALSE, expired |-> FALSE]]
    /\ UNCHANGED <<history, account, bundles, proposals, media, asked, answers, file, exports,
                   endings, kinds>>

revoke(g) ==
    /\ grants[g] # Nothing /\ ~grants[g].revoked /\ endings < MaxEndings
    /\ grants' = [grants EXCEPT ![g].revoked = TRUE]
    /\ endings' = endings + 1
    /\ UNCHANGED <<history, account, bundles, proposals, media, asked, answers, file, exports, kinds>>

expires(g) ==
    /\ grants[g] # Nothing /\ ~grants[g].expired /\ endings < MaxEndings
    /\ grants' = [grants EXCEPT ![g].expired = TRUE]
    /\ endings' = endings + 1
    /\ UNCHANGED <<history, account, bundles, proposals, media, asked, answers, file, exports, kinds>>

\* signed out everywhere, or another role in the document
account_changes ==
    /\ endings < MaxEndings
    /\ \/ account' = [account EXCEPT !.generation = @ + 1]
       \/ \E r \in {"viewer", Nothing} \ {account.role} :
            account' = [account EXCEPT !.role = r]
    /\ endings' = endings + 1
    /\ UNCHANGED <<history, grants, bundles, proposals, media, asked, answers, file, exports, kinds>>

team_edit(n) ==
    /\ Len(history) < MaxLog
    /\ history' = Append(history, n)
    /\ UNCHANGED <<account, grants, bundles, proposals, media, asked, answers, file, exports,
                   endings, kinds>>

---------------------------------------------------------------------------
(* Requests of the add-in.                                                  *)

\* from_request_parts: the grant is found by the hash of the secret
arrives(c, g, kind, arg) ==
    /\ asked[c].kind = "idle" /\ kind \in kinds
    /\ usable(g)
    /\ asked' = [asked EXCEPT ![c] = [kind |-> kind, grant |-> g, arg |-> arg]]
    /\ UNCHANGED <<history, account, grants, bundles, proposals, media, answers, file, exports,
                   endings, kinds>>

\* the request ends without effect: refused, or its connection is gone
refused(c) ==
    /\ asked[c].kind # "idle"
    /\ asked' = [asked EXCEPT ![c] = Idle]
    /\ UNCHANGED <<history, account, grants, bundles, proposals, media, answers, file, exports,
                   endings, kinds>>

connector_tx(c) == account.role # Nothing /\ check_grant(asked[c].grant)

\* A mutant: the upload is looked for by its content, not by its bundle.
prepare_again(b, content, base, hash) ==
    IF hash # anchor(base) THEN "differs"
    ELSE IF \E x \in Bundles : bundles[x] # Nothing /\ bundles[x].digest = <<content, base>>
         THEN "seen" ELSE "new"

\* whether the bundle is new, was seen with this very body, or cannot be taken
prepare(b, content, base, hash) ==
    IF bundles[b] # Nothing
    THEN IF bundles[b].digest = <<content, base>> THEN "seen" ELSE "used"
    ELSE IF hash # anchor(base) THEN "differs" ELSE "new"

\* connector_push, propose, reviews::create, record: one transaction
connector_push(c) ==
    LET a == asked[c].arg
        g == asked[c].grant
        is == prepare(a.bundle, a.content, a.base, a.hash)
    IN /\ asked[c].kind = "push" /\ a.host = grants[g].host
       /\ a.base <= Len(history)
       /\ account.role \in {"contributor", "editor"} /\ check_grant(g)
       /\ is \in {"seen", "new"}
       /\ bundles' = IF is = "seen" THEN bundles
                     ELSE [bundles EXCEPT ![a.bundle] = [digest |-> <<a.content, a.base>>,
                                                         receipt |-> <<a.bundle, a.content>>]]
       /\ proposals' = IF is = "seen" THEN proposals
                       ELSE Append(proposals, [bundle |-> a.bundle, base |-> anchor(a.base),
                                               said |-> a.hash, revision |-> 1,
                                               merged |-> FALSE, closed |-> FALSE])
       /\ answers' = answers \cup {[bundle |-> a.bundle, content |-> a.content,
                                    receipt |-> IF is = "seen" THEN bundles[a.bundle].receipt
                                                ELSE <<a.bundle, a.content>>]}
       /\ asked' = [asked EXCEPT ![c] = Idle]
       /\ UNCHANGED <<history, account, grants, media, file, exports, endings, kinds>>

\* connector_checkpoint: the whole state at a revision
connector_checkpoint(c) ==
    /\ asked[c].kind = "checkpoint" /\ connector_tx(c)
    /\ \E seq \in 0 .. Len(history) :
         file' = [seq |-> seq, hash |-> anchor(seq), nodes |-> state_through(seq)]
    /\ asked' = [asked EXCEPT ![c] = Idle]
    /\ UNCHANGED <<history, account, grants, bundles, proposals, media, answers, exports, endings, kinds>>

\* A mutant: the first revision the add-in does not have is left out.
Changed_after(seq) == {history[i] : i \in {x \in 1 .. Len(history) : x > seq + 1}}

Changed(seq) == {history[i] : i \in {x \in 1 .. Len(history) : x > seq}}

\* the nodes changed since the revision the add-in holds, as they are now; the
\* add-in lays them over its own
connector_changes(c) ==
    /\ asked[c].kind = "changes" /\ connector_tx(c)
    /\ file.seq <= Len(history) /\ anchor(file.seq) = file.hash
    /\ LET now  == state_through(Len(history))
           sent == Changed(file.seq) \cap DOMAIN now
       IN file' = [seq |-> Len(history), hash |-> anchor(Len(history)),
                   nodes |-> [n \in DOMAIN file.nodes \cup sent |->
                                IF n \in sent THEN now[n] ELSE file.nodes[n]]]
    /\ asked' = [asked EXCEPT ![c] = Idle]
    /\ UNCHANGED <<history, account, grants, bundles, proposals, media, answers, exports, endings, kinds>>

Stored(M) == FoldSet(LAMBDA i, n : Size[i] + n, 0, M)

\* the document's images are locked while the quota is looked at
connector_media_put(c) ==
    LET i == asked[c].arg
    IN /\ asked[c].kind = "media" /\ connector_tx(c)
       /\ account.role \in {"contributor", "editor"}
       /\ i \in media \/ Stored(media) + Size[i] <= MEDIA_QUOTA_BYTES
       /\ media' = media \cup {i}
       /\ asked' = [asked EXCEPT ![c] = Idle]
       /\ UNCHANGED <<history, account, grants, bundles, proposals, answers, file, exports,
                      endings, kinds>>

connector_media_missing(wanted) == wanted \ media

\* connector_merge: the revision of the person's own proposal and the head of the
\* document are read in a transaction that ends before reviews::merge begins
merge_reads(c) ==
    LET b == asked[c].arg
    IN /\ asked[c].kind = "merge" /\ connector_tx(c)
       /\ \E i \in DOMAIN proposals :
            /\ proposals[i].bundle = b
            /\ asked' = [asked EXCEPT ![c] = [kind |-> "merging", grant |-> @.grant,
                           arg |-> [at |-> i, revision |-> proposals[i].revision,
                                    team |-> Len(history)]]]
       /\ UNCHANGED <<history, account, grants, bundles, proposals, media, answers, file, exports,
                      endings, kinds>>

\* reviews::merge with the document and the draft as they were read: what has
\* changed since is a conflict
connector_merge(c) ==
    LET a == asked[c].arg
    IN /\ asked[c].kind = "merging"
       /\ account.role = "editor"
       /\ a.team = Len(history) /\ a.revision = proposals[a.at].revision
       /\ ~proposals[a.at].merged /\ ~proposals[a.at].closed
       /\ Len(history) < MaxLog
       /\ proposals' = [proposals EXCEPT ![a.at].merged = TRUE, ![a.at].revision = @ + 1]
       /\ \E n \in Blocks : history' = Append(history, n)
       /\ asked' = [asked EXCEPT ![c] = Idle]
       /\ UNCHANGED <<account, grants, bundles, media, answers, file, exports, endings, kinds>>

connector_withdraw(c) ==
    /\ asked[c].kind = "withdraw" /\ connector_tx(c)
    /\ \E i \in DOMAIN proposals :
         /\ proposals[i].bundle = asked[c].arg
         /\ ~proposals[i].merged /\ ~proposals[i].closed
         /\ proposals' = [proposals EXCEPT ![i].closed = TRUE, ![i].revision = @ + 1]
    /\ asked' = [asked EXCEPT ![c] = Idle]
    /\ UNCHANGED <<history, account, grants, bundles, media, answers, file, exports, endings, kinds>>

---------------------------------------------------------------------------
(* Tokens of an exported file.  A token is <<export, node>>.                *)

create_export_tokens(e, nodes) ==
    /\ exports[e] = Nothing /\ "resolve" \in kinds
    /\ account.role # Nothing
    /\ nodes # {} /\ nodes \subseteq {history[i] : i \in DOMAIN history}
    /\ exports' = [exports EXCEPT ![e] = [nodes |-> nodes, seq |-> Len(history),
                                          revoked |-> FALSE]]
    /\ UNCHANGED <<history, account, grants, bundles, proposals, media, asked, answers, file,
                   endings, kinds>>

revoke_export_tokens(e) ==
    /\ exports[e] # Nothing /\ ~exports[e].revoked
    /\ account.role # Nothing
    /\ exports' = [exports EXCEPT ![e].revoked = TRUE]
    /\ UNCHANGED <<history, account, grants, bundles, proposals, media, asked, answers, file,
                   endings, kinds>>

\* the caller is authenticated and the export looked up; its tokens are read later
resolve_begins(c) ==
    LET t == asked[c].arg
    IN /\ asked[c].kind = "resolve" /\ usable(asked[c].grant)
       /\ exports[t[1]] # Nothing /\ ~exports[t[1]].revoked
       /\ asked' = [asked EXCEPT ![c].kind = "resolving"]
       /\ UNCHANGED <<history, account, grants, bundles, proposals, media, answers, file, exports,
                      endings, kinds>>

\* A mutant: the export was looked at before, so its tokens are all good.
Resolves_looked(t) ==
    IF exports[t[1]] # Nothing /\ t[2] \in exports[t[1]].nodes THEN t[2] ELSE Nothing

Resolves(t) ==
    IF exports[t[1]] # Nothing /\ ~exports[t[1]].revoked /\ t[2] \in exports[t[1]].nodes
    THEN t[2] ELSE Nothing

resolve_export_tokens(c) ==
    /\ asked[c].kind = "resolving"
    /\ answers' = {a \in answers : "bundle" \in DOMAIN a}
                   \cup {[token |-> asked[c].arg, node |-> Resolves(asked[c].arg),
                          revoked |-> exports[asked[c].arg[1]].revoked]}
    /\ asked' = [asked EXCEPT ![c] = Idle]
    /\ UNCHANGED <<history, account, grants, bundles, proposals, media, file, exports, endings, kinds>>

---------------------------------------------------------------------------
ConnInit ==
    /\ history \in {<<n>> : n \in Blocks}
    /\ account = [role |-> "editor", generation |-> 0]
    /\ grants = [g \in Doors |-> Nothing]
    /\ bundles = [b \in Bundles |-> Nothing]
    /\ proposals = <<>>
    /\ media = {} /\ answers = {} /\ endings = 0
    /\ asked = [c \in Requests |-> Idle]
    /\ file = [seq |-> 0, hash |-> <<>>, nodes |-> <<>>]
    /\ exports = [e \in Exports |-> Nothing]
    /\ kinds \in KindSets

\* a bundle starts from the revision the add-in holds, or says it does
Pushes ==
    {[bundle |-> b, content |-> x, host |-> h, base |-> file.seq, hash |-> file.hash] :
        b \in Bundles, x \in Contents, h \in Hosts}
    \cup {[bundle |-> b, content |-> x, host |-> h, base |-> 1, hash |-> <<Nothing>>] :
        b \in Bundles, x \in {CHOOSE y \in Contents : TRUE}, h \in Hosts}

Asks(c, g) ==
    \/ \E a \in Pushes : arrives(c, g, "push", a)
    \/ \E kind \in {"checkpoint", "changes"} : arrives(c, g, kind, Nothing)
    \/ \E i \in connector_media_missing(Images) : arrives(c, g, "media", i)
    \/ \E b \in Bundles, kind \in {"merge", "withdraw"} : arrives(c, g, kind, b)
    \/ \E e \in Exports, n \in Blocks : arrives(c, g, "resolve", <<e, n>>)

ConnNext ==
    \/ account_changes
    \/ \E n \in Blocks : team_edit(n)
    \/ \E g \in Doors : revoke(g) \/ expires(g) \/ \E host \in Hosts : grant(g, host)
    \/ \E e \in Exports : revoke_export_tokens(e)
                          \/ \E nodes \in SUBSET Blocks : create_export_tokens(e, nodes)
    \/ \E c \in Requests :
         \/ \E g \in Doors : Asks(c, g)
         \/ refused(c)
         \/ connector_push(c) \/ connector_checkpoint(c) \/ connector_changes(c)
         \/ connector_media_put(c) \/ merge_reads(c) \/ connector_merge(c)
         \/ connector_withdraw(c) \/ resolve_begins(c) \/ resolve_export_tokens(c)

---------------------------------------------------------------------------
(* Properties.                                                              *)

\* What the add-in holds is the document at the revision it says, after every
\* refresh; a bundle became one proposal however often it was sent, with the
\* receipt that is given again, and it starts from the history the add-in named;
\* images stay within their limit.
FileFollows ==
    /\ file.nodes = state_through(file.seq) /\ file.hash = anchor(file.seq)
    /\ \A i, j \in DOMAIN proposals : proposals[i].bundle = proposals[j].bundle => i = j
    /\ \A i \in DOMAIN proposals : proposals[i].base = proposals[i].said
    /\ Stored(media) <= MEDIA_QUOTA_BYTES
    /\ \A a, b \in {x \in answers : "bundle" \in DOMAIN x} :
         a.bundle = b.bundle => a.receipt = b.receipt /\ a.content = b.content

\* When a grant has ended, by being revoked, by its time, or by signing out
\* everywhere, nothing is written through it any more, not even by requests that
\* were let in before; and a token of an export that was revoked says nothing.
GrantEnds ==
    [][/\ (proposals' # proposals \/ media' # media) =>
            \E c \in Requests : /\ asked[c] # Idle /\ asked'[c] = Idle
                                /\ usable(asked[c].grant) \/ asked[c].kind = "merging"
       /\ \A a \in answers' \ answers : "token" \in DOMAIN a =>
            a.node \in {Nothing, a.token[2]} /\ (a.revoked => a.node = Nothing)]_connVars
=============================================================================
