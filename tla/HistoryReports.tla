--------------------------- MODULE HistoryReports ---------------------------
(***************************************************************************)
(* Reading what the server has page by page: its lists while other people  *)
(* write, and the reports of published history.                            *)
(***************************************************************************)
EXTENDS Integers, FiniteSets, SequencesExt, TLC

-----------------------------------------------------------------------------
(* The paged lists of the server.  A reader walks a list page by page, each *)
(* page a request of its own, while other people add and remove rows.  Every *)
(* list handler is an operator from the rows, the marker the reader sends    *)
(* back and the page size to a page: the rows returned, the next marker and  *)
(* whether there is one.                                                     *)
(*                                                                           *)
(* A row stands for an issue, a comment, a notification, a document, a       *)
(* project file, a release, an epoch or a raw activity row.  `id` is the     *)
(* unique key of its table, `at` its timestamp, which rows of one            *)
(* transaction share.                                                        *)

CONSTANTS
    Universe,     \* the rows that may exist
    Lists,        \* the lists walked
    Limits,       \* page sizes asked for
    Spans,        \* the time windows of the activity feed, narrow to wide
    Now,          \* a time no row is after
    RAW_PER_ITEM, \* raw activity rows read for one item
    MaxWrites     \* rows added or removed during one walk

VARIABLES
    rows,         \* the table
    walk,         \* the reader: list, limit, marker, what it got so far
    writes        \* changes made during the walk

pages_vars == <<rows, walk, writes>>

NoMarker == [id |-> 0, at |-> 0, doc |-> 0, kind |-> 0]

---------------------------------------------------------------------------
(* Orders.  A page is a prefix of the rows that come after the marker.      *)

\* "order by number desc", "order by seq", "order by created_at desc, id desc"
ById(a, b) == a.id < b.id
ByIdDown(a, b) == a.id > b.id
ByTimeDown(a, b) == \/ a.at > b.at
                    \/ a.at = b.at /\ a.id > b.id

\* the row comparison of the activity feed: (at, doc, kind, rid) descending
before_key(a, b) ==
    \/ a.at > b.at
    \/ a.at = b.at /\ a.doc > b.doc
    \/ a.at = b.at /\ a.doc = b.doc /\ a.kind > b.kind
    \/ a.at = b.at /\ a.doc = b.doc /\ a.kind = b.kind /\ a.id > b.id

Taken(s, n) == SubSeq(s, 1, IF Len(s) < n THEN Len(s) ELSE n)
Sorted(S, Less(_, _)) == SetToSortSeq(S, Less)

\* one row more than the page is read to learn whether there is another page
Lookahead(found, limit, after) ==
    [items |-> Taken(found, limit),
     next  |-> IF Len(found) > limit THEN found[limit] ELSE after]

\* the marker is the last row of a page that has rows; the reader asks until a
\* page is empty
UntilEmpty(found) ==
    [items |-> found, next |-> IF found = <<>> THEN NoMarker ELSE Last(found)]

---------------------------------------------------------------------------
(* The lists.                                                               *)

list_issues(R, marker, limit) ==
    Lookahead(Taken(Sorted({r \in R : marker = NoMarker \/ r.id < marker.id}, ByIdDown),
                    limit + 1), limit, NoMarker)

get_issue_comments(R, marker, limit) ==
    Lookahead(Taken(Sorted({r \in R : r.id > marker.id}, ById), limit + 1), limit, NoMarker)

list_discussions(R, marker, limit) ==
    Lookahead(Taken(Sorted({r \in R : marker = NoMarker \/ r.id < marker.id}, ByIdDown),
                    limit + 1), limit, NoMarker)

list_events(R, marker, limit) ==
    Lookahead(Taken(Sorted({r \in R : r.id >= marker.id + 1}, ById), limit + 1),
              limit, NoMarker)

\* the next epoch is that of the last statement of the page
rotations(R, marker, limit) ==
    Lookahead(Taken(Sorted({r \in R : r.id > marker.id}, ById), limit + 1), limit, NoMarker)

inventory(R, marker, limit) ==
    UntilEmpty(Taken(Sorted({r \in R : r.id > marker.id}, ById), limit))

history_reviews(R, marker, limit) ==
    UntilEmpty(Taken(Sorted({r \in R : r.id > marker.id}, ById), limit))

list_releases(R, marker, limit) ==
    UntilEmpty(Taken(Sorted({r \in R : r.id > marker.id}, ById), limit))

\* keyset on (created_at, id): the marker pins the exact row
list_documents_rows(R, marker, limit) ==
    Taken(Sorted({r \in R : \/ marker = NoMarker
                            \/ r.at < marker.at
                            \/ r.at = marker.at /\ r.id < marker.id}, ByTimeDown), limit)

\* A mutant: the keyset compares times alone.
list_documents_rows_time(R, marker, limit) ==
    Taken(Sorted({r \in R : marker = NoMarker \/ r.at < marker.at}, ByTimeDown), limit)

\* a full page may have a successor, possibly an empty one
list_documents(R, marker, limit) ==
    LET found == list_documents_rows(R, marker, limit)
    IN [items |-> found,
        next  |-> IF Len(found) = limit THEN Last(found) ELSE NoMarker]

\* notifications are paged by time alone: "created_at < before"
list_notifications(R, marker, limit) ==
    Lookahead(Taken(Sorted({r \in R : marker = NoMarker \/ r.at < marker.at}, ByTimeDown),
                    limit + 1), limit, NoMarker)

\* project files, requests and drafts, the workspace index, search and the agent
\* inbox: limit and offset, the marker counts the rows already returned
OffsetPage(R, marker, limit) ==
    LET found == Sorted(R, ByTimeDown)
        from  == SubSeq(found, marker.id + 1, Len(found))
    IN [items |-> Taken(from, limit),
        next  |-> IF Len(from) > limit
                  THEN [NoMarker EXCEPT !.id = marker.id + limit] ELSE NoMarker]

---------------------------------------------------------------------------
(* The activity feed: raw rows, folded into items.                          *)

\* the rows after the position and inside the time window, newest first
feed_sql(R, pos, oldest, window) ==
    Taken(Sorted({r \in R : (pos = NoMarker \/ before_key(pos, r)) /\ r.at > oldest},
                 before_key), window)

\* windows widen until one holds enough rows; the last has no oldest
FeedRows(R, pos, window) ==
    LET start  == IF pos = NoMarker THEN Now ELSE pos.at
        floors == [i \in 1 .. Len(Spans) |-> start - Spans[i]] \o <<-1>>
        full   == {i \in 1 .. Len(floors) :
                     Len(feed_sql(R, pos, floors[i], window)) >= window}
        widest == IF full = {} THEN Len(floors)
                  ELSE CHOOSE i \in full : \A j \in full : i <= j
    IN feed_sql(R, pos, floors[widest], window)

Edit == 1
Merged == 2

Folds(items, r) ==
    /\ r.kind = Edit
    /\ items # <<>>
    /\ Last(items).kind \in {Edit, Merged}
    /\ Last(items).at = r.at
    /\ Last(items).doc = r.doc
    /\ Last(items).actor = r.actor

\* A mutant: the row that did not fit is counted as consumed.
TakeRow_skip(acc, r, limit) ==
    CASE acc.more -> acc
      [] ~acc.more /\ Folds(acc.items, r) ->
            [acc EXCEPT !.items[Len(acc.items)].count = @ + 1, !.consumed = @ + 1]
      [] ~acc.more /\ ~Folds(acc.items, r) /\ Len(acc.items) = limit ->
            [acc EXCEPT !.more = TRUE, !.consumed = @ + 1]
      [] OTHER ->
            [acc EXCEPT !.items = Append(@, r @@ [count |-> 0]), !.consumed = @ + 1]

\* one row: counted into the last item, or the start of one, or left for the
\* next page when the page is full
TakeRow(acc, r, limit) ==
    CASE acc.more -> acc
      [] ~acc.more /\ Folds(acc.items, r) ->
            [acc EXCEPT !.items[Len(acc.items)].count = @ + 1, !.consumed = @ + 1]
      [] ~acc.more /\ ~Folds(acc.items, r) /\ Len(acc.items) = limit ->
            [acc EXCEPT !.more = TRUE]
      [] OTHER ->
            [acc EXCEPT
               !.items = Append(@, [at |-> r.at, doc |-> r.doc, kind |-> r.kind,
                                    actor |-> r.actor,
                                    count |-> IF r.kind = Edit THEN 1 ELSE 0]),
               !.consumed = @ + 1]

Fold(raw, limit) ==
    FoldLeft(LAMBDA acc, r : TakeRow(acc, r, limit),
             [items |-> <<>>, consumed |-> 0, more |-> FALSE], raw)

project_activity_feed(R, pos, limit) ==
    LET window == limit * RAW_PER_ITEM + 1
        raw    == FeedRows(R, pos, window)
        folded == Fold(raw, limit)
        more   == folded.more \/ Len(raw) = window
    IN [items |-> Taken(raw, folded.consumed),
        next  |-> IF more /\ folded.consumed > 0 THEN raw[folded.consumed] ELSE NoMarker,
        shown |-> folded.items]

---------------------------------------------------------------------------
(* The reader and the writers.                                              *)

PageOf(list, R, marker, limit) ==
    CASE list = "issues"        -> list_issues(R, marker, limit)
      [] list = "comments"      -> get_issue_comments(R, marker, limit)
      [] list = "discussions"   -> list_discussions(R, marker, limit)
      [] list = "events"        -> list_events(R, marker, limit)
      [] list = "rotations"     -> rotations(R, marker, limit)
      [] list = "inventory"     -> inventory(R, marker, limit)
      [] list = "reviews"       -> history_reviews(R, marker, limit)
      [] list = "releases"      -> list_releases(R, marker, limit)
      [] list = "documents"     -> list_documents(R, marker, limit)
      [] list = "notifications" -> list_notifications(R, marker, limit)
      [] list = "feed"          -> project_activity_feed(R, marker, limit)
      [] list = "files"         -> OffsetPage(R, marker, limit)

Precedes(list, a, b) ==
    CASE list \in {"issues", "discussions"} -> ByIdDown(a, b)
      [] list \in {"comments", "events", "rotations", "inventory", "reviews", "releases"} ->
            ById(a, b)
      [] list \in {"documents", "notifications", "files"} -> ByTimeDown(a, b)
      [] list = "feed" -> before_key(a, b)

NoWalk == [list |-> "none", done |-> TRUE]

PagesInit ==
    /\ rows \in {R \in SUBSET Universe : Cardinality(R) >= Cardinality(Universe) - 1}
    /\ walk = NoWalk
    /\ writes = 0

Start(list, limit) ==
    /\ walk = NoWalk
    /\ walk' = [list |-> list, limit |-> limit, marker |-> NoMarker, got |-> <<>>,
                counted |-> 0, pages |-> 0, stable |-> rows, ever |-> rows,
                cuts |-> {}, done |-> FALSE]
    /\ UNCHANGED <<rows, writes>>

\* rows an activity page tells of: a count for its edits, one for another row
Told(page) ==
    FoldLeft(LAMBDA n, item : n + item.count + (IF item.kind = Edit THEN 0 ELSE 1),
             0, page.shown)

NextPage ==
    /\ ~walk.done
    /\ LET page == PageOf(walk.list, rows, walk.marker, walk.limit)
       IN walk' = [walk EXCEPT
                     !.got = @ \o page.items,
                     !.counted = @ + (IF walk.list = "feed" THEN Told(page)
                                      ELSE Len(page.items)),
                     !.pages = @ + 1,
                     !.marker = page.next,
                     !.cuts = @ \cup {page.next.at},
                     !.done = page.next = NoMarker]
    /\ UNCHANGED <<rows, writes>>

\* another person adds a row, or removes or hides one, between two pages
AddRow(r) ==
    /\ ~walk.done
    /\ writes < MaxWrites
    /\ r \notin rows
    /\ rows' = rows \cup {r}
    /\ walk' = [walk EXCEPT !.ever = @ \cup {r}]
    /\ writes' = writes + 1

DropRow(r) ==
    /\ ~walk.done
    /\ writes < MaxWrites
    /\ r \in rows
    /\ rows' = rows \ {r}
    /\ walk' = [walk EXCEPT !.stable = @ \ {r}]
    /\ writes' = writes + 1

PagesNext ==
    \/ \E list \in Lists, limit \in Limits : Start(list, limit)
    \/ NextPage
    \/ \E r \in Universe : AddRow(r) \/ DropRow(r)

PagesSpec == PagesInit /\ [][PagesNext]_pages_vars

---------------------------------------------------------------------------
(* Properties.                                                              *)

\* rows a list may miss although they were there throughout: with an offset,
\* any row once the table changed under the reader; with the time alone, a row
\* that shares its time with the last row of a page
MayMiss ==
    CASE walk.list = "files" -> IF writes > 0 THEN Universe ELSE {}
      [] walk.list = "notifications" -> {r \in Universe : r.at \in walk.cuts}
      [] OTHER -> {}

\* A finished walk through the pages of a list returned every row that was
\* there from the first page to the last, none twice, in the order of the list
\* and none that never existed, however other people changed the table between
\* pages; it took at most one page more than there were rows; and the activity
\* feed, which folds edits of one person into one item, told of every row once.
PagesCover ==
    walk.list # "none" /\ walk.done =>
        /\ walk.stable \ MayMiss \subseteq Range(walk.got)
        /\ Range(walk.got) \subseteq walk.ever
        /\ walk.list # "files" =>
             \A i, j \in 1 .. Len(walk.got) :
                i < j => Precedes(walk.list, walk.got[i], walk.got[j])
        /\ walk.pages <= Cardinality(walk.ever) + 1
        /\ walk.counted = Len(walk.got)

-----------------------------------------------------------------------------
(* The reports of published history: the first-parent log, the comparison  *)
(* of two commits by file and of two versions of a file by node, and the   *)
(* list of releases (engine-core repository/log.rs and compare.rs,       *)
(* engine-api project_history.rs), and the client that walks their pages    *)
(* (engine-cli sync.rs).                                                    *)
(*                                                                          *)
(* The history is fixed; between two pages a commit may be erased, the      *)
(* reader may lose access and releases may be created.  Pages may reach the *)
(* client repeated, late or for another question, and for a log it asked to *)
(* verify the client trusts nothing a page says.  A commit is fetched by    *)
(* its address and its signature and address are recomputed, so a fetch     *)
(* gives the commit of that address or fails.                               *)

CONSTANTS
    History,       \* address -> [parents, message, files]
    States,        \* state root -> [nodes, comments]
    Names,         \* release names, as numbers
    Before,        \* the sets of releases there may be at first
    Misstated,     \* parents a page may claim for a commit
    Tips,          \* the commits logs are asked for
    Pairs,         \* the pairs of commits compared
    PageLimits,    \* page sizes
    Absent,
    MAX_COMMITS, MAX_PAGES, MaxTurns

VARIABLES
    published,     \* the commits not erased
    allowed,       \* the reader may read the project
    named,      \* release names
    changed,       \* erasures, revocations and releases so far
    reading           \* the client: its question, what it has accepted, its verdict

report_vars == <<published, allowed, named, changed, reading>>

Addresses == DOMAIN History

---------------------------------------------------------------------------
(* The server.                                                              *)

FirstParent(a) == IF History[a].parents = <<>> THEN Absent ELSE Head(History[a].parents)

\* the first n commits from an address along first parents, or all there are
FirstParents(a, n) ==
    LET walked[k \in 1 .. n] ==
          IF k = 1 THEN <<a>>
          ELSE LET p == FirstParent(Last(walked[k - 1]))
               IN IF p = Absent \/ Len(walked[k - 1]) < k - 1 THEN walked[k - 1]
                  ELSE Append(walked[k - 1], p)
    IN walked[n]

Entry(a) == [address |-> a, parents |-> History[a].parents, message |-> History[a].message]

Refused == [ok |-> FALSE]

\* every commit of the page must still be published; the page ends at a commit
\* without parents, or names the first parent it stopped before
first_parent_log(head, limit) ==
    LET found == FirstParents(head, limit)
    IN IF ToSet(found) \subseteq published
       THEN [ok |-> TRUE, entries |-> [i \in DOMAIN found |-> Entry(found[i])],
             next |-> FirstParent(Last(found))]
       ELSE Refused

\* the cursor carries the head it was minted for and where to go on
serve_log(head, cursor, limit) ==
    LET start == IF cursor = Absent THEN head ELSE cursor.next
        page  == first_parent_log(start, limit)
    IN IF ~allowed \/ (cursor # Absent /\ (cursor.head # head \/ cursor.next = head)) \/ ~page.ok
       THEN Refused
       ELSE [ok |-> TRUE, head |-> head, entries |-> page.entries,
             more |-> page.next # Absent,
             next_cursor |-> IF page.next = Absent THEN Absent
                             ELSE [head |-> head, next |-> page.next]]

\* added, removed or modified; an unchanged key is left out
Kind(from, to, k) ==
    CASE k \notin DOMAIN from -> "added"
      [] k \in DOMAIN from /\ k \notin DOMAIN to -> "removed"
      [] k \in DOMAIN from /\ k \in DOMAIN to /\ from[k] = to[k] -> "unchanged"
      [] OTHER -> "modified"

At(f, k) == IF k \in DOMAIN f THEN f[k] ELSE Absent

PathDiff(from, to, k) ==
    [key |-> k, kind |-> Kind(from, to, k), from |-> At(from, k), to |-> At(to, k),
     replaced |-> Kind(from, to, k) = "modified" /\ from[k].document # to[k].document]

\* the fields that differ, with their value on each side
FieldDiffs(f, t) ==
    LET ff == IF f = Absent THEN [x \in {} |-> Absent] ELSE f.fields
        tt == IF t = Absent THEN [x \in {} |-> Absent] ELSE t.fields
    IN {[field |-> k, from |-> At(ff, k), to |-> At(tt, k)] :
          k \in {k \in DOMAIN ff \cup DOMAIN tt : At(ff, k) # At(tt, k)}}

Attributes(n) == IF n = Absent THEN Absent ELSE n.attributes

NodeDiff(from, to, k) ==
    [key |-> k, kind |-> Kind(from, to, k),
     from |-> Attributes(At(from, k)), to |-> Attributes(At(to, k)),
     field_changes |-> FieldDiffs(At(from, k), At(to, k)),
     structural |-> Attributes(At(from, k)) # Attributes(At(to, k))]

Count(from, to, kind) ==
    Cardinality({k \in DOMAIN from \cup DOMAIN to : Kind(from, to, k) = kind})

Totals(from, to) ==
    [added |-> Count(from, to, "added"), removed |-> Count(from, to, "removed"),
     modified |-> Count(from, to, "modified"), unchanged |-> Count(from, to, "unchanged")]

Changes(totals) == totals.added + totals.removed + totals.modified

\* the changed keys after the cursor, in order, up to the limit
PageOfKeys(from, to, after, limit) ==
    LET keys == SetToSortSeq({k \in DOMAIN from \cup DOMAIN to :
                                Kind(from, to, k) # "unchanged" /\ k > after},
                             LAMBDA a, b : a < b)
    IN [keys |-> SubSeq(keys, 1, IF Len(keys) < limit THEN Len(keys) ELSE limit),
        more |-> Len(keys) > limit]

DiffPage(from, to, after, limit, Item(_, _, _)) ==
    LET page == PageOfKeys(from, to, after, limit)
    IN [ok |-> TRUE, totals |-> Totals(from, to),
        changes |-> [i \in DOMAIN page.keys |-> Item(from, to, page.keys[i])],
        more |-> page.more,
        next_cursor |-> IF page.more THEN Last(page.keys) ELSE 0]

compare_manifests(a, b, after, limit) ==
    DiffPage(History[a].files, History[b].files, after, limit, PathDiff)

compare_nodes(r, s, after, limit) ==
    DiffPage(States[r].nodes, States[s].nodes, after, limit, NodeDiff)
        @@ [identical |-> States[r] = States[s],
            comments_changed |-> States[r].comments # States[s].comments]

serve_compare(a, b, after, limit) ==
    IF allowed /\ {a, b} \subseteq published THEN compare_manifests(a, b, after, limit)
    ELSE Refused

NoNodes == [ok |-> TRUE, totals |-> [added |-> 0, removed |-> 0, modified |-> 0,
            unchanged |-> 0], changes |-> <<>>, more |-> FALSE, next_cursor |-> 0]

\* a file added, removed or replaced by another document has no node report,
\* and no cursor can ask for its next page
serve_compare_file(a, b, path, after, limit) ==
    LET from == At(History[a].files, path)
        to   == At(History[b].files, path)
        kind == Kind(History[a].files, History[b].files, path)
        whole == kind \in {"added", "removed"} \/ from.document # to.document
    IN CASE ~allowed \/ ~({a, b} \subseteq published) -> Refused
         [] allowed /\ {a, b} \subseteq published /\ from = Absent /\ to = Absent -> Refused
         [] allowed /\ {a, b} \subseteq published /\ (from # Absent \/ to # Absent) /\ whole ->
              IF after # 0 THEN Refused
              ELSE NoNodes @@ [file_kind |-> kind, from_file |-> from, to_file |-> to,
                               replaced |-> kind = "modified"]
         [] OTHER ->
              compare_nodes(from.state, to.state, after, limit)
                @@ [file_kind |-> IF from.state = to.state THEN "unchanged" ELSE "modified",
                    from_file |-> from, to_file |-> to, replaced |-> FALSE]

serve_releases(after, limit) ==
    LET found == SetToSortSeq({n \in named : n > after}, LAMBDA a, b : a < b)
        page  == SubSeq(found, 1, IF Len(found) < limit THEN Len(found) ELSE limit)
    IN IF allowed
       THEN [ok |-> TRUE, items |-> page,
             next_cursor |-> IF page = <<>> THEN 0 ELSE Last(page)]
       ELSE Refused

---------------------------------------------------------------------------
(* The client.                                                              *)

Idle == [ask |-> "none", verdict |-> "none"]

ReportsInit ==
    /\ published = Addresses
    /\ allowed = TRUE
    /\ named \in Before
    /\ changed = 0
    /\ reading = Idle

Finish(v) == reading' = [reading EXCEPT !.verdict = v]

\* A mutant: a page may skip commits of the chain.
TakeEntry_skip(acc, e, verify) ==
    IF ~acc.ok \/ e.address \in acc.addresses THEN [acc EXCEPT !.ok = FALSE]
    ELSE IF ~verify THEN [acc EXCEPT !.addresses = @ \cup {e.address},
                                     !.entries = Append(@, e.address)]
    ELSE IF /\ acc.expected # Absent
            /\ Len(acc.entries) < MAX_COMMITS
            /\ e.address \in published
            /\ e = Entry(e.address)
         THEN [acc EXCEPT !.addresses = @ \cup {e.address},
                          !.entries = Append(@, e.address),
                          !.expected = FirstParent(e.address)]
         ELSE [acc EXCEPT !.ok = FALSE]

\* the checks of one page of a log, entry by entry: what is accepted so far,
\* and the commit the next entry has to be
TakeEntry(acc, e, verify) ==
    IF ~acc.ok \/ e.address \in acc.addresses THEN [acc EXCEPT !.ok = FALSE]
    ELSE IF ~verify THEN [acc EXCEPT !.addresses = @ \cup {e.address},
                                     !.entries = Append(@, e.address)]
    ELSE IF /\ acc.expected # Absent
            /\ e.address = acc.expected
            /\ Len(acc.entries) < MAX_COMMITS
            /\ e.address \in published
            /\ e = Entry(e.address)
         THEN [acc EXCEPT !.addresses = @ \cup {e.address},
                          !.entries = Append(@, e.address),
                          !.expected = FirstParent(e.address)]
         ELSE [acc EXCEPT !.ok = FALSE]

AskLog(tip, limit, all, verify) ==
    /\ reading = Idle
    /\ reading' = [ask |-> "log", tip |-> tip, limit |-> limit, all |-> all, verify |-> verify,
                honest |-> TRUE, cursor |-> Absent, cursors |-> {}, addresses |-> {},
                entries |-> <<>>, expected |-> IF verify THEN tip ELSE Absent,
                more |-> FALSE, verdict |-> "walking"]
    /\ UNCHANGED <<published, allowed, named, changed>>

\* one turn of the loop over a page
LogPage(page, honest) ==
    LET acc == FoldLeft(LAMBDA a, e : TakeEntry(a, e, reading.verify),
                        [ok |-> TRUE, addresses |-> reading.addresses, entries |-> reading.entries,
                         expected |-> reading.expected], page.entries)
        genesis == reading.verify /\ acc.expected = Absent
        ends    == ~page.more /\ page.next_cursor = Absent
        sound   == /\ page.head = reading.tip
                   /\ reading.verify => page.entries # <<>>
                   /\ acc.ok
                   /\ genesis => ends
                   /\ reading.verify /\ ends => genesis
                   /\ reading.all => page.more = (page.next_cursor # Absent)
                   /\ reading.all /\ page.next_cursor # Absent => page.next_cursor \notin reading.cursors
    IN reading' = [reading EXCEPT
                  !.verdict = IF ~sound THEN "refused"
                              ELSE IF ~reading.all \/ ends THEN "accepted" ELSE "walking",
                  !.honest = @ /\ honest,
                  !.entries = acc.entries,
                  !.addresses = acc.addresses,
                  !.expected = acc.expected,
                  !.cursor = page.next_cursor,
                  !.cursors = @ \cup {page.next_cursor},
                  !.more = page.more]

log_page ==
    /\ reading.ask = "log" /\ reading.verdict = "walking"
    /\ LET page == serve_log(reading.tip, reading.cursor, reading.limit)
       IN IF page.ok THEN LogPage(page, TRUE) ELSE Finish("refused")
    /\ UNCHANGED <<published, allowed, named, changed>>

\* a page that says anything at all: commits in any order, with parents that
\* are theirs or not, any claim about what follows
Claims == {Entry(a) : a \in Addresses} \cup
          {[Entry(a) EXCEPT !.parents = p] : a \in Addresses, p \in Misstated}

AnyPage(entries, head, more, cursor) ==
    [entries |-> entries, head |-> head, more |-> more, next_cursor |-> cursor]

any_log_page ==
    /\ reading.ask = "log" /\ reading.verdict = "walking" /\ reading.verify
    /\ \E entries \in {<<>>} \cup {<<e>> : e \in Claims} \cup
            {<<e, f>> : e, f \in Claims},
          head \in {reading.tip} \cup Tips, more \in BOOLEAN,
          cursor \in {Absent} \cup {[head |-> reading.tip, next |-> a] : a \in Addresses} :
            LogPage(AnyPage(entries, head, more, cursor), FALSE)
    /\ UNCHANGED <<published, allowed, named, changed>>

AskCompare(pair, path, limit) ==
    /\ reading = Idle
    /\ reading' = [ask |-> IF path = 0 THEN "compare" ELSE "file", pair |-> pair, path |-> path,
                limit |-> limit, first |-> Absent, cursor |-> 0, cursors |-> {},
                changes |-> <<>>, verdict |-> "walking"]
    /\ UNCHANGED <<published, allowed, named, changed>>

\* what every page of one report must agree on
Frame(page) ==
    IF reading.ask = "compare" THEN page.totals
    ELSE [totals |-> page.totals, kind |-> page.file_kind, from |-> page.from_file,
          to |-> page.to_file, replaced |-> page.replaced,
          identical |-> "identical" \in DOMAIN page /\ page.identical,
          comments |-> "comments_changed" \in DOMAIN page /\ page.comments_changed]

\* A mutant: the number of changes is not compared with the totals.
ReportPage_uncounted(page) ==
    LET all == reading.changes \o page.changes
        sound == /\ \A i, j \in DOMAIN all : i < j => all[i].key < all[j].key
                 /\ page.more = (page.next_cursor # 0)
    IN reading' = [reading EXCEPT !.first = Frame(page), !.changes = all,
                            !.cursor = page.next_cursor,
                            !.cursors = @ \cup {page.next_cursor},
                            !.verdict = IF ~sound THEN "refused"
                                        ELSE IF page.more THEN "walking" ELSE "accepted"]

ReportPage(page) ==
    LET all == reading.changes \o page.changes
        sound == /\ reading.first # Absent => reading.first = Frame(page)
                 /\ \A i, j \in DOMAIN all : i < j => all[i].key < all[j].key
                 /\ page.more = (page.next_cursor # 0)
                 /\ page.more => page.next_cursor \notin reading.cursors
                 /\ ~page.more => Len(all) = Changes(page.totals)
    IN reading' = [reading EXCEPT !.first = Frame(page), !.changes = all,
                            !.cursor = page.next_cursor,
                            !.cursors = @ \cup {page.next_cursor},
                            !.verdict = IF ~sound THEN "refused"
                                        ELSE IF page.more THEN "walking" ELSE "accepted"]

ServedPage(after) ==
    IF reading.ask = "compare" THEN serve_compare(reading.pair[1], reading.pair[2], after, reading.limit)
    ELSE serve_compare_file(reading.pair[1], reading.pair[2], reading.path, after, reading.limit)

\* the page asked for, or another page of the same report: one that came late,
\* or twice, or early
compare_page ==
    /\ reading.ask \in {"compare", "file"} /\ reading.verdict = "walking"
    /\ \E after \in {reading.cursor} \cup
            (DOMAIN History[reading.pair[1]].files \cup DOMAIN History[reading.pair[2]].files) :
         LET page == ServedPage(after)
         IN IF page.ok THEN ReportPage(page) ELSE Finish("refused")
    /\ UNCHANGED <<published, allowed, named, changed>>

AskReleases(limit) ==
    /\ reading = Idle
    /\ reading' = [ask |-> "releases", limit |-> limit, cursor |-> 0, pages |-> 0,
                items |-> <<>>, present |-> named, verdict |-> "walking"]
    /\ UNCHANGED <<published, allowed, named, changed>>

release_list ==
    /\ reading.ask = "releases" /\ reading.verdict = "walking"
    /\ LET page == serve_releases(reading.cursor, reading.limit)
       IN IF ~page.ok \/ (page.next_cursor # 0 /\ page.next_cursor <= reading.cursor)
          THEN Finish("refused")
          ELSE reading' = [reading EXCEPT
                          !.items = @ \o page.items, !.cursor = page.next_cursor,
                          !.pages = @ + 1,
                          !.verdict = IF page.items = <<>> \/ reading.pages + 1 = MAX_PAGES
                                      THEN "accepted" ELSE "walking"]
    /\ UNCHANGED <<published, allowed, named, changed>>

\* what others do between two pages
Elsewhere ==
    /\ changed < MaxTurns
    /\ reading.verdict = "walking"
    /\ \/ \E a \in published : published' = published \ {a} /\ UNCHANGED <<allowed, named>>
       \/ allowed /\ allowed' = FALSE /\ UNCHANGED <<published, named>>
       \/ \E n \in Names \ named :
            named' = named \cup {n} /\ UNCHANGED <<published, allowed>>
    /\ changed' = changed + 1
    /\ UNCHANGED reading

ReportsNext ==
    \/ \E tip \in Tips, limit \in PageLimits, all, verify \in BOOLEAN :
          AskLog(tip, limit, all, verify)
    \/ log_page
    \/ any_log_page
    \/ \E pair \in Pairs, limit \in PageLimits :
         \E path \in {0} \cup DOMAIN History[pair[1]].files \cup DOMAIN History[pair[2]].files :
            AskCompare(pair, path, limit)
    \/ compare_page
    \/ \E limit \in PageLimits : AskReleases(limit)
    \/ release_list
    \/ Elsewhere

---------------------------------------------------------------------------
(* Properties.                                                              *)

Chain(tip) == FirstParents(tip, Cardinality(Addresses))

\* A log the client accepted is the history: asked to verify, whatever pages
\* arrive, the accepted commits are the first-parent chain of the tip the reader
\* named, from the tip on without a gap, and down to the first commit when all
\* was asked for or the page says there is no more and names no next one; unverified, the same holds
\* when the pages are the server's.
LogIsChain ==
    reading.ask = "log" /\ reading.verdict = "accepted" /\ (reading.verify \/ reading.honest) =>
        /\ IsPrefix(reading.entries, Chain(reading.tip))
        /\ reading.all \/ (~reading.more /\ reading.cursor = Absent) => reading.entries = Chain(reading.tip)

\* what the changes of a report make of the side it starts from
Patched(from, entries, New(_, _)) ==
    LET keys(kinds) == {entries[i].key : i \in {i \in DOMAIN entries : entries[i].kind \in kinds}}
        change(k)   == entries[CHOOSE i \in DOMAIN entries : entries[i].key = k]
        new         == keys({"added", "modified"})
    IN [k \in (DOMAIN from \ keys({"removed"})) \cup new |->
          IF k \in new THEN New(At(from, k), change(k)) ELSE from[k]]

NewFile(old, c) == c.to

NewNode(old, c) ==
    LET fields == IF old = Absent THEN [x \in {} |-> Absent] ELSE old.fields
        gone   == {d.field : d \in {d \in c.field_changes : d.to = Absent}}
        put    == {d.field : d \in {d \in c.field_changes : d.to # Absent}}
    IN [attributes |-> c.to,
        fields |-> [f \in (DOMAIN fields \ gone) \cup put |->
                      IF f \in put THEN (CHOOSE d \in c.field_changes : d.field = f).to
                      ELSE fields[f]]]

\* A report the client accepted is whole, although its pages were served while
\* the history changed and may have come late, early or twice: applying the
\* entries of a comparison to the first commit, or to the first version of the
\* file, gives the second; a file called unchanged is; and a list of releases
\* has every release there was when it was asked for, once and in order, unless
\* the client stopped at its limit of pages.
ReportsAreWhole ==
    reading.verdict = "accepted" =>
        CASE reading.ask = "compare" ->
               LET from == History[reading.pair[1]].files
                   to   == History[reading.pair[2]].files
               IN Patched(from, reading.changes, NewFile) = to
          [] reading.ask = "file" ->
               LET from == At(History[reading.pair[1]].files, reading.path)
                   to   == At(History[reading.pair[2]].files, reading.path)
               IN /\ reading.first.from = from /\ reading.first.to = to
                  /\ from # Absent /\ to # Absent /\ ~reading.first.replaced =>
                       /\ Patched(States[from.state].nodes, reading.changes, NewNode)
                            = States[to.state].nodes
                       /\ (reading.first.kind = "unchanged") = (from = to)
          [] reading.ask = "releases" ->
               /\ \A i, j \in DOMAIN reading.items : i < j => reading.items[i] < reading.items[j]
               /\ reading.pages < MAX_PAGES => reading.present \subseteq ToSet(reading.items)
          [] OTHER -> TRUE
=============================================================================
