--------------------------- MODULE HistoryArchive ---------------------------
(***************************************************************************)
(* Portable history archives: export from a repository, the frame reader,  *)
(* staged validation and import (engine-core/src/repository/archive.rs).   *)
(*                                                                         *)
(* Commits and objects are named by their addresses; a frame that carries  *)
(* bytes which do not hash to its address is a frame with good = FALSE.    *)
(* The footer's SHA-256 is the sequence of frames it is taken over.        *)
(***************************************************************************)
EXTENDS Naturals, Sequences, FiniteSets, SequencesExt, Reachability

CONSTANTS
    Commit,        \* commits, as numbers: deps.sort() orders them
    Deps,          \* Deps[c]: the dependencies of c
    Object,        \* objects of the project's documents
    Refs,          \* Refs[o]: the objects o names
    Files,         \* Files[c]: the state roots of c's files
    MaxObjectFrames, MaxCommitFrames,   \* ArchiveLimits
    Offered,       \* frame sequences that come from other writers
    Since          \* what an export may leave out, 0 for nothing

VARIABLES
    file,          \* the frames of the archive; << >> before there is one
    made,          \* "none", "exported", "refused", "offered"
    asked,         \* the head and the start an export was asked for
    pos,           \* frames the reader has taken
    reader,        \* ArchiveReader: stage, header, what it has seen
    staged,        \* what validation let through: objects and commits, in order
    copied,        \* staged items the import has copied
    target         \* the repository imported into: objects and commits

archiveVars == <<file, made, asked, pos, reader, staged, copied, target>>

CommitsUnder(c) == Least(Commit, Deps, {c})
ObjectsUnder(roots) == Least(Object, Refs, roots)
RootsOf(commits) == UNION {Files[c] : c \in commits}

-----------------------------------------------------------------------------
(* Export: export_archive_incremental and ArchiveWriter.                   *)

HeaderFrame(head, since) == [kind |-> "header", head |-> head, since |-> since]
ObjectFrame(o, good)     == [kind |-> "object", object |-> o, good |-> good]
CommitFrame(c, good)     == [kind |-> "commit", commit |-> c, good |-> good]
FooterOf(frames) ==
    [kind |-> "footer", digest |-> frames,
     objects |-> Len(SelectSeq(frames, LAMBDA f : f.kind = "object")),
     commits |-> Len(SelectSeq(frames, LAMBDA f : f.kind = "commit"))]

BaseCommits(since) == IF since = 0 THEN {} ELSE CommitsUnder(since)

\* The walk that orders the commits: a commit is emitted after those of its
\* dependencies that are not in the base, in address order.
RECURSIVE Ordered(_, _, _)
Ordered(todo, base, done) ==
    IF todo = << >> THEN done
    ELSE LET c == todo[1] IN
         IF c \in base \cup ToSet(done) THEN Ordered(Tail(todo), base, done)
         ELSE LET first == SelectSeq(SetToSortSeq(Deps[c], <), LAMBDA d : d \notin base \cup ToSet(done))
              IN  IF first = << >> THEN Ordered(Tail(todo), base, Append(done, c))
                  ELSE Ordered(first \o todo, base, done)

\* The objects the new commits' files lead to without entering the base.
NewObjects(commits, since) ==
    LET old == ObjectsUnder(RootsOf(BaseCommits(since)))
    IN  Least(Object, [o \in Object |-> Refs[o] \ old], RootsOf(commits) \ old)

FramesFor(head, since) ==
    LET order == Ordered(<<head>>, BaseCommits(since), << >>)
        body == <<HeaderFrame(head, since)>>
                \o [i \in 1..Cardinality(NewObjects(ToSet(order), since)) |->
                      ObjectFrame(SetToSeq(NewObjects(ToSet(order), since))[i], TRUE)]
                \o [i \in 1..Len(order) |-> CommitFrame(order[i], TRUE)]
    IN  Append(body, FooterOf(body))

\* A mutant: the writer does not ask whether a commit's dependencies are in
\* the archive.
WriterTakesAll(frames) == TRUE

\* write_commit: every dependency is a commit already written, or the one the
\* header says the archive starts from.
WriterTakes(frames) ==
    \A i \in DOMAIN frames : frames[i].kind = "commit" =>
        \A d \in Deps[frames[i].commit] :
            \/ d = frames[1].since
            \/ \E j \in 1..(i - 1) : frames[j].kind = "commit" /\ frames[j].commit = d

WithinLimits(frames) ==
    /\ Len(SelectSeq(frames, LAMBDA f : f.kind = "object")) <= MaxObjectFrames
    /\ Len(SelectSeq(frames, LAMBDA f : f.kind = "commit")) <= MaxCommitFrames

\* export_archive_incremental.  A head that does not descend from since is
\* refused, an empty delta is a header and a footer.
export_archive(head, since) ==
    /\ made = "none"
    /\ LET frames == FramesFor(head, since)
           ok == /\ since # 0 => since \in CommitsUnder(head)
                 /\ WithinLimits(frames)
                 /\ WriterTakes(frames)
       IN  /\ made' = IF ok THEN "exported" ELSE "refused"
           /\ file' = IF ok THEN frames ELSE << >>
    /\ asked' = <<head, since>>
    /\ UNCHANGED <<pos, reader, staged, copied, target>>

\* An archive another program wrote, with a footer that fits it or not.
Offer(frames) ==
    /\ made = "none"
    /\ made' = "offered"
    /\ file' = frames
    /\ UNCHANGED <<asked, pos, reader, staged, copied, target>>

-----------------------------------------------------------------------------
(* ArchiveReader::next_entry: one frame at a time.                         *)

ReaderStart == [stage |-> "header", head |-> 0, since |-> 0,
                objects |-> << >>, commits |-> << >>]

Seen(r) == ToSet(r.commits) \cup {r.since}

TakesHeader(f, r) == f.kind = "header" /\ r.stage = "header"

TakesObject(f, r) ==
    /\ f.kind = "object" /\ r.stage = "objects"
    /\ Len(r.objects) < MaxObjectFrames
    /\ f.object \notin ToSet(r.objects)
    /\ f.good

\* A mutant: the reader lets a commit in before its dependencies.
TakesAnyCommit(f, r) ==
    /\ f.kind = "commit" /\ r.stage \in {"objects", "commits"}
    /\ Len(r.commits) < MaxCommitFrames
    /\ f.good
    /\ f.commit \notin Seen(r)

TakesCommit(f, r) ==
    /\ f.kind = "commit" /\ r.stage \in {"objects", "commits"}
    /\ Len(r.commits) < MaxCommitFrames
    /\ f.good
    /\ Deps[f.commit] \subseteq Seen(r)
    /\ f.commit \notin Seen(r)

TakesFooter(f, r) ==
    /\ f.kind = "footer" /\ r.stage # "header"
    /\ IF r.since = r.head /\ r.commits = << >> /\ r.objects = << >>
       THEN r.stage = "objects"
       ELSE r.stage = "commits" /\ r.commits[Len(r.commits)] = r.head
    /\ f.objects = Len(r.objects) /\ f.commits = Len(r.commits)
    /\ f.digest = SubSeq(file, 1, pos)

next_entry ==
    /\ made \in {"exported", "offered"}
    /\ reader.stage \notin {"end", "refused"}
    /\ LET f == file[pos + 1]
           r == reader
           more == pos < Len(file)
       IN  reader' =
           IF ~more THEN [r EXCEPT !.stage = "refused"]
           ELSE IF TakesHeader(f, r) THEN [r EXCEPT !.stage = "objects", !.head = f.head, !.since = f.since]
           ELSE IF TakesObject(f, r) THEN [r EXCEPT !.objects = Append(@, f.object)]
           ELSE IF TakesCommit(f, r) THEN [r EXCEPT !.stage = "commits", !.commits = Append(@, f.commit)]
           ELSE IF TakesFooter(f, r)
                THEN [r EXCEPT !.stage = IF pos + 1 = Len(file) THEN "end" ELSE "refused"]
           ELSE [r EXCEPT !.stage = "refused"]
    /\ pos' = pos + 1
    /\ UNCHANGED <<file, made, asked, staged, copied, target>>

-----------------------------------------------------------------------------
(* Staging and import.                                                     *)

\* A mutant: what lies outside the head's closure is staged too.
StagesExtras(r) ==
    /\ CommitsUnder(r.head) \subseteq ToSet(r.commits)
    /\ ObjectsUnder(RootsOf(CommitsUnder(r.head))) \subseteq ToSet(r.objects)

\* validate_and_stage_archive_in: the archive holds the closure of its head
\* and nothing else.  The preflight import into a scratch repository passes
\* once that is so.
Stages(r) ==
    /\ ToSet(r.commits) = CommitsUnder(r.head)
    /\ ToSet(r.objects) = ObjectsUnder(RootsOf(ToSet(r.commits)))

Nothing == [objects |-> << >>, commits |-> << >>, ready |-> FALSE]

stage_archive ==
    /\ reader.stage = "end" /\ ~staged.ready
    /\ reader.since = 0
    /\ Stages(reader)
    /\ staged' = [objects |-> reader.objects, commits |-> reader.commits, ready |-> TRUE]
    /\ UNCHANGED <<file, made, asked, pos, reader, copied, target>>

\* import_objects and import_commit of LocalRepository, as import_archive
\* uses them: a commit needs its dependencies and its files' graphs.
CommitFits(c) ==
    /\ Deps[c] \subseteq target.commits
    /\ ObjectsUnder(Files[c]) \subseteq target.objects

\* import_archive: all objects, batch by batch, then the commits in order.
import_objects ==
    /\ staged.ready /\ copied < Len(staged.objects)
    /\ \E n \in 1..(Len(staged.objects) - copied) :
          /\ copied' = copied + n
          /\ target' = [target EXCEPT !.objects = @ \cup {staged.objects[i] : i \in (copied + 1)..(copied + n)}]
    /\ UNCHANGED <<file, made, asked, pos, reader, staged>>

import_commit ==
    /\ staged.ready /\ copied >= Len(staged.objects)
    /\ copied < Len(staged.objects) + Len(staged.commits)
    /\ LET c == staged.commits[copied - Len(staged.objects) + 1] IN
       /\ CommitFits(c)
       /\ target' = [target EXCEPT !.commits = @ \cup {c}]
    /\ copied' = copied + 1
    /\ UNCHANGED <<file, made, asked, pos, reader, staged>>

\* The process dies, or the copy fails: the staging directory is gone, what
\* was committed to the target stays, and the import may be tried again.
ImportStops ==
    /\ staged.ready /\ copied < Len(staged.objects) + Len(staged.commits)
    /\ staged' = Nothing /\ copied' = 0
    /\ pos' = 0 /\ reader' = ReaderStart
    /\ UNCHANGED <<file, made, asked, target>>

ArchiveInit ==
    /\ file = << >> /\ made = "none" /\ asked = <<0, 0>> /\ pos = 0
    /\ reader = ReaderStart
    /\ staged = Nothing /\ copied = 0
    /\ target = [objects |-> {}, commits |-> {}]

ArchiveNext ==
    \/ \E h \in Commit, s \in Since : export_archive(h, s)
    \/ made = "none" /\ \E f \in Offered : Offer(f)
    \/ next_entry
    \/ stage_archive
    \/ import_objects
    \/ import_commit
    \/ ImportStops

-----------------------------------------------------------------------------
\* Whatever archive is offered and wherever an import stops, every commit of
\* the target has its dependencies and its files' objects there, and a
\* finished import leaves the whole history of the archive's head
\* (archive.rs validate_and_stage_archive_in, import_archive).
ImportsWhole ==
    /\ \A c \in target.commits :
          Deps[c] \subseteq target.commits /\ ObjectsUnder(Files[c]) \subseteq target.objects
    /\ staged.ready /\ copied = Len(staged.objects) + Len(staged.commits) =>
          /\ target.commits = CommitsUnder(reader.head)
          /\ target.objects = ObjectsUnder(RootsOf(target.commits))

\* What the exporter writes the reader takes: an export is never refused on
\* the way in, a full one can be staged, and its import can go on to the end.
ExportsRead ==
    made = "exported" =>
        /\ reader.stage # "refused"
        /\ reader.stage = "end" /\ reader.since = 0 => Stages(reader)
        /\ staged.ready /\ copied \in Len(staged.objects)..(Len(staged.objects) + Len(staged.commits) - 1) =>
              CommitFits(staged.commits[copied - Len(staged.objects) + 1])

\* "Enforces that `head` is a direct or indirect descendant of `since`; fails
\* closed with an error if disjoint": an export within the limits that starts
\* from an ancestor of its head is not refused (the comment of
\* export_archive_incremental, archive.rs:759-765).
DescendantsExport ==
    made = "refused" =>
        \/ asked[2] \notin CommitsUnder(asked[1])
        \/ ~WithinLimits(FramesFor(asked[1], asked[2]))
=============================================================================
