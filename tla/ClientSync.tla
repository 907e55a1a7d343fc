----------------------------- MODULE ClientSync -----------------------------
(***************************************************************************)
(* The command line client against a shared project: fetch, pull, and a    *)
(* push made of a reviewed plan file and the command that carries it out.  *)
(*                                                                         *)
(* A terminal runs one command; terminals at one workstation share its     *)
(* repository and its receipt journal.  Every request to the server is a   *)
(* step, so the server moves on between two of them.  A command may end    *)
(* after any step: killed, timed out, or its answer lost after the server  *)
(* acted (interrupt). An abandoned branch update is still on the wire.      *)
(* The server may be restored from an older copy, which the client's       *)
(* receipt proofs have to notice.                                          *)
(***************************************************************************)
EXTENDS Naturals, Sequences, FiniteSets, SequencesExt, Reachability

CONSTANTS
    Commits, Objects,
    Parents,       \* commit -> its ancestry parents
    Deps,          \* commit -> its parents and recovery sources
    Content,       \* commit -> the objects of its files' state graphs
    Workstations, Terminals,
    At,            \* terminal -> workstation
    Written,       \* workstation -> commits signed there before the run
    NoCommit,
    MaxMoves,      \* bound on the generation of the remote branch
    MaxLocal,      \* bound on the generation of a local branch
    MaxPlans,      \* bound on the plan files kept at a workstation
    MaxWire,       \* bound on branch updates on the wire
    MaxRestores    \* bound on restores of the server

ASSUME SyncAssumption ==
    /\ Deps \in [Commits -> SUBSET Commits]
    /\ \A c \in Commits : Parents[c] \subseteq Deps[c]
    /\ Content \in [Commits -> SUBSET Objects]
    /\ At \in [Terminals -> Workstations]
    /\ \A w \in Workstations : Closed(Deps, Written[w])
    /\ NoCommit \notin Commits

VARIABLES
    published,     \* server: published commits
    heads,         \* server: the commits of the branch, one per generation
    staged,        \* server: workstation -> its acknowledged private objects
    drafts,        \* server: workstation -> its staged commits
    restores,
    commits,       \* workstation -> commits in its repository
    objects,       \* workstation -> objects in its repository
    local,         \* workstation -> head of its local branch
    pin,           \* workstation -> the remote head its journal trusts
    plans,         \* workstation -> plan files
    job,           \* terminal -> its command in progress
    wire,          \* branch updates sent and not handled yet
    moves,         \* every move the remote branch ever made
    claims         \* what push reported as done

server == <<published, heads, staged, drafts, restores, moves>>
disk == <<commits, objects, local, pin, plans>>
syncVars == <<server, disk, job, wire, claims>>

-----------------------------------------------------------------------------
NoHead == [commit |-> NoCommit, generation |-> 0]
HeadAt(g) == [commit |-> heads[g], generation |-> g]
RemoteHead == IF heads = <<>> THEN NoHead ELSE HeadAt(Len(heads))
NoJob == [op |-> "idle"]
Ancestors(c) == Least(Commits, Parents, {c})
InOrder(S) == SetToSortSeq(S, <)

(* proof: the served receipts lead from the pinned head to this one; an    *)
(* absent branch is believed only where nothing was pinned.                *)
proves(w, h) ==
    \/ pin[w] = NoHead
    \/ pin[w] = h
    \/ /\ pin[w].generation \in 1..(h.generation - 1)
       /\ h.generation <= Len(heads)
       /\ HeadAt(pin[w].generation) = pin[w]
       /\ HeadAt(h.generation) = h

(* track: the proof again, then the journal moves.                         *)
track(w, h) == proves(w, h) /\ pin' = [pin EXCEPT ![w] = h]

Become(t, j) == job' = [job EXCEPT ![t] = j]
Running(t, step) == job[t] # NoJob /\ job[t].step = step

-----------------------------------------------------------------------------
(***************************************************************************)
(* The depth first walk that plan and fetch share: an entry is a commit    *)
(* and whether what it depends on has been dealt with.                     *)
(***************************************************************************)
Top(t) == Last(job[t].stack)
Popped(t) == Front(job[t].stack)
Enter(t, more) ==
    [job[t] EXCEPT !.seen = @ \cup {Top(t)[1]}, !.stack = Popped(t) \o more]

(* Its dependencies on top, in address order, and itself below them.       *)
Expanded(c) ==
    <<<<c, TRUE>>>>
    \o [i \in 1..Cardinality(Deps[c]) |-> <<Reverse(InOrder(Deps[c]))[i], FALSE>>]

SkipSeen(t) ==
    /\ ~ Top(t)[2] /\ Top(t)[1] \in job[t].seen
    /\ Become(t, [job[t] EXCEPT !.stack = Popped(t)])
    /\ UNCHANGED <<server, disk, wire, claims>>

(* plan, one turn of its loop: a published commit ends the branch of the   *)
(* walk, an unpublished one is listed after its dependencies.              *)
plan_walk(t) ==
    LET w == At[t] c == Top(t)[1]
    IN  /\ Running(t, "plan") /\ job[t].stack # <<>>
        /\ \/ SkipSeen(t)
           \/ /\ Top(t)[2]
              /\ Become(t, [job[t] EXCEPT !.stack = Popped(t), !.list = Append(@, c)])
           \/ /\ ~ Top(t)[2] /\ c \notin job[t].seen
              /\ c \in commits[w]
              /\ Become(t, Enter(t, IF c \in published THEN <<>> ELSE Expanded(c)))
        /\ UNCHANGED <<server, disk, wire, claims>>

(* plan, its first lines: the remote head, proved against the pin.         *)
plan_starts(t, op, approved) ==
    /\ job[t] = NoJob
    /\ RemoteHead = NoHead => pin[At[t]] = NoHead
    /\ proves(At[t], RemoteHead)
    /\ Become(t, [op |-> op, step |-> "plan", approved |-> approved, head |-> RemoteHead,
                  stack |-> <<<<approved.candidate, FALSE>>>>, seen |-> {}, list |-> <<>>])
    /\ UNCHANGED <<server, disk, wire, claims>>

(* Action::Plan: the review file; publish_only leaves the branch alone.    *)
plan(t, c, update) ==
    /\ Cardinality(plans[At[t]]) < MaxPlans
    /\ plan_starts(t, "plan", [candidate |-> c, update_branch |-> update,
                               expected |-> NoHead, publish |-> <<>>])
plan_written(t) ==
    /\ Running(t, "plan") /\ job[t].op = "plan" /\ job[t].stack = <<>>
    /\ plans' = [plans EXCEPT ![At[t]] = @ \cup
           {[job[t].approved EXCEPT !.expected = job[t].head, !.publish = job[t].list]}]
    /\ Become(t, NoJob)
    /\ UNCHANGED <<server, commits, objects, local, pin, wire, claims>>

(* A plan file no longer wanted is deleted.                                *)
discard(w, p) ==
    /\ p \in plans[w]
    /\ plans' = [plans EXCEPT ![w] = @ \ {p}]
    /\ UNCHANGED <<server, commits, objects, local, pin, job, wire, claims>>

-----------------------------------------------------------------------------
(***************************************************************************)
(* push: the plan is made again and compared with the reviewed one.        *)
(***************************************************************************)
push(t, p) == p \in plans[At[t]] /\ plan_starts(t, "push", p)

Following(h, c) == [commit |-> c, generation |-> h.generation + 1]

(* The lost answer of a successful update: the branch is where this very   *)
(* plan would have put it.                                                 *)
Applied(p, h) == h = Following(p.expected, p.candidate)

(* A mutant: whatever the candidate needs is published along.              *)
ReviewedAll(p, list) == Range(list) \subseteq Commits

(* permitted: every commit to publish now was in the reviewed file.        *)
Reviewed(p, list) == Range(list) \subseteq Range(p.publish)

push_compare(t) ==
    LET p == job[t].approved
        changed == p.update_branch /\ job[t].head # p.expected
    IN  /\ Running(t, "plan") /\ job[t].op = "push" /\ job[t].stack = <<>>
        /\ \/ changed /\ Applied(p, job[t].head)
              /\ Become(t, [job[t] EXCEPT !.step = "confirm"])
           \/ ~changed /\ Reviewed(p, job[t].list)
              /\ Become(t, [job[t] EXCEPT !.step = "upload"])
        /\ UNCHANGED <<server, disk, wire, claims>>

Claim(t, h) == claims' = claims \cup {[plan |-> job[t].approved, head |-> h]}

(* Already applied, or already up to date: the head is read once more and  *)
(* has to be the one the decision was made on.                             *)
push_confirmed(t) ==
    /\ Running(t, "confirm")
    /\ RemoteHead = job[t].head
    /\ track(At[t], job[t].head)
    /\ Claim(t, job[t].head)
    /\ Become(t, NoJob)
    /\ UNCHANGED <<server, commits, objects, local, plans, wire>>

Next1(t) == Head(job[t].list)

(* transfer::upload: what the server does not hold for this account is     *)
(* acknowledged from a dependency's published objects or uploaded.         *)
upload(t, o) ==
    LET w == At[t]
    IN  /\ Running(t, "upload") /\ job[t].list # <<>>
        /\ Deps[Next1(t)] \subseteq published
        /\ Content[Next1(t)] \subseteq objects[w]
        /\ o \in Content[Next1(t)] \ staged[w]
        /\ staged' = [staged EXCEPT ![w] = @ \cup {o}]
        /\ UNCHANGED <<published, heads, drafts, restores, moves, disk, job, wire, claims>>

(* POST staging/commits, then POST history/commits.                        *)
stage(t) ==
    LET w == At[t]
    IN  /\ Running(t, "upload") /\ job[t].list # <<>>
        /\ Deps[Next1(t)] \subseteq published
        /\ Content[Next1(t)] \subseteq staged[w]
        /\ drafts' = [drafts EXCEPT ![w] = @ \cup {Next1(t)}]
        /\ Become(t, [job[t] EXCEPT !.step = "publish"])
        /\ UNCHANGED <<published, heads, staged, restores, moves, disk, wire, claims>>
publish(t) ==
    LET w == At[t]
    IN  /\ Running(t, "publish")
        /\ Next1(t) \in drafts[w] \cup published
        /\ Deps[Next1(t)] \subseteq published
        /\ published' = published \cup {Next1(t)}
        /\ Become(t, [job[t] EXCEPT !.step = "upload", !.list = Tail(@)])
        /\ UNCHANGED <<heads, staged, drafts, restores, moves, disk, wire, claims>>

(* After the last commit: stop, confirm an up-to-date branch, or send the  *)
(* branch update with the head that was reviewed.                          *)
push_published(t) ==
    LET p == job[t].approved
    IN  /\ Running(t, "upload") /\ job[t].list = <<>>
        /\ \/ ~p.update_branch /\ Become(t, NoJob) /\ UNCHANGED wire
           \/ /\ p.update_branch /\ p.expected.commit = p.candidate
              /\ Become(t, [job[t] EXCEPT !.step = "confirm", !.head = p.expected])
              /\ UNCHANGED wire
           \/ /\ p.update_branch /\ p.expected.commit # p.candidate
              /\ Len(wire) < MaxWire
              /\ wire' = Append(wire, [from |-> t, candidate |-> p.candidate,
                                       expected |-> p.expected])
              /\ Become(t, [job[t] EXCEPT !.step = "sent"])
        /\ UNCHANGED <<server, disk, claims>>

(* POST history/refs at the server, possibly long after its sender gave    *)
(* up: compare and swap, forwards only.  (advance in ProjectHistory.)      *)
advance(i) ==
    LET r == wire[i]
    IN  /\ RemoteHead = r.expected
        /\ r.candidate \in published
        /\ r.expected # NoHead => r.expected.commit \in Ancestors(r.candidate)
        /\ Len(heads) < MaxMoves
        /\ heads' = Append(heads, r.candidate)
        /\ moves' = moves \cup {[base |-> r.expected, head |-> Following(r.expected, r.candidate)]}
        /\ wire' = RemoveAt(wire, i)
        /\ job' = IF r.from \in Terminals /\ Running(r.from, "sent")
                  THEN [job EXCEPT ![r.from] =
                            [@ EXCEPT !.step = "accepted",
                                      !.head = Following(r.expected, r.candidate)]]
                  ELSE job
        /\ UNCHANGED <<published, staged, drafts, restores, disk, claims>>
refuse(i) ==
    /\ wire' = RemoveAt(wire, i)
    /\ job' = IF wire[i].from \in Terminals /\ Running(wire[i].from, "sent")
              THEN [job EXCEPT ![wire[i].from] = NoJob] ELSE job
    /\ UNCHANGED <<server, disk, claims>>

(* The accepted receipt must be the candidate right after the reviewed     *)
(* head.                                                                   *)
push_accepted(t) ==
    LET p == job[t].approved
    IN  /\ Running(t, "accepted")
        /\ job[t].head = Following(p.expected, p.candidate)
        /\ track(At[t], job[t].head)
        /\ Claim(t, job[t].head)
        /\ Become(t, NoJob)
        /\ UNCHANGED <<server, commits, objects, local, plans, wire>>

-----------------------------------------------------------------------------
(***************************************************************************)
(* fetch and pull.                                                         *)
(***************************************************************************)
fetching(t, op, expected) ==
    /\ job[t] = NoJob
    /\ RemoteHead # NoHead
    /\ proves(At[t], RemoteHead)
    /\ Become(t, [op |-> op, step |-> "fetch", head |-> RemoteHead, expected |-> expected,
                  stack |-> <<<<RemoteHead.commit, FALSE>>>>, seen |-> {}])
    /\ UNCHANGED <<server, disk, wire, claims>>
fetch(t) == fetching(t, "fetch", NoHead)
pull(t) == fetching(t, "pull", local[At[t]])

(* transfer::fetch, entering a commit: one held locally ends the walk, a   *)
(* missing one has to be published.                                        *)
fetch_walk(t) ==
    LET c == Top(t)[1]
    IN  /\ Running(t, "fetch") /\ job[t].stack # <<>> /\ ~ Top(t)[2]
        /\ \/ SkipSeen(t)
           \/ /\ c \notin job[t].seen /\ c \in commits[At[t]]
              /\ Become(t, Enter(t, <<>>))
           \/ /\ c \notin job[t].seen /\ c \notin commits[At[t]]
              /\ c \in published
              /\ Become(t, Enter(t, Expanded(c)))
        /\ UNCHANGED <<server, disk, wire, claims>>

(* Graph::read: an object the repository lacks comes from the commit it is *)
(* published with.                                                         *)
fetch_object(t, o) ==
    LET w == At[t] c == Top(t)[1]
    IN  /\ Running(t, "fetch") /\ job[t].stack # <<>> /\ Top(t)[2]
        /\ o \in Content[c] \ objects[w]
        /\ c \in published
        /\ objects' = [objects EXCEPT ![w] = @ \cup {o}]
        /\ UNCHANGED <<server, commits, local, pin, plans, job, wire, claims>>

(* import_commit: the repository itself refuses a commit whose graph or    *)
(* dependencies it lacks.                                                  *)
import_commit(t) ==
    LET w == At[t] c == Top(t)[1]
    IN  /\ Running(t, "fetch") /\ job[t].stack # <<>> /\ Top(t)[2]
        /\ Content[c] \subseteq objects[w] /\ Deps[c] \subseteq commits[w]
        /\ commits' = [commits EXCEPT ![w] = @ \cup {c}]
        /\ Become(t, [job[t] EXCEPT !.stack = Popped(t)])
        /\ UNCHANGED <<server, objects, local, pin, plans, wire, claims>>

(* A mutant: the head is tracked while its history is still coming.        *)
DownloadedSome(t) == Len(job[t].stack) <= 1

Downloaded(t) == job[t].stack = <<>>
fetch_tracked(t) ==
    /\ Running(t, "fetch") /\ Downloaded(t)
    /\ track(At[t], job[t].head)
    /\ Become(t, IF job[t].op = "fetch" THEN NoJob ELSE [job[t] EXCEPT !.step = "local"])
    /\ UNCHANGED <<server, commits, objects, local, plans, wire, claims>>

(* merge_bases contains the local commit: the remote only adds to it.      *)
Behind(h, c) == h = NoHead \/ h.commit \in Ancestors(c)

pull_moves(t) ==
    LET w == At[t] c == job[t].head.commit
    IN  /\ Running(t, "local")
        /\ local[w] = job[t].expected
        /\ \/ job[t].expected.commit = c /\ UNCHANGED local
           \/ /\ job[t].expected.commit # c
              /\ Behind(job[t].expected, c)
              /\ local[w].generation < MaxLocal
              /\ local' = [local EXCEPT ![w] = Following(local[w], c)]
        /\ Become(t, NoJob)
        /\ UNCHANGED <<server, commits, objects, pin, plans, wire, claims>>

-----------------------------------------------------------------------------
(***************************************************************************)
(* What happens around the commands.                                       *)
(***************************************************************************)

(* Other work moves the local branch on to a commit made on top of it.     *)
local_commit(w, c) ==
    /\ c \in commits[w]
    /\ Parents[c] = IF local[w] = NoHead THEN {} ELSE {local[w].commit}
    /\ local[w].generation < MaxLocal
    /\ local' = [local EXCEPT ![w] = Following(local[w], c)]
    /\ UNCHANGED <<server, commits, objects, pin, plans, job, wire, claims>>

(* A refusal, a timeout, a killed process; a sent update stays on the wire *)
(* with nobody waiting for it.                                             *)
interrupt(t) ==
    /\ job[t] # NoJob
    /\ Become(t, NoJob)
    /\ wire' = [i \in DOMAIN wire |->
                  IF wire[i].from = t THEN [wire[i] EXCEPT !.from = "nobody"] ELSE wire[i]]
    /\ UNCHANGED <<server, disk, claims>>

(* An older copy of the server's database: a prefix of the branch and a    *)
(* closed set of published commits that it needs.                          *)
restore(g, S) ==
    /\ restores < MaxRestores
    /\ Closed(Deps, S)
    /\ \A i \in 1..g : heads[i] \in S
    /\ <<g, S>> # <<Len(heads), published>>
    /\ heads' = SubSeq(heads, 1, g)
    /\ published' = S
    /\ staged' = [w \in Workstations |-> {}]
    /\ drafts' = [w \in Workstations |-> {}]
    /\ restores' = restores + 1
    /\ wire' = <<>>
    /\ UNCHANGED <<moves, disk, job, claims>>

(* Nothing fetched, planned or sent yet, from a branch that others moved   *)
(* through these commits.                                                  *)
SyncStart(moved) ==
    /\ heads = moved
    /\ published = Least(Commits, Deps, Range(moved))
    /\ moves = {[base |-> IF i = 1 THEN NoHead ELSE [commit |-> moved[i - 1], generation |-> i - 1],
                 head |-> [commit |-> moved[i], generation |-> i]] : i \in DOMAIN moved}
    /\ staged = [w \in Workstations |-> {}]
    /\ drafts = [w \in Workstations |-> {}]
    /\ restores = 0
    /\ commits = Written
    /\ objects = [w \in Workstations |-> UNION {Content[c] : c \in Written[w]}]
    /\ local = [w \in Workstations |-> NoHead]
    /\ pin = [w \in Workstations |-> NoHead]
    /\ plans = [w \in Workstations |-> {}]
    /\ job = [t \in Terminals |-> NoJob]
    /\ wire = <<>>
    /\ claims = {}

SyncInit == \E c \in Commits : Deps[c] = {} /\ SyncStart(<<c>>)

SyncNext ==
    \/ \E t \in Terminals :
          \/ \E c \in Commits, u \in BOOLEAN : plan(t, c, u)
          \/ plan_walk(t) \/ plan_written(t)
          \/ \E p \in plans[At[t]] : push(t, p)
          \/ push_compare(t) \/ push_confirmed(t)
          \/ \E o \in Objects : upload(t, o) \/ fetch_object(t, o)
          \/ stage(t) \/ publish(t) \/ push_published(t) \/ push_accepted(t)
          \/ fetch(t) \/ pull(t) \/ fetch_walk(t) \/ import_commit(t)
          \/ fetch_tracked(t) \/ pull_moves(t) \/ interrupt(t)
    \/ \E i \in DOMAIN wire : advance(i) \/ refuse(i)
    \/ \E w \in Workstations, c \in Commits : local_commit(w, c)
    \/ \E w \in Workstations : \E p \in plans[w] : discard(w, p)
    \/ \E g \in 0..Len(heads), S \in SUBSET published : restore(g, S)

-----------------------------------------------------------------------------
(* Push never reports success for something else: a head it claims is the  *)
(* plan's candidate, put there from exactly the head that was reviewed,    *)
(* once, or it was the reviewed head already.  So a retry after a lost     *)
(* answer neither moves the branch twice nor takes credit for the move of  *)
(* another push that reached the same commit another way.                  *)
PushTruthful ==
    \A k \in claims :
        /\ k.head.commit = k.plan.candidate
        /\ \/ k.head = k.plan.expected
           \/ [base |-> k.plan.expected, head |-> k.head] \in moves

(* Whatever became of the server since the review, push makes public only  *)
(* commits that the reviewed plan lists.                                   *)
PublishesReviewed ==
    [][\A c \in published' \ published :
          \E t \in Terminals : /\ job[t] # NoJob /\ job[t].op = "push"
                               /\ c \in Range(job[t].approved.publish)]_syncVars

(* A repository is whole however a fetch ended: every commit has its       *)
(* dependencies and its objects, and the heads it trusts or works on are   *)
(* among them.                                                             *)
FetchedIsWhole ==
    \A w \in Workstations :
        /\ Closed(Deps, commits[w])
        /\ \A c \in commits[w] : Content[c] \subseteq objects[w]
        /\ {pin[w].commit, local[w].commit} \subseteq commits[w] \cup {NoCommit}

(* A pull never drops local work: the local branch only ever moves to a    *)
(* descendant of the commit it was on, one generation at a time.           *)
PullKeepsLocal ==
    [][\A w \in Workstations : local'[w] # local[w] =>
          /\ local[w] # NoHead => local[w].commit \in Ancestors(local'[w].commit)
          /\ local'[w].generation = local[w].generation + 1]_syncVars

(* What a workstation says and holds is so.                                *)
SyncTruthful == PushTruthful /\ FetchedIsWhole

(* What a push and a pull may change.                                      *)
SyncSteps == PublishesReviewed /\ PullKeepsLocal
=============================================================================
