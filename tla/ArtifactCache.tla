--------------------------- MODULE ArtifactCache ---------------------------
(***************************************************************************)
(* The content-addressed caches under the worker root: ensure_artifact     *)
(* fills payloads/ and browsers/ from the supervisor, ensureBundle fills   *)
(* bundles/ from the runner, and sweep_caches evicts from all of them.     *)
(* Every job is a fetcher of its own: a canceled job goes on with its      *)
(* download while its successor starts, and supervisors on one machine     *)
(* share the worker root, so the steps of all of them interleave.          *)
(*                                                                         *)
(* A directory is identified by the job that made it: dir[k] and tmp[k]    *)
(* say whose directory is now under the entry's name and under its hidden  *)
(* sibling's, tree[k][o] what is in the one o made. A browser is fetched   *)
(* like a payload, after it, and is not modelled apart.                    *)
(***************************************************************************)
EXTENDS Naturals, FiniteSets

CONSTANTS
    Jobs,       \* assignments; each runs once
    Sups,       \* supervisor processes that share the worker root
    Payloads,   \* keys of payloads/ (written by ensure_artifact)
    Bundles,    \* keys of bundles/ (written by the runner)
    PayloadOf, BundleOf, Host,  \* what a job needs, and where it runs
    Cap,        \* the size cap, in entries of one unit
    Old, None

Keys == Payloads \cup Bundles
Makers == Jobs \cup {Old}

\* "marker" is the completion marker (the runner binary, index.html).
Parts == {"marker", "rest"}
\* Bytes that did not hash to the sha of the name.
Bad == "bad"
\* artifact.tar.gz inside a hidden sibling: still written, verified, refused.
Tars == {"partTar", "goodTar", "badTar"}

ASSUME CacheAssumption ==
    /\ None \notin Makers /\ Old \notin Jobs
    /\ Payloads \cap Bundles = {}
    /\ PayloadOf \in [Jobs -> Payloads]
    /\ BundleOf \in [Jobs -> Bundles]
    /\ Host \in [Jobs -> Sups]
    /\ Cap \in Nat
    /\ IsFiniteSet(Keys)

VARIABLES
    pc,         \* where a job is
    dir,        \* the entry under its sha: who made it
    tmp,        \* the hidden ".<sha>-download" sibling: who made it
    tree,       \* what a made directory holds
    at,         \* the directory a job's open file or tar is in
    src,        \* the tarball a job's tar reads
    used,       \* the order of last use: a greater number is a later use
    inFlight, canceled, protected,      \* of the connection loop
    sweep,      \* a sweep under way on a supervisor's blocking pool
    raced, cut, \* history: keys fetched by two at once, extractions killed
    last        \* history: the job a supervisor last ended or canceled

diskVars == <<dir, tmp, tree, used>>
loopVars == <<inFlight, canceled, protected, sweep>>
history == <<raced, cut, last>>
vars == <<pc, diskVars, at, src, loopVars, history>>

Filling == {"wipe", "make", "get", "body", "extract", "tar", "seal", "clear", "rename"}
BundleFilling == {"bundleGet", "bundleTar"}
RunnerAlive == {"bundle", "render"} \cup BundleFilling
PCs == {"idle", "ensure", "spawn", "over"} \cup Filling \cup RunnerAlive

IsTree(k) == dir[k] # None
\* The completion gate of ensure_artifact, of ensureBundle and of the sweep.
Entry(k) == IsTree(k) /\ "marker" \in tree[k][dir[k]]
EntriesOnDisk == {k \in Keys : Entry(k)}
Contents(k) == tree[k][dir[k]]

\* The key becomes the one used last.
Touched(k) ==
    [x \in Keys |-> IF x = k THEN Cardinality(Keys)
                   ELSE IF used[x] > used[k] THEN used[x] - 1 ELSE used[x]]

Goto(j, p) == pc' = [pc EXCEPT ![j] = p]
\* The job lets go of the file or the tar it was busy with.
LetsGo(j) == at' = [at EXCEPT ![j] = None] /\ src' = [src EXCEPT ![j] = "goodTar"]
Fails(j) == Goto(j, "over") /\ LetsGo(j)

\* remove_dir_all of the directory o made for k, wherever it is named.
Emptied(k, o) == [tree EXCEPT ![k][o] = {}]
WithTar(c, t) == (c \ Tars) \cup {t}

Init ==
    /\ pc = [j \in Jobs |-> "idle"]
    /\ tmp = [k \in Keys |-> None]
    /\ \E there \in SUBSET Keys : \E whole \in SUBSET there : \* or foreign, or torn
         /\ dir = [k \in Keys |-> IF k \in there THEN Old ELSE None]
         /\ tree = [k \in Keys |-> [o \in Makers |->
                      IF o = Old /\ k \in whole THEN Parts
                      ELSE IF o = Old /\ k \in there THEN {"rest"} ELSE {}]]
    /\ at = [j \in Jobs |-> None]
    /\ src = [j \in Jobs |-> "goodTar"]
    /\ used \in {f \in [Keys -> 1 .. Cardinality(Keys)] : \A x, y \in Keys : f[x] = f[y] => x = y}
    /\ inFlight = [s \in Sups |-> None]
    /\ canceled = {}
    /\ protected = [s \in Sups |-> {}]
    /\ sweep = [s \in Sups |-> None]
    /\ raced = {}
    /\ cut = {}
    /\ last = [s \in Sups |-> None]

----------------------------------------------------------------------------
(* ensure_artifact *)

Racing(j, k) == \E i \in Jobs \ {j} : pc[i] \in Filling /\ PayloadOf[i] = k

\* The marker is there: record the use and return the entry.
ArtifactHit(j) ==
    LET k == PayloadOf[j] IN
    /\ pc[j] = "ensure" /\ Entry(k)
    /\ used' = Touched(k)
    /\ Goto(j, "spawn")
    /\ UNCHANGED <<dir, tmp, tree, at, src, loopVars, history>>

ArtifactMiss(j) ==
    LET k == PayloadOf[j] IN
    /\ pc[j] = "ensure" /\ ~Entry(k)
    /\ raced' = IF Racing(j, k) THEN raced \cup {k} ELSE raced
    /\ Goto(j, "wipe")
    /\ UNCHANGED <<diskVars, at, src, loopVars, cut, last>>

\* A sibling left by anyone, a live fetch included, is removed.
WipeSibling(j) ==
    LET k == PayloadOf[j] IN
    /\ pc[j] = "wipe"
    /\ tree' = IF tmp[k] # None THEN Emptied(k, tmp[k]) ELSE tree
    /\ tmp' = [tmp EXCEPT ![k] = None]
    /\ Goto(j, "make")
    /\ UNCHANGED <<dir, used, at, src, loopVars, history>>

\* create_dir_all: a sibling made meanwhile is shared.
MakeSibling(j) ==
    LET k == PayloadOf[j] IN
    /\ pc[j] = "make"
    /\ tmp' = [tmp EXCEPT ![k] = IF @ = None THEN j ELSE @]
    /\ Goto(j, "get")
    /\ UNCHANGED <<dir, tree, used, at, src, loopVars, history>>

\* The response is refused, or its length is over the ceiling, or there is no
\* sibling to create the file in.
RequestFails(j) ==
    /\ pc[j] = "get"
    /\ Fails(j)
    /\ UNCHANGED <<diskVars, loopVars, history>>

CreateFile(j) ==
    LET k == PayloadOf[j] IN
    /\ pc[j] = "get" /\ tmp[k] # None
    /\ tree' = [tree EXCEPT ![k][tmp[k]] = WithTar(@, "partTar")]
    /\ at' = [at EXCEPT ![j] = tmp[k]]
    /\ Goto(j, "body")
    /\ UNCHANGED <<dir, tmp, used, src, loopVars, history>>

\* The directory a job's open file or tar is in is still under some name.
Named(k, o) == o \in {dir[k], tmp[k]}
HasTar(k, o) == tree[k][o] \cap Tars # {}

\* Read error, stall, total timeout; over the ceiling the file is removed.
BodyFails(j) ==
    LET k == PayloadOf[j] IN
    /\ pc[j] = "body"
    /\ \/ UNCHANGED tree
       \/ /\ tmp[k] # None
          /\ tree' = [tree EXCEPT ![k][tmp[k]] = @ \ Tars]
    /\ Fails(j)
    /\ UNCHANGED <<dir, tmp, used, loopVars, history>>

\* The stream ends and its hash is what the job knows; what the file holds is
\* another matter if the file was replaced or has a second writer.
AlsoWriting(j, k) == \E i \in Jobs \ {j} : pc[i] = "body" /\ PayloadOf[i] = k /\ at[i] = at[j]
AfterBody(j, k, t) ==
    IF Named(k, at[j]) /\ HasTar(k, at[j])
    THEN {[tree EXCEPT ![k][at[j]] = WithTar(@, x)] :
            x \in {t} \cup (IF AlsoWriting(j, k) THEN {"partTar"} ELSE {})}
    ELSE {tree}

\* Slip: the hash is computed and not compared.
BodyTrusted(j) ==
    LET k == PayloadOf[j] IN
    /\ pc[j] = "body"
    /\ \E t \in {"goodTar", "badTar"} : tree' \in AfterBody(j, k, t)
    /\ Goto(j, "extract") /\ LetsGo(j)
    /\ UNCHANGED <<dir, tmp, used, loopVars, history>>

BodyVerified(j) ==
    LET k == PayloadOf[j] IN
    /\ pc[j] = "body"
    /\ tree' \in AfterBody(j, k, "goodTar")
    /\ Goto(j, "extract") /\ LetsGo(j)
    /\ UNCHANGED <<dir, tmp, used, loopVars, history>>

\* sha mismatch: whatever is under the sibling's name is removed.
BodyRefused(j) ==
    LET k == PayloadOf[j] IN
    /\ pc[j] = "body"
    /\ Fails(j)
    /\ tmp' = [tmp EXCEPT ![k] = None]
    /\ \E t \in AfterBody(j, k, "badTar") :
         tree' = IF tmp[k] = None THEN t ELSE [t EXCEPT ![k][tmp[k]] = {}]
    /\ UNCHANGED <<dir, used, loopVars, history>>

\* extract_tar_capped: tar enters the sibling and is fed the tarball now there.
StartTar(j) ==
    LET k == PayloadOf[j] IN
    /\ pc[j] = "extract"
    /\ IF tmp[k] # None /\ HasTar(k, tmp[k])
       THEN /\ at' = [at EXCEPT ![j] = tmp[k]]
            /\ \E t \in tree[k][tmp[k]] \cap Tars : src' = [src EXCEPT ![j] = t]
            /\ Goto(j, "tar")
       ELSE Fails(j)
    /\ UNCHANGED <<diskVars, loopVars, history>>

Taint(j) == IF src[j] = "badTar" THEN {Bad} ELSE {}

TarWrites(j) ==
    LET k == PayloadOf[j] IN
    /\ pc[j] = "tar" /\ Named(k, at[j])
    /\ \E p \in Parts \ tree[k][at[j]] :
         tree' = [tree EXCEPT ![k][at[j]] = @ \cup {p} \cup Taint(j)]
    /\ UNCHANGED <<pc, dir, tmp, used, at, src, loopVars, history>>

\* A truncated archive, a full disk, a directory removed under tar, or a tree
\* over the size ceiling. The sibling is left.
TarFails(j) ==
    /\ pc[j] = "tar"
    /\ Fails(j)
    /\ UNCHANGED <<diskVars, loopVars, history>>

TarEnds(j) ==
    LET k == PayloadOf[j] IN
    /\ pc[j] = "tar" /\ src[j] # "partTar"
    /\ Named(k, at[j]) /\ Parts \subseteq tree[k][at[j]]
    /\ tree' = [tree EXCEPT ![k][at[j]] = @ \cup Taint(j)]
    /\ Goto(j, "seal") /\ LetsGo(j)
    /\ UNCHANGED <<dir, tmp, used, loopVars, history>>

\* Remove the tarball and look for the marker, both by the sibling's name.
Seal(j) ==
    LET k == PayloadOf[j] IN
    /\ pc[j] = "seal"
    /\ IF tmp[k] # None /\ "marker" \in tree[k][tmp[k]]
       THEN /\ tree' = [tree EXCEPT ![k][tmp[k]] = @ \ Tars]
            /\ Goto(j, "clear")
            /\ UNCHANGED <<tmp, at, src>>
       ELSE /\ tree' = IF tmp[k] # None THEN Emptied(k, tmp[k]) ELSE tree
            /\ tmp' = [tmp EXCEPT ![k] = None]
            /\ Fails(j)
    /\ UNCHANGED <<dir, used, loopVars, history>>

\* Slip: nothing is cleared.
ClearNothing(j) ==
    /\ pc[j] = "clear"
    /\ Goto(j, "rename")
    /\ UNCHANGED <<diskVars, at, src, loopVars, history>>

\* A directory already under the entry's name is removed.
ClearEntry(j) ==
    LET k == PayloadOf[j] IN
    /\ pc[j] = "clear"
    /\ tree' = IF IsTree(k) THEN Emptied(k, dir[k]) ELSE tree
    /\ dir' = [dir EXCEPT ![k] = None]
    /\ Goto(j, "rename")
    /\ UNCHANGED <<tmp, used, at, src, loopVars, history>>

Publish(j) ==
    LET k == PayloadOf[j] IN
    /\ pc[j] = "rename"
    /\ IF tmp[k] # None /\ ~IsTree(k)
       THEN /\ dir' = [dir EXCEPT ![k] = tmp[k]]
            /\ tmp' = [tmp EXCEPT ![k] = None]
            /\ used' = Touched(k)
            /\ Goto(j, "spawn") /\ UNCHANGED <<at, src>>
       ELSE Fails(j) /\ UNCHANGED <<dir, tmp, used>>
    /\ UNCHANGED <<tree, loopVars, history>>

\* run_job_inner goes on: the runner of the payload is started, if it is there.
SpawnRunner(j) ==
    /\ pc[j] = "spawn"
    /\ IF Entry(PayloadOf[j]) THEN Goto(j, "bundle") /\ UNCHANGED <<at, src>> ELSE Fails(j)
    /\ UNCHANGED <<diskVars, loopVars, history>>

----------------------------------------------------------------------------
(* ensureBundle, in the runner *)

BundleHit(j) ==
    /\ pc[j] = "bundle" /\ Entry(BundleOf[j])
    /\ Goto(j, "render")
    /\ UNCHANGED <<diskVars, at, src, loopVars, history>>

BundleMiss(j) ==
    /\ pc[j] = "bundle" /\ ~Entry(BundleOf[j])
    /\ Goto(j, "bundleGet")
    /\ UNCHANGED <<diskVars, at, src, loopVars, history>>

\* The archive is verified in memory and extracted from a private directory,
\* straight into the entry. A directory already there is used as it is.
BundleStart(j) ==
    LET b == BundleOf[j] IN
    /\ pc[j] = "bundleGet"
    /\ dir' = [dir EXCEPT ![b] = IF @ = None THEN j ELSE @]
    /\ at' = [at EXCEPT ![j] = dir'[b]]
    /\ used' = Touched(b)
    /\ Goto(j, "bundleTar")
    /\ UNCHANGED <<tmp, tree, src, loopVars, history>>

BundleWrites(j) ==
    LET b == BundleOf[j] IN
    /\ pc[j] = "bundleTar" /\ dir[b] = at[j]
    /\ \E p \in Parts \ tree[b][at[j]] :
         tree' = [tree EXCEPT ![b][at[j]] = @ \cup {p}]
    /\ used' = Touched(b)
    /\ UNCHANGED <<pc, dir, tmp, at, src, loopVars, history>>

BundleEnds(j) ==
    LET b == BundleOf[j] IN
    /\ pc[j] = "bundleTar" /\ dir[b] = at[j] /\ Parts \subseteq tree[b][at[j]]
    /\ Goto(j, "render") /\ LetsGo(j)
    /\ UNCHANGED <<diskVars, loopVars, history>>

\* tar failed, was terminated with the group, or wrote too much: the entry is
\* removed by its name.
RemoveBundle(b) ==
    /\ tree' = IF IsTree(b) THEN Emptied(b, dir[b]) ELSE tree
    /\ dir' = [dir EXCEPT ![b] = None]

\* Slip: a failed extraction is left for the next job.
BundleLeft(j) ==
    /\ pc[j] = "bundleTar"
    /\ Fails(j)
    /\ UNCHANGED <<diskVars, loopVars, history>>

BundleFails(j) ==
    /\ pc[j] = "bundleTar"
    /\ RemoveBundle(BundleOf[j])
    /\ Fails(j)
    /\ UNCHANGED <<tmp, used, loopVars, history>>

\* The runner ends: done, an error before or after the bundle, or TERM.
RunnerEnds(j) ==
    /\ pc[j] \in RunnerAlive \ {"bundleTar"}
    /\ Fails(j)
    /\ UNCHANGED <<diskVars, loopVars, history>>

\* The runner's group is killed (KILL, out of memory, power): nothing runs
\* after it, an extraction stays where it is.
RunnerKilled(j) ==
    /\ pc[j] = "bundleTar"
    /\ cut' = cut \cup {BundleOf[j]}
    /\ Fails(j)
    /\ UNCHANGED <<diskVars, loopVars, raced, last>>

----------------------------------------------------------------------------
(* sweep_caches, and the arms of the connection loop that run it *)

\* Slip: the loop does not await the sweep.
LoopAlwaysFree(s) == TRUE

LoopFree(s) == sweep[s] = None
Mine(s) == {j \in Jobs : Host[j] = s}
Live(j) == pc[j] \notin {"idle", "over"}

\* What sweep_caches knows: the use stamps it read and the entries it has still
\* to look at. stuck and quiet are history: what could not be removed, and
\* whether the sweep has the disk to itself.
NewSweep(s, keys) ==
    [order |-> used, left |-> EntriesOnDisk, running |-> Cardinality(EntriesOnDisk),
     keep |-> keys, stuck |-> {}, quiet |-> Sups = {s} /\ \A j \in Jobs : ~Live(j)]
KeysOf(j) == {PayloadOf[j], BundleOf[j]}

\* Slip: the keys are protected once and not remembered.
StartSweepOnce(s, keys) ==
    /\ sweep' = [sweep EXCEPT ![s] = NewSweep(s, keys)]
    /\ UNCHANGED protected

StartSweep(s, keys) ==
    /\ protected' = [protected EXCEPT ![s] = keys]
    /\ sweep' = [sweep EXCEPT ![s] = NewSweep(s, keys)]

\* run_session: every session starts with a sweep, when no task is left.
Connect(s) ==
    /\ LoopFree(s) /\ \A j \in Mine(s) : ~Live(j)
    /\ inFlight[s] = None
    /\ StartSweep(s, protected[s])
    /\ UNCHANGED <<pc, diskVars, at, src, inFlight, canceled, history>>

Assign(s, j) ==
    /\ LoopFree(s) /\ inFlight[s] = None
    /\ Host[j] = s /\ pc[j] = "idle"
    /\ inFlight' = [inFlight EXCEPT ![s] = j]
    /\ Goto(j, "ensure")
    /\ UNCHANGED <<diskVars, at, src, canceled, protected, sweep, history>>

\* The terminal frame of the job in flight.
Terminal(s) ==
    /\ LoopFree(s) /\ inFlight[s] # None
    /\ pc[inFlight[s]] = "over"
    /\ StartSweep(s, KeysOf(inFlight[s]))
    /\ inFlight' = [inFlight EXCEPT ![s] = None]
    /\ last' = [last EXCEPT ![s] = inFlight[s]]
    /\ UNCHANGED <<pc, diskVars, at, src, canceled, raced, cut>>

\* A cancel: the sweep runs at once, the task drains.
Cancel(s) ==
    /\ LoopFree(s) /\ inFlight[s] # None
    /\ canceled' = canceled \cup {inFlight[s]}
    /\ StartSweep(s, KeysOf(inFlight[s]))
    /\ inFlight' = [inFlight EXCEPT ![s] = None]
    /\ last' = [last EXCEPT ![s] = inFlight[s]]
    /\ UNCHANGED <<pc, diskVars, at, src, raced, cut>>

\* Slip: the cap is exclusive.
SweepingAtCap(s) == sweep[s] # None /\ sweep[s].running >= Cap /\ sweep[s].left # {}

Sweeping(s) == sweep[s] # None /\ sweep[s].running > Cap /\ sweep[s].left # {}
\* The oldest of the entries not yet looked at.
Candidate(s, k) ==
    /\ Sweeping(s) /\ k \in sweep[s].left
    /\ \A x \in sweep[s].left : sweep[s].order[k] <= sweep[s].order[x]

\* Slip: continue, without advancing.
SkipForever(s, k) ==
    /\ Candidate(s, k) /\ k \in sweep[s].keep
    /\ UNCHANGED vars

SkipProtected(s, k) ==
    /\ Candidate(s, k) /\ k \in sweep[s].keep
    /\ sweep' = [sweep EXCEPT ![s].left = @ \ {k}]
    /\ UNCHANGED <<pc, diskVars, at, src, inFlight, canceled, protected, history>>

Evict(s, k) ==
    /\ Candidate(s, k) /\ k \notin sweep[s].keep /\ IsTree(k)
    /\ tree' = Emptied(k, dir[k])
    /\ dir' = [dir EXCEPT ![k] = None]
    /\ sweep' = [sweep EXCEPT ![s].left = @ \ {k}, ![s].running = @ - 1]
    /\ UNCHANGED <<pc, tmp, used, at, src, inFlight, canceled, protected, history>>

\* Gone already, or refused by the file system: skipped, never retried.
EvictFails(s, k) ==
    /\ Candidate(s, k) /\ k \notin sweep[s].keep
    /\ sweep' = [sweep EXCEPT ![s].left = @ \ {k}, ![s].stuck = @ \cup {k}]
    /\ UNCHANGED <<pc, diskVars, at, src, inFlight, canceled, protected, history>>

SweepEnds(s) ==
    /\ sweep[s] # None /\ ~Sweeping(s)
    /\ sweep' = [sweep EXCEPT ![s] = None]
    /\ UNCHANGED <<pc, diskVars, at, src, inFlight, canceled, protected, history>>

\* The supervisor is killed with its runners and started again.
Crash(s) ==
    /\ \E j \in Mine(s) : Live(j)
    /\ pc' = [j \in Jobs |-> IF j \in Mine(s) /\ Live(j) THEN "over" ELSE pc[j]]
    /\ at' = [j \in Jobs |-> IF j \in Mine(s) THEN None ELSE at[j]]
    /\ src' = [j \in Jobs |-> IF j \in Mine(s) THEN "goodTar" ELSE src[j]]
    /\ cut' = cut \cup {BundleOf[j] : j \in {i \in Mine(s) : pc[i] = "bundleTar"}}
    /\ inFlight' = [inFlight EXCEPT ![s] = None]
    /\ protected' = [protected EXCEPT ![s] = {}]
    /\ sweep' = [sweep EXCEPT ![s] = None]
    /\ last' = [last EXCEPT ![s] = None]
    /\ UNCHANGED <<diskVars, canceled, raced>>

----------------------------------------------------------------------------

EnsureArtifact(j) ==
    \/ ArtifactHit(j) \/ ArtifactMiss(j) \/ WipeSibling(j) \/ MakeSibling(j)
    \/ RequestFails(j) \/ CreateFile(j)
    \/ BodyFails(j) \/ BodyVerified(j) \/ BodyRefused(j)
    \/ StartTar(j) \/ TarWrites(j) \/ TarFails(j) \/ TarEnds(j)
    \/ Seal(j) \/ ClearEntry(j) \/ Publish(j)

Runner(j) ==
    \/ SpawnRunner(j)
    \/ BundleHit(j) \/ BundleMiss(j) \/ BundleStart(j)
    \/ BundleWrites(j) \/ BundleEnds(j) \/ BundleFails(j)
    \/ RunnerEnds(j)

SweepStep(s) ==
    \/ \E k \in Keys : SkipProtected(s, k) \/ Evict(s, k) \/ EvictFails(s, k)
    \/ SweepEnds(s)

Next ==
    \/ \E j \in Jobs : EnsureArtifact(j) \/ Runner(j) \/ RunnerKilled(j)
    \/ \E s \in Sups : \/ Connect(s) \/ Terminal(s) \/ Cancel(s) \/ Crash(s)
                       \/ SweepStep(s)
                       \/ \E j \in Jobs : Assign(s, j)

Spec == Init /\ [][Next]_vars

\* The blocking pool runs the sweep the loop awaits.
Fairness == \A s \in Sups : WF_vars(SweepStep(s))

FairSpec == Spec /\ Fairness

----------------------------------------------------------------------------
(* Properties *)

TypeOK ==
    /\ pc \in [Jobs -> PCs]
    /\ dir \in [Keys -> Makers \cup {None}]
    /\ tmp \in [Keys -> Jobs \cup {None}]
    /\ tree \in [Keys -> [Makers -> SUBSET (Parts \cup Tars \cup {Bad})]]
    /\ at \in [Jobs -> Makers \cup {None}]
    /\ src \in [Jobs -> Tars]
    /\ used \in [Keys -> 1 .. Cardinality(Keys)]
    /\ inFlight \in [Sups -> Jobs \cup {None}]
    /\ canceled \subseteq Jobs
    /\ protected \in [Sups -> SUBSET Keys]
    /\ raced \subseteq Keys /\ cut \subseteq Keys

Whole(k) == Contents(k) \cap (Parts \cup {Bad}) = Parts

\* An entry of payloads/ is complete and verified whenever its marker is
\* there, whatever was killed, failed or evicted: only two fetches of one sha
\* at a time can break that (they share the hidden sibling).
PayloadEntriesWhole ==
    \A k \in Payloads : Entry(k) => Whole(k) \/ k \in raced

\* An entry of bundles/ lacks parts only while a runner extracts it, or after
\* a runner was killed doing so.
BundleEntriesWhole ==
    \A b \in Bundles : Entry(b) =>
        \/ Whole(b) \/ b \in cut
        \/ \E j \in Jobs : pc[j] = "bundleTar" /\ BundleOf[j] = b

\* "Partial downloads are never mistaken for entries" (cache.rs): what a hit
\* hands to a job is whole.
HitsAreWhole ==
    [][\A j \in Jobs :
         /\ ArtifactHit(j) => Whole(PayloadOf[j])
         /\ BundleHit(j) => Whole(BundleOf[j])]_vars

\* A fetch whose bytes verified and whose tar succeeded is published, over
\* whatever was under the name: only a second fetch of the sha can undo it.
SoloFetchPublishes ==
    [][\A j \in Jobs :
         pc[j] \in {"extract", "seal", "clear", "rename"} /\ pc'[j] = "over" =>
           PayloadOf[j] \in raced \/ Crash(Host[j])]_vars

Uses(j) ==
    (IF pc[j] \in {"spawn"} \cup RunnerAlive THEN {PayloadOf[j]} ELSE {})
      \cup (IF pc[j] = "render" THEN {BundleOf[j]} ELSE {})

\* What the job in flight uses stays where it is: no sweep of its own
\* supervisor runs beside it. Only another supervisor's sweep, a fetch of the
\* same payload or a failing extraction of the same bundle takes it away.
UsedEntriesStay ==
    [][\A j \in Jobs \ canceled : \A k \in Uses(j) :
         IsTree(k) /\ dir'[k] # dir[k] =>
           \/ k \in raced
           \/ \E i \in Jobs \ {j} : pc[i] = "bundleTar" /\ BundleOf[i] = k
           \/ \E s \in Sups \ {Host[j]} : Evict(s, k)]_vars

\* D-10: what a supervisor's last job used survives that supervisor's sweeps,
\* the one after the job and the ones of later reconnects.
LastJobStaysWarm ==
    [][\A s \in Sups : \A k \in Keys :
         Evict(s, k) /\ last[s] # None => k \notin KeysOf(last[s])]_vars

\* A sweep that has the disk to itself evicts only while the caches are over
\* the cap, the least recently used unprotected entry first, and stops over
\* the cap only if all that is left is protected or could not be removed.
QuietSweepIsExact ==
    [][\A s \in Sups : sweep[s] # None /\ sweep[s].quiet =>
         /\ \A k \in Keys : Evict(s, k) =>
              /\ Cardinality(EntriesOnDisk) > Cap
              /\ \A x \in EntriesOnDisk :
                   used[x] < used[k] => x \in sweep[s].keep \cup sweep[s].stuck
         /\ SweepEnds(s) =>
              \/ Cardinality(EntriesOnDisk) <= Cap
              \/ EntriesOnDisk \subseteq sweep[s].keep \cup sweep[s].stuck]_vars

\* An entry that is protected, gone or cannot be removed does not keep a sweep, and
\* with it the connection loop, from ending.
LoopReturns == \A s \in Sups : sweep[s] # None ~> sweep[s] = None
====
