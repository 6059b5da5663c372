----------------------------- MODULE CacheProofs -----------------------------
(* Theorems about ArtifactCache, for every number of jobs, supervisors,    *)
(* payloads and bundles, every assignment of them, and every cap.          *)
EXTENDS ArtifactCache, FiniteSetTheorems, TLAPS

Contained == Parts \cup Tars \cup {Bad}

\* TypeOK, and the shape of a sweep.
CacheType ==
    /\ pc \in [Jobs -> PCs]
    /\ dir \in [Keys -> Makers \cup {None}]
    /\ tmp \in [Keys -> Jobs \cup {None}]
    /\ tree \in [Keys -> [Makers -> SUBSET Contained]]
    /\ at \in [Jobs -> Makers \cup {None}]
    /\ \A j \in Jobs : pc[j] \in {"body", "tar", "bundleTar"} => at[j] \in Makers
    /\ src \in [Jobs -> Tars]
    /\ used \in [Keys -> 1 .. Cardinality(Keys)]
    /\ inFlight \in [Sups -> Jobs \cup {None}]
    /\ canceled \subseteq Jobs
    /\ protected \in [Sups -> SUBSET Keys]
    /\ last \in [Sups -> Jobs \cup {None}]
    /\ sweep = [s \in Sups |-> sweep[s]]
    /\ \A s \in Sups : sweep[s] # None =>
         DOMAIN sweep[s] = {"order", "left", "running", "keep", "stuck", "quiet"}
    /\ raced \subseteq Keys /\ cut \subseteq Keys

Used == {"spawn"} \cup RunnerAlive
Fresh == {"idle", "ensure", "wipe", "make", "get"}
Keeping == Filling \ {"wipe", "make"}

\* The one fetch of key k that job j is in the middle of.
Filler(j, k) == pc[j] \in Filling /\ PayloadOf[j] = k

OneFiller(k) == \A i, j \in Jobs : Filler(i, k) /\ Filler(j, k) => i = j

\* What the fetch of k knows at each of its steps.
Stage(j, k) ==
    /\ ~Entry(k)
    /\ pc[j] = "make" => tmp[k] = None
    /\ pc[j] \in Keeping => tmp[k] = j
    /\ pc[j] = "body" => at[j] = j /\ tree[k][j] = {"partTar"}
    /\ pc[j] = "extract" => tree[k][j] = {"goodTar"}
    /\ pc[j] = "tar" => at[j] = j /\ src[j] = "goodTar" /\ Bad \notin tree[k][j]
    /\ pc[j] = "seal" => Parts \subseteq tree[k][j] /\ Bad \notin tree[k][j]
    /\ pc[j] \in {"clear", "rename"} => tree[k][j] \cap (Parts \cup {Bad}) = Parts
    /\ pc[j] = "rename" => dir[k] = None
Stages(k) == \A j \in Jobs : Filler(j, k) => Stage(j, k)

\* The entry is nobody's sibling, its maker is done with it, and a job that has
\* not come to its own sibling has put nothing anywhere.
Names(k) ==
    /\ dir[k] # None => dir[k] # tmp[k]
    /\ dir[k] \in Jobs => pc[dir[k]] \notin Filling \cup Fresh
    /\ \A j \in Jobs : pc[j] \in Fresh => tree[k][j] = {}

\* The entry is whole, and what stands under the name of a payload in use is one.
Sound(k) ==
    /\ Entry(k) => Whole(k)
    /\ \A j \in Jobs : pc[j] \in Used /\ PayloadOf[j] = k /\ IsTree(k) => Entry(k)

Solo(k) == OneFiller(k) /\ Stages(k) /\ Names(k) /\ Sound(k)

SoloInv == \A k \in Payloads \ raced : Solo(k)

\* An entry of bundles/ lacks parts only while, or after, an extraction stops.
BundleInv ==
    /\ \A b \in Bundles : \A o \in Makers : Bad \notin tree[b][o]
    /\ BundleEntriesWhole

\* A sweep and a job in flight exclude each other, and a live job that was not
\* canceled is the one in flight; a sweep keeps what the loop protects, and the
\* loop protects what the last job used.
LoopInv ==
    /\ \A s \in Sups : sweep[s] # None => inFlight[s] = None /\ sweep[s].keep = protected[s]
    /\ \A s \in Sups : last[s] # None => protected[s] = KeysOf(last[s])
    /\ \A j \in Jobs \ canceled : Live(j) => inFlight[Host[j]] = j

----------------------------------------------------------------------------
(* Types                                                                   *)

(* The constants say where a job runs and what it needs.                   *)
LEMMA NeededKeys ==
    ASSUME NEW j \in Jobs
    PROVE  /\ PayloadOf[j] \in Payloads /\ PayloadOf[j] \in Keys
           /\ BundleOf[j] \in Bundles /\ BundleOf[j] \in Keys
           /\ Host[j] \in Sups /\ j \in Makers /\ None \notin Makers
BY CacheAssumption DEF Keys, Makers

(* A write into the tarball touches only the directory it is open in.      *)
LEMMA AfterBodyEffect ==
    ASSUME CacheType, NEW j \in Jobs, pc[j] = "body", NEW t \in Tars,
           NEW new \in AfterBody(j, PayloadOf[j], t)
    PROVE  /\ new \in [Keys -> [Makers -> SUBSET Contained]]
           /\ \A k \in Keys, o \in Makers :
                new[k][o] # tree[k][o] => k = PayloadOf[j] /\ o = at[j] /\ Named(k, o)
           /\ Named(PayloadOf[j], at[j]) /\ HasTar(PayloadOf[j], at[j]) =>
                \E x \in {t, "partTar"} :
                  /\ new[PayloadOf[j]][at[j]] = (tree[PayloadOf[j]][at[j]] \ Tars) \cup {x}
                  /\ x = t \/ AlsoWriting(j, PayloadOf[j])
<1> DEFINE k == PayloadOf[j]
<1>1. k \in Keys /\ at[j] \in Makers
  BY NeededKeys DEF CacheType
<1>2. CASE ~(Named(k, at[j]) /\ HasTar(k, at[j]))
  BY <1>2 DEF AfterBody, CacheType
<1>3. CASE Named(k, at[j]) /\ HasTar(k, at[j])
  <2>1. PICK x \in {t, "partTar"} :
          new = [tree EXCEPT ![k][at[j]] = WithTar(@, x)] /\ (x = t \/ AlsoWriting(j, k))
    BY <1>3 DEF AfterBody
  <2>2. x \in Contained /\ Tars \subseteq Contained
    BY DEF Contained, Tars
  <2> QED BY <1>1, <1>3, <2>1, <2>2 DEF WithTar, CacheType
<1> QED BY <1>2, <1>3

(* A job that fails lets go of what it had open.                           *)
LEMMA FailedJob ==
    ASSUME CacheType, NEW j \in Jobs, Fails(j)
    PROVE  /\ pc' \in [Jobs -> PCs] /\ at' \in [Jobs -> Makers \cup {None}]
           /\ src' \in [Jobs -> Tars]
           /\ \A i \in Jobs : pc'[i] \in {"body", "tar", "bundleTar"} => at'[i] \in Makers
BY DEF CacheType, Fails, Goto, LetsGo, Tars, PCs

(* A write into the tarball of one payload leaves the others alone.        *)
LEMMA AfterBodyTouches ==
    ASSUME CacheType, NEW j \in Jobs, pc[j] = "body", NEW t \in Tars,
           NEW new \in AfterBody(j, PayloadOf[j], t), NEW k \in Keys \ {PayloadOf[j]}
    PROVE  new[k] = tree[k]
<1>1. new[k] \in [Makers -> SUBSET Contained] /\ \A o \in Makers : new[k][o] = tree[k][o]
  BY AfterBodyEffect
<1>2. tree[k] \in [Makers -> SUBSET Contained]
  BY DEF CacheType
<1> QED BY <1>1, <1>2

(* A use keeps the order of last use within its bounds.                    *)
LEMMA TouchedOrder ==
    ASSUME CacheType, NEW k \in Keys
    PROVE  Touched(k) \in [Keys -> 1 .. Cardinality(Keys)]
<1>1. Cardinality(Keys) \in Nat /\ Cardinality(Keys) # 0
  BY CacheAssumption, FS_CardinalityType, FS_EmptySet
<1> HIDE DEF Keys
<1>2. \A x \in Keys : used[x] \in 1 .. Cardinality(Keys)
  BY DEF CacheType
<1> QED BY <1>1, <1>2 DEF Touched

(* Every step keeps the types.                                             *)
LEMMA TypeStep ==
    ASSUME CacheType, [Next]_vars
    PROVE  CacheType'
<1> USE NeededKeys, TouchedOrder DEF CacheType, diskVars, loopVars, history, Goto, LetsGo, Fails,
      PCs, Filling, RunnerAlive, BundleFilling
<1>1. ASSUME NEW j \in Jobs, EnsureArtifact(j) PROVE CacheType'
  <2>1. CASE ArtifactHit(j) BY <2>1 DEF ArtifactHit
  <2>2. CASE ArtifactMiss(j) BY <2>2 DEF ArtifactMiss
  <2>3. CASE WipeSibling(j) BY <2>3 DEF WipeSibling, Emptied
  <2>4. CASE MakeSibling(j)
    <3>1. tmp' \in [Keys -> Jobs \cup {None}]
      BY <2>4 DEF MakeSibling
    <3> QED BY <2>4, <3>1 DEF MakeSibling
  <2>5. CASE RequestFails(j) BY <2>5 DEF RequestFails, Tars
  <2>6. CASE CreateFile(j)
    <3>1. tmp[PayloadOf[j]] \in Makers
      BY <2>6 DEF CreateFile, Makers
    <3>2. tree' \in [Keys -> [Makers -> SUBSET Contained]]
      BY <2>6, <3>1 DEF CreateFile, WithTar, Contained, Tars
    <3>3. /\ pc' \in [Jobs -> PCs] /\ at' \in [Jobs -> Makers \cup {None}]
          /\ \A i \in Jobs : pc'[i] \in {"body", "tar", "bundleTar"} => at'[i] \in Makers
      BY <2>6, <3>1 DEF CreateFile
    <3> QED BY <2>6, <3>2, <3>3 DEF CreateFile
  <2>7. CASE BodyFails(j)
    <3> DEFINE k == PayloadOf[j]
               o == tmp[k]
    <3>1. ASSUME o # None, tree' = [tree EXCEPT ![k][o] = @ \ Tars]
          PROVE  tree' \in [Keys -> [Makers -> SUBSET Contained]]
      <4>1. o \in Makers /\ k \in Keys
        BY <3>1 DEF Makers
      <4> HIDE DEF o, k
      <4> QED BY <3>1, <4>1
    <3>2. tree' \in [Keys -> [Makers -> SUBSET Contained]]
      BY <2>7, <3>1 DEF BodyFails
    <3> QED BY <2>7, <3>2, FailedJob DEF BodyFails
  <2>8. CASE BodyVerified(j)
    <3>1. tree' \in [Keys -> [Makers -> SUBSET Contained]]
      BY <2>8, AfterBodyEffect DEF BodyVerified, Tars
    <3> QED BY <2>8, <3>1 DEF BodyVerified, Tars
  <2>9. CASE BodyRefused(j)
    <3>1. PICK t \in AfterBody(j, PayloadOf[j], "badTar") :
            tree' = IF tmp[PayloadOf[j]] = None THEN t
                    ELSE [t EXCEPT ![PayloadOf[j]][tmp[PayloadOf[j]]] = {}]
      BY <2>9 DEF BodyRefused
    <3>2. t \in [Keys -> [Makers -> SUBSET Contained]]
      BY <2>9, AfterBodyEffect DEF BodyRefused, Tars
    <3>3. tree' \in [Keys -> [Makers -> SUBSET Contained]]
      BY <3>1, <3>2 DEF Makers
    <3> QED BY <2>9, <3>3 DEF BodyRefused, Tars
  <2>10. CASE StartTar(j)
    <3>1. CASE tmp[PayloadOf[j]] # None /\ HasTar(PayloadOf[j], tmp[PayloadOf[j]])
      <4> DEFINE k == PayloadOf[j]
                 o == tmp[k]
      <4>1. o \in Makers /\ k \in Keys
        BY <3>1 DEF Makers
      <4>2. PICK t \in tree[k][o] \cap Tars : src' = [src EXCEPT ![j] = t]
        BY <2>10, <3>1 DEF StartTar
      <4>3. at' = [at EXCEPT ![j] = o] /\ pc' = [pc EXCEPT ![j] = "tar"]
        BY <2>10, <3>1 DEF StartTar
      <4>4. UNCHANGED <<diskVars, loopVars, history>>
        BY <2>10 DEF StartTar
      <4> HIDE DEF o, k
      <4> QED BY <4>1, <4>2, <4>3, <4>4
    <3>2. CASE ~(tmp[PayloadOf[j]] # None /\ HasTar(PayloadOf[j], tmp[PayloadOf[j]]))
      BY <2>10, <3>2, FailedJob DEF StartTar
    <3> QED BY <3>1, <3>2
  <2>11. CASE TarWrites(j)
    <3>1. PICK p \in Parts \ tree[PayloadOf[j]][at[j]] :
            tree' = [tree EXCEPT ![PayloadOf[j]][at[j]] = @ \cup {p} \cup Taint(j)]
      BY <2>11 DEF TarWrites
    <3>2. p \in Contained /\ Taint(j) \subseteq Contained
      BY DEF Contained, Taint
    <3>3. tree' \in [Keys -> [Makers -> SUBSET Contained]]
      BY <2>11, <3>1, <3>2 DEF TarWrites
    <3> QED BY <2>11, <3>3 DEF TarWrites
  <2>12. CASE TarFails(j) BY <2>12 DEF TarFails, Tars
  <2>13. CASE TarEnds(j) BY <2>13 DEF TarEnds, Taint, Contained, Tars
  <2>14. CASE Seal(j)
    <3> DEFINE k == PayloadOf[j]
               o == tmp[k]
    <3>0. k \in Keys /\ (o # None => o \in Makers)
      BY DEF Makers
    <3>1. CASE o # None /\ "marker" \in tree[k][o]
      <4>1. /\ tree' = [tree EXCEPT ![k][o] = @ \ Tars]
            /\ pc' = [pc EXCEPT ![j] = "clear"]
            /\ UNCHANGED <<dir, tmp, at, src, used, loopVars, history>>
        BY <2>14, <3>1 DEF Seal
      <4> HIDE DEF o, k
      <4> QED BY <3>0, <3>1, <4>1
    <3>2. CASE ~(o # None /\ "marker" \in tree[k][o])
      <4>1. /\ tree' = IF o # None THEN [tree EXCEPT ![k][o] = {}] ELSE tree
            /\ tmp' = [tmp EXCEPT ![k] = None]
            /\ UNCHANGED <<dir, used, loopVars, history>>
        BY <2>14, <3>2 DEF Seal, Emptied
      <4>2. Fails(j)
        BY <2>14, <3>2 DEF Seal
      <4>3. tree' \in [Keys -> [Makers -> SUBSET Contained]]
        <5> HIDE DEF o, k
        <5> QED BY <3>0, <4>1
      <4> QED BY <3>0, <4>1, <4>2, <4>3, FailedJob
    <3> QED BY <3>1, <3>2
  <2>15. CASE ClearEntry(j) BY <2>15 DEF ClearEntry, Emptied, IsTree
  <2>16. CASE Publish(j)
    <3> DEFINE k == PayloadOf[j]
    <3>1. CASE tmp[k] # None /\ ~IsTree(k)
      <4>1. tmp[k] \in Makers
        BY <3>1 DEF Makers
      <4>2. /\ dir' = [dir EXCEPT ![k] = tmp[k]] /\ tmp' = [tmp EXCEPT ![k] = None]
            /\ used' = Touched(k) /\ pc' = [pc EXCEPT ![j] = "spawn"]
            /\ UNCHANGED <<at, src, tree, loopVars, history>>
        BY <2>16, <3>1 DEF Publish
      <4>3. /\ dir' \in [Keys -> Makers \cup {None}] /\ tmp' \in [Keys -> Jobs \cup {None}]
            /\ used' \in [Keys -> 1 .. Cardinality(Keys)]
        BY <4>1, <4>2
      <4> QED BY <4>2, <4>3
    <3>2. CASE ~(tmp[k] # None /\ ~IsTree(k))
      BY <2>16, <3>2, FailedJob DEF Publish
    <3> QED BY <3>1, <3>2
  <2> QED
    BY <1>1, <2>1, <2>2, <2>3, <2>4, <2>5, <2>6, <2>7, <2>8, <2>9, <2>10, <2>11, <2>12,
       <2>13, <2>14, <2>15, <2>16 DEF EnsureArtifact
<1>2. ASSUME NEW j \in Jobs, Runner(j) \/ RunnerKilled(j) PROVE CacheType'
  <2>1. CASE SpawnRunner(j)
    <3>1. CASE Entry(PayloadOf[j]) BY <2>1, <3>1 DEF SpawnRunner
    <3>2. CASE ~Entry(PayloadOf[j]) BY <2>1, <3>2, FailedJob DEF SpawnRunner
    <3> QED BY <3>1, <3>2
  <2>2. CASE BundleHit(j) BY <2>2 DEF BundleHit
  <2>3. CASE BundleMiss(j) BY <2>3 DEF BundleMiss
  <2>4. CASE BundleStart(j) BY <2>4 DEF BundleStart
  <2>5. CASE BundleWrites(j)
    <3>1. PICK p \in Parts \ tree[BundleOf[j]][at[j]] :
            tree' = [tree EXCEPT ![BundleOf[j]][at[j]] = @ \cup {p}]
      BY <2>5 DEF BundleWrites
    <3>2. p \in Contained
      BY DEF Contained
    <3>3. tree' \in [Keys -> [Makers -> SUBSET Contained]]
      BY <2>5, <3>1, <3>2 DEF BundleWrites
    <3> QED BY <2>5, <3>3 DEF BundleWrites
  <2>6. CASE BundleEnds(j) BY <2>6 DEF BundleEnds, Tars
  <2>7. CASE BundleFails(j) BY <2>7 DEF BundleFails, RemoveBundle, Emptied, IsTree, Tars
  <2>8. CASE RunnerEnds(j) BY <2>8 DEF RunnerEnds, Tars
  <2>9. CASE RunnerKilled(j) BY <2>9 DEF RunnerKilled, Tars
  <2> QED
    BY <1>2, <2>1, <2>2, <2>3, <2>4, <2>5, <2>6, <2>7, <2>8, <2>9 DEF Runner
<1>3. ASSUME NEW s \in Sups, NEW keys \in SUBSET Keys, StartSweep(s, keys)
      PROVE  /\ protected' \in [Sups -> SUBSET Keys]
             /\ sweep' = [x \in Sups |-> sweep'[x]]
             /\ \A x \in Sups : sweep'[x] # None =>
                  DOMAIN sweep'[x] = {"order", "left", "running", "keep", "stuck", "quiet"}
  BY <1>3 DEF StartSweep, NewSweep
<1>4. ASSUME NEW s \in Sups, Connect(s) \/ Terminal(s) \/ Cancel(s) \/ Crash(s)
                             \/ \E j \in Jobs : Assign(s, j)
      PROVE  CacheType'
  <2>1. CASE Connect(s) BY <1>3, <2>1 DEF Connect
  <2>2. CASE Terminal(s)
    <3>1. inFlight[s] \in Jobs /\ KeysOf(inFlight[s]) \subseteq Keys
      BY <2>2 DEF Terminal, KeysOf
    <3> QED BY <1>3, <2>2, <3>1 DEF Terminal
  <2>3. CASE Cancel(s)
    <3>1. inFlight[s] \in Jobs /\ KeysOf(inFlight[s]) \subseteq Keys
      BY <2>3 DEF Cancel, KeysOf
    <3> QED BY <1>3, <2>3, <3>1 DEF Cancel
  <2>4. CASE Crash(s)
    <3>1. pc' \in [Jobs -> PCs]
      BY <2>4 DEF Crash
    <3>2. at' \in [Jobs -> Makers \cup {None}] /\ src' \in [Jobs -> Tars]
      BY <2>4 DEF Crash, Tars
    <3>3. \A i \in Jobs : pc'[i] \in {"body", "tar", "bundleTar"} => at'[i] \in Makers
      BY <2>4 DEF Crash, Live
    <3>4. cut' \subseteq Keys
      BY <2>4 DEF Crash, Mine
    <3>5. /\ protected' \in [Sups -> SUBSET Keys]
          /\ inFlight' \in [Sups -> Jobs \cup {None}]
          /\ last' \in [Sups -> Jobs \cup {None}]
          /\ sweep' = [x \in Sups |-> sweep'[x]]
          /\ \A x \in Sups : sweep'[x] # None =>
               DOMAIN sweep'[x] = {"order", "left", "running", "keep", "stuck", "quiet"}
      BY <2>4 DEF Crash
    <3> QED BY <2>4, <3>1, <3>2, <3>3, <3>4, <3>5 DEF Crash
  <2>5. ASSUME NEW j \in Jobs, Assign(s, j) PROVE CacheType'
    BY <2>5 DEF Assign
  <2> QED BY <1>4, <2>1, <2>2, <2>3, <2>4, <2>5
<1>5. ASSUME NEW s \in Sups, SweepStep(s) PROVE CacheType'
  <2> USE DEF Candidate, Sweeping
  <2>1. ASSUME NEW k \in Keys, SkipProtected(s, k) PROVE CacheType'
    BY <2>1 DEF SkipProtected
  <2>2. ASSUME NEW k \in Keys, Evict(s, k) PROVE CacheType'
    BY <2>2 DEF Evict, Emptied, IsTree
  <2>3. ASSUME NEW k \in Keys, EvictFails(s, k) PROVE CacheType'
    BY <2>3 DEF EvictFails
  <2>4. CASE SweepEnds(s) BY <2>4 DEF SweepEnds
  <2> QED BY <1>5, <2>1, <2>2, <2>3, <2>4 DEF SweepStep
<1>6. CASE UNCHANGED vars
  BY <1>6 DEF vars
<1> QED BY <1>1, <1>2, <1>4, <1>5, <1>6 DEF Next

(* The types, an invariant.                                                *)
LEMMA CacheTypes == Spec => []CacheType
<1>1. Init => CacheType
  BY DEF Init, CacheType, PCs, Tars, Parts, Contained, Makers
<1> QED BY <1>1, TypeStep, PTL DEF Spec

(* Every variable keeps its type, whoever takes the step.                  *)
THEOREM CacheTypeCorrect == Spec => []TypeOK
<1>1. CacheType => TypeOK
  BY DEF CacheType, TypeOK, Contained
<1> QED BY <1>1, CacheTypes, PTL

----------------------------------------------------------------------------
(* What a step can touch                                                   *)

(* A step of ensure_artifact touches its own payload and its own job.      *)
LEMMA ArtifactTouches ==
    ASSUME CacheType, NEW j \in Jobs, EnsureArtifact(j)
    PROVE  /\ \A k \in Keys \ {PayloadOf[j]} :
                dir'[k] = dir[k] /\ tmp'[k] = tmp[k] /\ tree'[k] = tree[k]
           /\ \A i \in Jobs \ {j} : pc'[i] = pc[i] /\ at'[i] = at[i] /\ src'[i] = src[i]
           /\ UNCHANGED <<loopVars, cut, last>> /\ raced \subseteq raced'
           /\ pc[j] \in {"ensure"} \cup Filling
           /\ pc'[j] \in {"spawn", "over"} \cup Filling
           /\ pc'[j] \in Fresh => pc[j] \in Fresh
<1> USE NeededKeys DEF CacheType, diskVars, loopVars, history, Goto, LetsGo, Fails, Filling,
      Fresh
<1>1. CASE ArtifactHit(j) BY <1>1 DEF ArtifactHit
<1>2. CASE ArtifactMiss(j) BY <1>2 DEF ArtifactMiss
<1>3. CASE WipeSibling(j) BY <1>3 DEF WipeSibling, Emptied
<1>4. CASE MakeSibling(j) BY <1>4 DEF MakeSibling
<1>5. CASE RequestFails(j) BY <1>5 DEF RequestFails
<1>6. CASE CreateFile(j) BY <1>6 DEF CreateFile
<1>7. CASE BodyFails(j) BY <1>7 DEF BodyFails
<1>8. CASE BodyVerified(j)
  <2>1. \A k \in Keys \ {PayloadOf[j]} : tree'[k] = tree[k]
    BY <1>8, AfterBodyTouches DEF BodyVerified, Tars
  <2> QED BY <1>8, <2>1 DEF BodyVerified
<1>9. CASE BodyRefused(j)
  <2>1. PICK t \in AfterBody(j, PayloadOf[j], "badTar") :
          tree' = IF tmp[PayloadOf[j]] = None THEN t
                  ELSE [t EXCEPT ![PayloadOf[j]][tmp[PayloadOf[j]]] = {}]
    BY <1>9 DEF BodyRefused
  <2>2. pc[j] = "body" /\ "badTar" \in Tars
    BY <1>9 DEF BodyRefused, Tars
  <2>3. t \in [Keys -> [Makers -> SUBSET Contained]]
    BY <2>2, AfterBodyEffect
  <2>4. \A k \in Keys \ {PayloadOf[j]} : t[k] = tree[k]
    BY <2>2, AfterBodyTouches
  <2>5. \A k \in Keys \ {PayloadOf[j]} : tree'[k] = tree[k]
    BY <2>1, <2>3, <2>4
  <2> QED BY <1>9, <2>5 DEF BodyRefused
<1>10. CASE StartTar(j) BY <1>10 DEF StartTar
<1>11. CASE TarWrites(j) BY <1>11 DEF TarWrites
<1>12. CASE TarFails(j) BY <1>12 DEF TarFails
<1>13. CASE TarEnds(j) BY <1>13 DEF TarEnds
<1>14. CASE Seal(j) BY <1>14 DEF Seal, Emptied
<1>15. CASE ClearEntry(j) BY <1>15 DEF ClearEntry, Emptied
<1>16. CASE Publish(j) BY <1>16 DEF Publish
<1> QED
  BY <1>1, <1>2, <1>3, <1>4, <1>5, <1>6, <1>7, <1>8, <1>9, <1>10, <1>11, <1>12,
     <1>13, <1>14, <1>15, <1>16 DEF EnsureArtifact

(* A step of the runner touches its own bundle and its own job.            *)
LEMMA RunnerTouches ==
    ASSUME CacheType, NEW j \in Jobs, Runner(j) \/ RunnerKilled(j)
    PROVE  /\ \A k \in Keys \ {BundleOf[j]} : dir'[k] = dir[k] /\ tree'[k] = tree[k]
           /\ tmp' = tmp
           /\ \A i \in Jobs \ {j} : pc'[i] = pc[i] /\ at'[i] = at[i] /\ src'[i] = src[i]
           /\ UNCHANGED <<loopVars, raced, last>> /\ cut \subseteq cut'
           /\ pc[j] \in Used
           /\ pc'[j] \in RunnerAlive \cup {"over"}
           /\ pc[j] = "spawn" /\ pc'[j] # "over" => Entry(PayloadOf[j])
<1> USE NeededKeys DEF CacheType, diskVars, loopVars, history, Goto, LetsGo, Fails,
      Used, RunnerAlive, BundleFilling
<1>1. CASE SpawnRunner(j) BY <1>1 DEF SpawnRunner
<1>2. CASE BundleHit(j) BY <1>2 DEF BundleHit
<1>3. CASE BundleMiss(j) BY <1>3 DEF BundleMiss
<1>4. CASE BundleStart(j) BY <1>4 DEF BundleStart
<1>5. CASE BundleWrites(j) BY <1>5 DEF BundleWrites
<1>6. CASE BundleEnds(j) BY <1>6 DEF BundleEnds
<1>7. CASE BundleFails(j) BY <1>7 DEF BundleFails, RemoveBundle, Emptied
<1>8. CASE RunnerEnds(j) BY <1>8 DEF RunnerEnds
<1>9. CASE RunnerKilled(j) BY <1>9 DEF RunnerKilled
<1> QED BY <1>1, <1>2, <1>3, <1>4, <1>5, <1>6, <1>7, <1>8, <1>9 DEF Runner

(* The arms of the loop and the start of a sweep touch no disk.            *)
LEMMA LoopTouches ==
    ASSUME CacheType, NEW s \in Sups,
           Connect(s) \/ Terminal(s) \/ Cancel(s) \/ (\E j \in Jobs : Assign(s, j))
    PROVE  /\ UNCHANGED <<dir, tmp, tree, at, src, raced, cut>>
           /\ \A i \in Jobs : pc'[i] = pc[i] \/ (pc[i] = "idle" /\ pc'[i] = "ensure")
<1>1. CASE Connect(s) BY <1>1 DEF Connect, diskVars, history
<1>2. CASE Terminal(s) BY <1>2 DEF Terminal, diskVars
<1>3. CASE Cancel(s) BY <1>3 DEF Cancel, diskVars
<1>4. CASE \E j \in Jobs : Assign(s, j)
  BY <1>4 DEF Assign, diskVars, history, Goto, CacheType
<1> QED BY <1>1, <1>2, <1>3, <1>4

(* A step of a sweep touches an entry that is no sibling, and no job.      *)
LEMMA SweepTouches ==
    ASSUME CacheType, NEW s \in Sups, SweepStep(s)
    PROVE  /\ UNCHANGED <<pc, tmp, at, src, inFlight, canceled, protected, history>>
           /\ \A k \in Keys : \/ dir'[k] = dir[k] /\ tree'[k] = tree[k]
                              \/ /\ Evict(s, k) /\ dir'[k] = None
                                 /\ tree'[k] = [tree[k] EXCEPT ![dir[k]] = {}]
           /\ sweep[s] # None
           /\ \A t \in Sups : sweep'[t] # None => sweep[t] # None /\ sweep'[t].keep = sweep[t].keep
<1> USE DEF CacheType, diskVars, Candidate, Sweeping
<1>1. ASSUME NEW k \in Keys, SkipProtected(s, k)
      PROVE  /\ UNCHANGED <<pc, dir, tmp, tree, at, src, inFlight, canceled, protected, history>>
             /\ sweep[s] # None
             /\ \A t \in Sups : sweep'[t] # None =>
                  sweep[t] # None /\ sweep'[t].keep = sweep[t].keep
  BY <1>1 DEF SkipProtected
<1>2. ASSUME NEW c \in Keys, Evict(s, c)
      PROVE  /\ UNCHANGED <<pc, tmp, at, src, inFlight, canceled, protected, history>>
             /\ sweep[s] # None
             /\ \A t \in Sups : sweep'[t] # None =>
                  sweep[t] # None /\ sweep'[t].keep = sweep[t].keep
             /\ \A k \in Keys : \/ dir'[k] = dir[k] /\ tree'[k] = tree[k]
                                \/ /\ Evict(s, k) /\ dir'[k] = None
                                   /\ tree'[k] = [tree[k] EXCEPT ![dir[k]] = {}]
  <2>1. \A t \in Sups : sweep'[t] # None => sweep[t] # None /\ sweep'[t].keep = sweep[t].keep
    BY <1>2 DEF Evict
  <2>2. \A k \in Keys : \/ dir'[k] = dir[k] /\ tree'[k] = tree[k]
                        \/ /\ k = c /\ dir'[k] = None
                           /\ tree'[k] = [tree[k] EXCEPT ![dir[k]] = {}]
    BY <1>2 DEF Evict, Emptied
  <2>3. /\ UNCHANGED <<pc, tmp, at, src, inFlight, canceled, protected, history>>
        /\ sweep[s] # None
    BY <1>2 DEF Evict
  <2> QED BY <1>2, <2>1, <2>2, <2>3
<1>3. ASSUME NEW k \in Keys, EvictFails(s, k)
      PROVE  /\ UNCHANGED <<pc, dir, tmp, tree, at, src, inFlight, canceled, protected, history>>
             /\ sweep[s] # None
             /\ \A t \in Sups : sweep'[t] # None =>
                  sweep[t] # None /\ sweep'[t].keep = sweep[t].keep
  BY <1>3 DEF EvictFails
<1>4. CASE SweepEnds(s) BY <1>4 DEF SweepEnds
<1> QED BY <1>1, <1>2, <1>3, <1>4 DEF SweepStep

----------------------------------------------------------------------------
(* The connection loop                                                     *)

(* A sweep and a job in flight exclude each other, whatever the step.      *)
LEMMA LoopStep ==
    ASSUME CacheType, LoopInv, [Next]_vars
    PROVE  LoopInv'
<1> USE NeededKeys DEF LoopInv, Live, loopVars
<1>1. ASSUME NEW j \in Jobs, EnsureArtifact(j) PROVE LoopInv'
  BY <1>1, ArtifactTouches DEF Filling
<1>2. ASSUME NEW j \in Jobs, Runner(j) \/ RunnerKilled(j) PROVE LoopInv'
  BY <1>2, RunnerTouches DEF Used, RunnerAlive, BundleFilling
<1>3. ASSUME NEW s \in Sups, SweepStep(s) PROVE LoopInv'
  BY <1>3, SweepTouches DEF history
<1>4. ASSUME NEW s \in Sups, Connect(s) PROVE LoopInv'
  BY <1>4 DEF Connect, StartSweep, NewSweep, CacheType, LoopFree, history
<1>5. ASSUME NEW s \in Sups, Terminal(s) PROVE LoopInv'
  <2>1. inFlight[s] \in Jobs /\ pc[inFlight[s]] = "over"
    BY <1>5 DEF Terminal, CacheType
  <2> QED BY <1>5, <2>1 DEF Terminal, StartSweep, NewSweep, CacheType, LoopFree
<1>6. ASSUME NEW s \in Sups, Cancel(s) PROVE LoopInv'
  <2>1. inFlight[s] \in Jobs
    BY <1>6 DEF Cancel, CacheType
  <2> QED BY <1>6, <2>1 DEF Cancel, StartSweep, NewSweep, CacheType, LoopFree
<1>7. ASSUME NEW s \in Sups, NEW j \in Jobs, Assign(s, j) PROVE LoopInv'
  BY <1>7 DEF Assign, CacheType, LoopFree, history, Goto
<1>8. ASSUME NEW s \in Sups, Crash(s) PROVE LoopInv'
  BY <1>8 DEF Crash, CacheType, Mine
<1>9. CASE UNCHANGED vars
  BY <1>9 DEF vars, history
<1> QED BY <1>1, <1>2, <1>3, <1>4, <1>5, <1>6, <1>7, <1>8, <1>9 DEF Next

(* The types and the loop's part of the state, an invariant.               *)
LEMMA LoopKept == Spec => [](CacheType /\ LoopInv)
<1>1. Init => LoopInv
  BY NeededKeys DEF Init, LoopInv, Live
<1> QED BY <1>1, LoopStep, CacheTypes, PTL DEF Spec

(* D-10: what a supervisor's last job used survives its own sweeps.        *)
THEOREM LastJobKept == Spec => LastJobStaysWarm
<1>1. ASSUME CacheType, LoopInv, [Next]_vars
      PROVE  [\A s \in Sups : \A k \in Keys :
                Evict(s, k) /\ last[s] # None => k \notin KeysOf(last[s])]_vars
  BY <1>1 DEF LoopInv, Evict, Candidate, Sweeping
<1> QED BY <1>1, LoopKept, PTL DEF Spec, LastJobStaysWarm

----------------------------------------------------------------------------
(* Bundles                                                                 *)

(* Only an extraction that is cut leaves an entry of bundles/ torn.        *)
LEMMA BundleStep ==
    ASSUME CacheType, BundleInv, [Next]_vars
    PROVE  BundleInv'
<1> USE NeededKeys DEF BundleInv, BundleEntriesWhole, Entry, IsTree, Whole, Contents
<1>0. Bundles \subseteq Keys /\ Payloads \cap Bundles = {}
  BY CacheAssumption DEF Keys
<1>1. ASSUME NEW j \in Jobs, EnsureArtifact(j) PROVE BundleInv'
  <2>1. \A b \in Bundles : dir'[b] = dir[b] /\ tree'[b] = tree[b]
    BY <1>0, <1>1, ArtifactTouches
  <2> QED BY <1>1, <2>1, ArtifactTouches DEF Filling
<1>2. ASSUME NEW j \in Jobs, Runner(j) \/ RunnerKilled(j) PROVE BundleInv'
  <2> DEFINE c == BundleOf[j]
  <2>1. \A b \in Bundles \ {c} : dir'[b] = dir[b] /\ tree'[b] = tree[b]
    BY <1>0, <1>2, RunnerTouches
  <2>2. /\ \A o \in Makers : Bad \notin tree'[c][o]
        /\ Entry(c)' => \/ Whole(c)' \/ c \in cut'
                        \/ pc'[j] = "bundleTar"
                        \/ /\ dir'[c] = dir[c] /\ tree'[c] = tree[c]
                           /\ pc[j] # "bundleTar"
    <3> USE <1>2 DEF CacheType, diskVars, Goto, LetsGo, Fails, history, Bad
    <3>1. CASE SpawnRunner(j) BY <3>1 DEF SpawnRunner
    <3>2. CASE BundleHit(j) BY <3>2 DEF BundleHit
    <3>3. CASE BundleMiss(j) BY <3>3 DEF BundleMiss
    <3>4. CASE BundleStart(j) BY <3>4 DEF BundleStart
    <3>5. CASE BundleWrites(j) BY <3>5 DEF BundleWrites, Parts
    <3>6. CASE BundleEnds(j) BY <3>6 DEF BundleEnds
    <3>7. CASE BundleFails(j) BY <3>7 DEF BundleFails, RemoveBundle, Emptied
    <3>8. CASE RunnerEnds(j) BY <3>8 DEF RunnerEnds
    <3>9. CASE RunnerKilled(j) BY <3>9 DEF RunnerKilled
    <3> QED BY <3>1, <3>2, <3>3, <3>4, <3>5, <3>6, <3>7, <3>8, <3>9 DEF Runner
  <2> QED BY <1>2, <2>1, <2>2, RunnerTouches
<1>3. ASSUME NEW s \in Sups,
             Connect(s) \/ Terminal(s) \/ Cancel(s) \/ (\E j \in Jobs : Assign(s, j))
      PROVE  BundleInv'
  <2>1. \A j \in Jobs : pc[j] = "bundleTar" => pc'[j] = "bundleTar"
    BY <1>3, LoopTouches
  <2>2. dir' = dir /\ tree' = tree /\ cut' = cut
    BY <1>3, LoopTouches
  <2> QED BY <2>1, <2>2
<1>4. ASSUME NEW s \in Sups, SweepStep(s) PROVE BundleInv'
  <2>1. pc' = pc /\ cut' = cut
    BY <1>4, SweepTouches DEF history
  <2>2. ASSUME NEW b \in Bundles
        PROVE  /\ dir'[b] = None \/ (dir'[b] = dir[b] /\ tree'[b] = tree[b])
               /\ \A o \in Makers : Bad \notin tree'[b][o]
    <3>1. CASE dir'[b] = dir[b] /\ tree'[b] = tree[b]
      BY <3>1
    <3>2. CASE dir'[b] = None /\ tree'[b] = [tree[b] EXCEPT ![dir[b]] = {}]
      BY <1>0, <3>2 DEF CacheType
    <3> QED BY <1>0, <1>4, <3>1, <3>2, SweepTouches
  <2> QED BY <2>1, <2>2
<1>5. ASSUME NEW s \in Sups, Crash(s) PROVE BundleInv'
  <2>1. /\ dir' = dir /\ tree' = tree /\ cut \subseteq cut'
        /\ \A j \in Jobs : pc[j] = "bundleTar" => pc'[j] = "bundleTar" \/ BundleOf[j] \in cut'
    BY <1>5 DEF Crash, diskVars, Mine
  <2> QED BY <2>1
<1>6. CASE UNCHANGED vars
  BY <1>6 DEF vars, diskVars, history
<1> QED BY <1>1, <1>2, <1>3, <1>4, <1>5, <1>6 DEF Next

(* An entry of bundles/ lacks parts only while a runner extracts it, or after
   a runner was killed doing so.                                           *)
THEOREM BundlesAreWhole == Spec => []BundleEntriesWhole
<1>1. Init => BundleInv
  <2> SUFFICES ASSUME Init PROVE BundleInv
    OBVIOUS
  <2>1. PICK there \in SUBSET Keys : \E whole \in SUBSET there :
          /\ dir = [k \in Keys |-> IF k \in there THEN Old ELSE None]
          /\ tree = [k \in Keys |-> [o \in Makers |->
                       IF o = Old /\ k \in whole THEN Parts
                       ELSE IF o = Old /\ k \in there THEN {"rest"} ELSE {}]]
    BY DEF Init
  <2>2. Bundles \subseteq Keys /\ Old \in Makers /\ None \notin Makers
    BY CacheAssumption DEF Keys, Makers
  <2> QED
    BY <2>1, <2>2 DEF BundleInv, BundleEntriesWhole, Entry, IsTree, Whole, Contents, Parts, Bad
<1>2. BundleInv => BundleEntriesWhole
  BY DEF BundleInv
<1> QED BY <1>1, <1>2, BundleStep, CacheTypes, PTL DEF Spec

----------------------------------------------------------------------------
(* Payloads that are fetched by one job at a time                          *)

\* What a step may do to a job without disturbing the fetch of k.
Apart(j, k) ==
    \/ pc'[j] = pc[j] /\ at'[j] = at[j] /\ src'[j] = src[j]
    \/ pc'[j] = "over"
    \/ /\ ~Filler(j, k) /\ ~Filler(j, k)'
       /\ pc'[j] \in Fresh => pc[j] \in Fresh
       /\ pc[j] \notin Filling \cup Fresh => pc'[j] \notin Filling \cup Fresh
       /\ PayloadOf[j] = k /\ pc'[j] \in Used => pc[j] \in Used \/ Entry(k)'

(* A step that leaves k's directories alone, or evicts the entry, and leaves
   its fetch alone keeps what is known of k.                               *)
LEMMA Undisturbed ==
    ASSUME CacheType, NEW k \in Payloads, Solo(k), tmp'[k] = tmp[k],
           \/ dir'[k] = dir[k] /\ tree'[k] = tree[k]
           \/ dir'[k] = None /\ tree'[k] = [tree[k] EXCEPT ![dir[k]] = {}],
           \A j \in Jobs : Apart(j, k)
    PROVE  Solo(k)'
<1>0. k \in Keys /\ tree[k] \in [Makers -> SUBSET Contained] /\ Jobs \subseteq Makers
  BY DEF CacheType, Keys, Makers
<1>1. OneFiller(k)'
  BY DEF Solo, OneFiller, Apart, Filler, Filling
<1>2. ASSUME NEW j \in Jobs, Filler(j, k)'
      PROVE  /\ pc'[j] = pc[j] /\ at'[j] = at[j] /\ src'[j] = src[j]
             /\ Filler(j, k) /\ Stage(j, k)
  BY <1>2 DEF Solo, Stages, Apart, Filler, Filling
<1>3. Entry(k)' => Entry(k) /\ Contents(k)' = Contents(k)
  BY <1>0 DEF Entry, IsTree, Contents
<1>4. ASSUME NEW j \in Jobs, Filler(j, k)' PROVE Stage(j, k)'
  <2>1. pc[j] \in Keeping => tree'[k][j] = tree[k][j]
    BY <1>0, <1>2, <1>4, NeededKeys DEF Solo, Names, Stage
  <2>2. pc[j] = "rename" => dir'[k] = None
    BY <1>2, <1>4 DEF Stage
  <2> QED BY <1>2, <1>3, <1>4, <2>1, <2>2 DEF Stage, Keeping, Filling
<1>5. Names(k)'
  <2>1. dir'[k] # None => dir'[k] # tmp'[k]
    BY DEF Solo, Names
  <2>2. dir'[k] \in Jobs => pc'[dir'[k]] \notin Filling \cup Fresh
    <3>1. None \notin Jobs
      BY CacheAssumption DEF Makers
    <3>2. "over" \notin Filling \cup Fresh
      BY DEF Filling, Fresh
    <3> QED BY <3>1, <3>2 DEF Solo, Names, Apart
  <2>3. ASSUME NEW j \in Jobs, pc'[j] \in Fresh PROVE tree'[k][j] = {}
    <3>1. pc[j] \in Fresh
      BY <2>3 DEF Apart, Fresh
    <3> QED BY <1>0, <3>1 DEF Solo, Names
  <2> QED BY <2>1, <2>2, <2>3 DEF Names
<1>6. Sound(k)'
  <2>1. Entry(k)' => Whole(k)'
    BY <1>3 DEF Solo, Sound, Whole
  <2>2. ASSUME NEW j \in Jobs, pc'[j] \in Used, PayloadOf[j] = k, IsTree(k)'
        PROVE  Entry(k)'
    <3>1. dir'[k] = dir[k] /\ tree'[k] = tree[k]
      BY <2>2 DEF IsTree
    <3>2. pc[j] \in Used \/ Entry(k)'
      BY <2>2 DEF Apart, Used, RunnerAlive, BundleFilling
    <3> QED BY <2>2, <3>1, <3>2 DEF Solo, Sound, Entry, IsTree
  <2> QED BY <2>1, <2>2 DEF Sound
<1> QED BY <1>1, <1>4, <1>5, <1>6 DEF Solo, Stages

(* Every step that is not one of a fetch of k leaves it alone.             *)
LEMMA SoloElsewhere ==
    ASSUME CacheType, NEW k \in Payloads, Solo(k), [Next]_vars,
           \A j \in Jobs : PayloadOf[j] = k => ~EnsureArtifact(j)
    PROVE  Solo(k)'
<1>0. k \in Keys /\ k \notin Bundles
  BY CacheAssumption DEF Keys
<1> USE <1>0, NeededKeys
<1>1. ASSUME NEW j \in Jobs, EnsureArtifact(j) PROVE Solo(k)'
  <2>1. PayloadOf[j] # k
    BY <1>1
  <2>2. \A i \in Jobs : Apart(i, k)
    BY <1>1, <2>1, ArtifactTouches DEF Apart, Filler, Filling, Fresh
  <2> QED BY <1>1, <2>1, <2>2, ArtifactTouches, Undisturbed
<1>2. ASSUME NEW j \in Jobs, Runner(j) \/ RunnerKilled(j) PROVE Solo(k)'
  <2>1. \A i \in Jobs : Apart(i, k)
    BY <1>2, RunnerTouches DEF Apart, Filler, Filling, Fresh, Used, RunnerAlive, BundleFilling
  <2> QED BY <1>2, <2>1, RunnerTouches, Undisturbed
<1>3. ASSUME NEW s \in Sups,
             Connect(s) \/ Terminal(s) \/ Cancel(s) \/ (\E j \in Jobs : Assign(s, j))
      PROVE  Solo(k)'
  <2>1. \A i \in Jobs : Apart(i, k)
    BY <1>3, LoopTouches DEF Apart, Filler, Filling, Fresh, Used, RunnerAlive, BundleFilling
  <2> QED BY <1>3, <2>1, LoopTouches, Undisturbed
<1>4. ASSUME NEW s \in Sups, SweepStep(s) PROVE Solo(k)'
  <2>1. \A i \in Jobs : Apart(i, k)
    BY <1>4, SweepTouches DEF Apart
  <2> QED BY <1>4, <2>1, SweepTouches, Undisturbed
<1>5. ASSUME NEW s \in Sups, Crash(s) PROVE Solo(k)'
  <2>1. \A i \in Jobs : Apart(i, k)
    BY <1>5 DEF Crash, Apart, Mine, Live, Filler, Filling, Fresh, Used, RunnerAlive, BundleFilling
  <2> QED BY <1>5, <2>1, Undisturbed DEF Crash, diskVars
<1>6. CASE UNCHANGED vars
  <2>1. \A i \in Jobs : Apart(i, k)
    BY <1>6 DEF vars, Apart
  <2> QED BY <1>6, <2>1, Undisturbed DEF vars, diskVars
<1> QED BY <1>1, <1>2, <1>3, <1>4, <1>5, <1>6 DEF Next

(* Every step of the one fetch of k takes it on, and the last one publishes a
   whole entry.                                                            *)
LEMMA SoloFetch ==
    ASSUME CacheType, NEW j \in Jobs, Solo(PayloadOf[j]), EnsureArtifact(j),
           PayloadOf[j] \notin raced'
    PROVE  Solo(PayloadOf[j])'
<1> DEFINE k == PayloadOf[j]
<1>0. /\ k \in Keys /\ k \in Payloads /\ j \in Makers /\ None \notin Makers
      /\ tree[k] \in [Makers -> SUBSET Contained]
  BY NeededKeys DEF CacheType
<1>1. CASE ~Filler(j, k) /\ ~Filler(j, k)'
  <2>1. ArtifactHit(j)
    BY <1>1 DEF EnsureArtifact, Filler, Filling, CacheType, Goto, Fails,
         ArtifactMiss, WipeSibling, MakeSibling, RequestFails, CreateFile, BodyFails,
         BodyVerified, BodyRefused, StartTar, TarWrites, TarFails, TarEnds, Seal,
         ClearEntry, Publish
  <2>2. \A i \in Jobs : Apart(i, k)
    BY <2>1 DEF ArtifactHit, Goto, CacheType, Apart, Filler, Filling, Fresh, Used, Entry, IsTree
  <2> QED BY <1>0, <2>1, <2>2, Undisturbed DEF ArtifactHit
<1>2. CASE Filler(j, k) \/ Filler(j, k)'
  <2>1. \A i \in Jobs \ {j} : pc'[i] = pc[i]
    BY <1>0, ArtifactTouches
  <2>2. \A i \in Jobs \ {j} : ~Filler(i, k) /\ ~Filler(i, k)'
    <3>1. CASE Filler(j, k)
      BY <2>1, <3>1 DEF Solo, OneFiller, Filler
    <3>2. CASE ~Filler(j, k)
      <4>1. ArtifactMiss(j)
        BY <1>2, <3>2 DEF EnsureArtifact, Filler, Filling, CacheType, Goto, Fails,
             ArtifactHit, WipeSibling, MakeSibling, RequestFails, CreateFile, BodyFails,
             BodyVerified, BodyRefused, StartTar, TarWrites, TarFails, TarEnds, Seal,
             ClearEntry, Publish
      <4> QED BY <1>0, <2>1, <4>1 DEF ArtifactMiss, Racing, Filler, CacheType
    <3> QED BY <3>1, <3>2
  <2>3. ~Entry(k) /\ pc[j] \in {"ensure"} \cup Filling
        /\ (pc[j] \in Filling => Filler(j, k) /\ Stage(j, k))
    <3>1. pc[j] \in {"ensure"} \cup Filling
      BY ArtifactTouches
    <3>2. pc[j] = "ensure" => ~Entry(k)
      BY <1>2 DEF EnsureArtifact, Filler, Filling, CacheType, Goto, Fails,
           ArtifactHit, ArtifactMiss, WipeSibling, MakeSibling, RequestFails, CreateFile,
           BodyFails, BodyVerified, BodyRefused, StartTar, TarWrites, TarFails, TarEnds, Seal,
           ClearEntry, Publish
    <3> QED BY <3>1, <3>2 DEF Solo, Stages, Stage, Filler
  <2>4. dir[k] # j /\ (dir[k] # None => dir[k] # tmp[k])
        /\ (pc[j] \in Keeping => tmp[k] = j)
    BY <2>3 DEF Solo, Names, Stage, Fresh, Keeping
  <2>5. SUFFICES /\ pc'[j] \in Filling => Stage(j, k)'
                 /\ Names(k)' /\ Sound(k)'
    BY <2>2 DEF Solo, OneFiller, Stages, Filler
  <2>6. ASSUME dir'[k] = dir[k], tmp'[k] \in {tmp[k], None, j}, pc'[j] \notin Used,
               \A o \in Makers : tree'[k][o] # tree[k][o] =>
                  o # dir[k] /\ (tree'[k][o] = {} \/ (o = j /\ pc'[j] \notin Fresh))
        PROVE  ~Entry(k)' /\ Names(k)' /\ Sound(k)'
    <3>1. ~Entry(k)'
      <4>1. dir[k] \in Makers \cup {None}
        BY <1>0 DEF CacheType
      <4> QED BY <2>3, <2>6, <4>1 DEF Entry, IsTree
    <3>2. Sound(k)'
      BY <2>1, <2>3, <2>6, <3>1 DEF Solo, Sound, IsTree
    <3>3. \A i \in Jobs : pc'[i] \in Fresh => pc[i] \in Fresh
      BY <2>1, ArtifactTouches
    <3>4. Names(k)'
      BY <2>1, <2>4, <2>6, <3>3 DEF Solo, Names, Makers
    <3> QED BY <3>1, <3>2, <3>4
  <2> USE <1>0 DEF Goto, LetsGo, Fails, CacheType, Filling, Keeping, Used, RunnerAlive, BundleFilling, diskVars
  <2>7. CASE ArtifactMiss(j)
    BY <2>3, <2>6, <2>7 DEF ArtifactMiss, Stage
  <2>8. CASE WipeSibling(j)
    <3>1. \A o \in Makers : tree'[k][o] # tree[k][o] => o = tmp[k] /\ tree'[k][o] = {}
      BY <2>8 DEF WipeSibling, Emptied
    <3> QED BY <2>4, <2>6, <2>8, <3>1 DEF WipeSibling, Stage
  <2>9. CASE MakeSibling(j)
    BY <2>3, <2>6, <2>9 DEF MakeSibling, Stage
  <2>10. CASE CreateFile(j)
    <3>1. tmp[k] = j /\ tree[k][j] = {}
      BY <2>4, <2>10 DEF CreateFile, Solo, Names, Fresh
    <3>2. /\ tree' = [tree EXCEPT ![k][j] = {"partTar"}]
          /\ pc'[j] = "body" /\ at'[j] = j /\ dir' = dir /\ tmp' = tmp
      BY <2>10, <3>1 DEF CreateFile, WithTar
    <3>3. tree'[k][j] = {"partTar"} /\ \A o \in Makers \ {j} : tree'[k][o] = tree[k][o]
      BY <3>2
    <3> QED BY <2>4, <2>6, <3>1, <3>2, <3>3 DEF Stage, Fresh
  <2>11. CASE pc'[j] = "over"
    <3>1. /\ dir' = dir /\ tmp'[k] \in {tmp[k], None}
          /\ \A o \in Makers : tree'[k][o] # tree[k][o] => o = j
      <4>1. CASE RequestFails(j) BY <4>1 DEF RequestFails
      <4>2. CASE BodyFails(j)
        <5>1. tmp[k] = j
          BY <2>4, <4>2 DEF BodyFails
        <5> QED BY <4>2, <5>1 DEF BodyFails
      <4>3. CASE BodyRefused(j)
        <5>1. PICK t \in AfterBody(j, k, "badTar") :
                tree' = IF tmp[k] = None THEN t ELSE [t EXCEPT ![k][tmp[k]] = {}]
          BY <4>3 DEF BodyRefused
        <5>2. pc[j] = "body" /\ tmp[k] = j /\ at[j] = j /\ "badTar" \in Tars
          BY <2>3, <2>4, <4>3 DEF BodyRefused, Stage, Tars
        <5>3. t \in [Keys -> [Makers -> SUBSET Contained]]
          BY <5>2, AfterBodyEffect
        <5>4. \A o \in Makers : t[k][o] # tree[k][o] => o = j
          BY <5>2, AfterBodyEffect
        <5>5. \A o \in Makers : tree'[k][o] # tree[k][o] => o = j
          BY <5>1, <5>2, <5>3, <5>4
        <5> QED BY <4>3, <5>5 DEF BodyRefused
      <4>4. CASE StartTar(j) BY <4>4 DEF StartTar
      <4>5. CASE TarFails(j) BY <4>5 DEF TarFails
      <4>6. CASE Seal(j)
        <5>1. tmp[k] = j /\ Parts \subseteq tree[k][j]
          BY <2>3, <2>4, <4>6 DEF Seal, Stage
        <5> QED BY <2>11, <4>6, <5>1 DEF Seal, Parts
      <4>7. CASE Publish(j)
        <5>1. tmp[k] = j /\ dir[k] = None
          BY <2>3, <2>4, <4>7 DEF Publish, Stage
        <5> QED BY <2>11, <4>7, <5>1 DEF Publish, IsTree
      <4> QED
        BY <2>11, <4>1, <4>2, <4>3, <4>4, <4>5, <4>6, <4>7 DEF EnsureArtifact, ArtifactHit,
           ArtifactMiss, WipeSibling, MakeSibling, CreateFile, BodyVerified, TarWrites,
           TarEnds, ClearEntry
    <3> QED BY <2>4, <2>6, <2>11, <3>1 DEF Fresh
  <2>12. CASE BodyVerified(j)
    <3>1. /\ at[j] = j /\ tree[k][j] = {"partTar"} /\ tmp[k] = j /\ pc[j] = "body"
          /\ ~AlsoWriting(j, k)
      BY <2>2, <2>3, <2>4, <2>12 DEF BodyVerified, Stage, AlsoWriting, Filler
    <3>2. Named(k, at[j]) /\ HasTar(k, at[j])
      BY <3>1 DEF Named, HasTar, Tars
    <3>3. tree' \in AfterBody(j, k, "goodTar") /\ "goodTar" \in Tars
      BY <2>12 DEF BodyVerified, Tars
    <3>4. \A o \in Makers : tree'[k][o] # tree[k][o] => o = j
      BY <3>1, <3>3, AfterBodyEffect
    <3>5. tree'[k][j] = (tree[k][j] \ Tars) \cup {"goodTar"}
      <4>1. PICK x \in {"goodTar", "partTar"} :
              /\ tree'[k][at[j]] = (tree[k][at[j]] \ Tars) \cup {x}
              /\ x = "goodTar" \/ AlsoWriting(j, k)
        <5> HIDE DEF CacheType
        <5> QED BY <1>0, <3>1, <3>2, <3>3, AfterBodyEffect
      <4> QED BY <3>1, <4>1
    <3>6. tree'[k][j] = {"goodTar"}
      BY <3>1, <3>5 DEF Tars
    <3> QED BY <2>4, <2>6, <2>12, <3>1, <3>4, <3>6 DEF BodyVerified, Stage, Fresh
  <2>13. CASE StartTar(j)
    <3>1. tree[k][j] = {"goodTar"} /\ tmp[k] = j
      BY <2>3, <2>4, <2>13 DEF StartTar, Stage
    <3>2. /\ pc'[j] = "tar" /\ at'[j] = j /\ src'[j] = "goodTar"
          /\ UNCHANGED <<dir, tmp, tree>>
      BY <2>13, <3>1 DEF StartTar, HasTar, Tars
    <3> QED BY <2>6, <3>1, <3>2 DEF Stage, Bad
  <2>14. CASE TarWrites(j)
    <3>1. /\ at[j] = j /\ src[j] = "goodTar" /\ Bad \notin tree[k][j] /\ tmp[k] = j
          /\ pc[j] = "tar"
      BY <2>3, <2>4, <2>14 DEF TarWrites, Stage
    <3>2. PICK p \in Parts : tree' = [tree EXCEPT ![k][at[j]] = @ \cup {p} \cup Taint(j)]
      BY <2>14 DEF TarWrites
    <3>3. Taint(j) = {}
      BY <3>1 DEF Taint
    <3>4. /\ tree'[k][j] = tree[k][j] \cup {p}
          /\ \A o \in Makers : tree'[k][o] # tree[k][o] => o = j
      BY <3>1, <3>2, <3>3
    <3> QED BY <2>4, <2>6, <2>14, <3>1, <3>4 DEF TarWrites, Stage, Bad, Parts, Fresh
  <2>15. CASE TarEnds(j)
    <3>1. /\ at[j] = j /\ src[j] = "goodTar" /\ Bad \notin tree[k][j] /\ tmp[k] = j
          /\ pc[j] = "tar"
      BY <2>3, <2>4, <2>15 DEF TarEnds, Stage
    <3>2. tree'[k] = tree[k] /\ Parts \subseteq tree[k][j]
      BY <2>15, <3>1 DEF TarEnds, Taint
    <3> QED BY <2>6, <2>15, <3>1, <3>2 DEF TarEnds, Stage
  <2>16. CASE Seal(j)
    <3>1. tmp[k] = j /\ Parts \subseteq tree[k][j] /\ Bad \notin tree[k][j]
      BY <2>3, <2>4, <2>16 DEF Seal, Stage
    <3>2. /\ tree' = [tree EXCEPT ![k][j] = @ \ Tars] /\ pc'[j] = "clear"
          /\ dir' = dir /\ tmp' = tmp
      BY <2>16, <3>1 DEF Seal, Parts
    <3>3. /\ tree'[k][j] = tree[k][j] \ Tars
          /\ \A o \in Makers : tree'[k][o] # tree[k][o] => o = j
      BY <3>2
    <3>4. tree'[k][j] \cap (Parts \cup {Bad}) = Parts
      BY <3>1, <3>3 DEF Parts, Tars, Bad
    <3> QED BY <2>4, <2>6, <3>1, <3>2, <3>3, <3>4 DEF Stage, Fresh
  <2>17. CASE ClearEntry(j)
    <3>1. /\ dir'[k] = None /\ tmp' = tmp /\ pc'[j] = "rename" /\ pc[j] = "clear"
          /\ tmp[k] = j
      BY <2>4, <2>17 DEF ClearEntry
    <3>2. \A o \in Makers : tree'[k][o] = IF o = dir[k] THEN {} ELSE tree[k][o]
      BY <2>17 DEF ClearEntry, Emptied, IsTree
    <3>3. Stage(j, k)'
      BY <2>3, <2>4, <3>1, <3>2 DEF Stage, Entry, IsTree
    <3>4. Names(k)'
      BY <2>1, <3>1, <3>2 DEF Solo, Names, Fresh, Makers
    <3>5. Sound(k)'
      BY <3>1 DEF Sound, Entry, IsTree
    <3> QED BY <3>3, <3>4, <3>5
  <2>18. CASE Publish(j)
    <3>1. /\ dir[k] = None /\ tmp[k] = j /\ pc[j] = "rename"
          /\ tree[k][j] \cap (Parts \cup {Bad}) = Parts
      BY <2>3, <2>4, <2>18 DEF Publish, Stage
    <3>2. /\ dir'[k] = j /\ tmp'[k] = None /\ tree' = tree /\ pc'[j] = "spawn"
      BY <2>18, <3>1 DEF Publish, IsTree
    <3>3. Entry(k)' /\ Whole(k)'
      BY <3>1, <3>2 DEF Entry, IsTree, Whole, Contents, Parts
    <3>4. Names(k)'
      BY <2>1, <3>2 DEF Solo, Names, Fresh
    <3> QED BY <3>2, <3>3, <3>4 DEF Sound
  <2>19. ~ArtifactHit(j)
    BY <1>2 DEF ArtifactHit, Filler
  <2>20. RequestFails(j) \/ BodyFails(j) \/ BodyRefused(j) \/ TarFails(j) => pc'[j] = "over"
    BY DEF RequestFails, BodyFails, BodyRefused, TarFails
  <2> QED
    BY <2>7, <2>8, <2>9, <2>10, <2>11, <2>12, <2>13, <2>14, <2>15, <2>16, <2>17, <2>18,
       <2>19, <2>20 DEF EnsureArtifact
<1> QED BY <1>1, <1>2

(* Whoever takes the step, what is known of a payload that was never fetched
   by two at once stays true.                                              *)
LEMMA SoloStep ==
    ASSUME CacheType, SoloInv, [Next]_vars
    PROVE  SoloInv'
<1> SUFFICES ASSUME NEW k \in Payloads, k \notin raced' PROVE Solo(k)'
  BY DEF SoloInv
<1>1. raced \subseteq raced'
  BY ArtifactTouches, RunnerTouches, LoopTouches, SweepTouches DEF Next, vars, history, Crash
<1>2. Solo(k)
  BY <1>1 DEF SoloInv
<1>3. CASE \E j \in Jobs : PayloadOf[j] = k /\ EnsureArtifact(j)
  BY <1>2, <1>3, SoloFetch
<1>4. CASE ~\E j \in Jobs : PayloadOf[j] = k /\ EnsureArtifact(j)
  BY <1>2, <1>4, SoloElsewhere
<1> QED BY <1>3, <1>4

(* The types and the course of every fetch that has its sha to itself, an
   invariant.                                                              *)
LEMMA SoloKept == Spec => [](CacheType /\ SoloInv)
<1>1. Init => SoloInv
  <2> SUFFICES ASSUME Init, NEW k \in Payloads PROVE Solo(k)
    BY DEF SoloInv
  <2>1. PICK there \in SUBSET Keys : \E whole \in SUBSET there :
          /\ dir = [x \in Keys |-> IF x \in there THEN Old ELSE None]
          /\ tree = [x \in Keys |-> [o \in Makers |->
                       IF o = Old /\ x \in whole THEN Parts
                       ELSE IF o = Old /\ x \in there THEN {"rest"} ELSE {}]]
    BY DEF Init
  <2>2. k \in Keys /\ Old \in Makers /\ None \notin Makers /\ Old \notin Jobs
        /\ Jobs \subseteq Makers
    BY CacheAssumption DEF Keys, Makers
  <2>3. (\A j \in Jobs : pc[j] = "idle") /\ tmp[k] = None
    BY <2>2 DEF Init
  <2>4. OneFiller(k) /\ Stages(k)
    BY <2>3 DEF OneFiller, Stages, Filler, Filling
  <2>5. dir[k] \in {Old, None} /\ \A j \in Jobs : tree[k][j] = {}
    BY <2>1, <2>2
  <2>6. Names(k)
    BY <2>2, <2>3, <2>5 DEF Names
  <2>7. Sound(k)
    <3>1. Entry(k) => Whole(k)
      BY <2>1, <2>2 DEF Entry, IsTree, Whole, Contents, Parts, Bad
    <3> QED BY <2>3, <3>1 DEF Sound, Used, RunnerAlive, BundleFilling
  <2> QED BY <2>4, <2>6, <2>7 DEF Solo
<1> QED BY <1>1, SoloStep, CacheTypes, PTL DEF Spec

(* An entry of payloads/ is complete and verified whenever its marker is there:
   only two fetches of one sha at a time can break that.                   *)
THEOREM PayloadsAreWhole == Spec => []PayloadEntriesWhole
<1>1. SoloInv => PayloadEntriesWhole
  BY DEF SoloInv, Solo, Sound, PayloadEntriesWhole
<1> QED BY <1>1, SoloKept, PTL

(* A fetch whose bytes verified and whose tar succeeded is published: only a
   second fetch of the sha, or the end of the supervisor, can undo it.     *)
THEOREM SoloFetchEnds == Spec => SoloFetchPublishes
<1>1. ASSUME CacheType, SoloInv, Next,
             NEW j \in Jobs, pc[j] \in {"extract", "seal", "clear", "rename"}, pc'[j] = "over",
             PayloadOf[j] \notin raced
      PROVE  Crash(Host[j])
  <2> DEFINE k == PayloadOf[j]
  <2>1. /\ k \in Payloads /\ Filler(j, k) /\ pc[j] \in Keeping
    BY <1>1, NeededKeys DEF Filler, Filling, Keeping
  <2>2. Stage(j, k) /\ tmp[k] = j /\ tmp[k] # None
    BY <1>1, <2>1, NeededKeys DEF SoloInv, Solo, Stages, Stage
  <2>3. ~EnsureArtifact(j)
    <3> USE <1>1, <2>2, NeededKeys DEF CacheType, Goto, Stage
    <3>1. ~StartTar(j) BY DEF StartTar, HasTar, Tars
    <3>2. ~Seal(j) BY DEF Seal, Parts
    <3>3. ~ClearEntry(j) BY DEF ClearEntry
    <3>4. ~Publish(j) BY DEF Publish, IsTree
    <3> QED
      BY <3>1, <3>2, <3>3, <3>4 DEF EnsureArtifact, ArtifactHit, ArtifactMiss, WipeSibling,
         MakeSibling, RequestFails, CreateFile, BodyFails, BodyVerified, BodyRefused,
         TarWrites, TarFails, TarEnds
  <2>4. \A i \in Jobs : ~EnsureArtifact(i)
    BY <1>1, <2>3, ArtifactTouches
  <2>5. \A i \in Jobs : ~Runner(i) /\ ~RunnerKilled(i)
    BY <1>1, RunnerTouches DEF Used, RunnerAlive, BundleFilling
  <2>6. ASSUME NEW s \in Sups
        PROVE  /\ ~Connect(s) /\ ~Terminal(s) /\ ~Cancel(s) /\ ~SweepStep(s)
               /\ ~\E i \in Jobs : Assign(s, i)
    BY <1>1, LoopTouches, SweepTouches
  <2>7. PICK s \in Sups : Crash(s)
    BY <1>1, <2>4, <2>5, <2>6 DEF Next
  <2>8. Host[j] = s
    BY <1>1, <2>7 DEF Crash, Mine, CacheType
  <2> QED BY <2>7, <2>8
<1>2. ASSUME CacheType, SoloInv, [Next]_vars
      PROVE  [\A j \in Jobs :
                pc[j] \in {"extract", "seal", "clear", "rename"} /\ pc'[j] = "over" =>
                  PayloadOf[j] \in raced \/ Crash(Host[j])]_vars
  BY <1>1, <1>2
<1> QED BY <1>2, SoloKept, PTL DEF Spec, SoloFetchPublishes

(* What the job in flight uses stays where it is: only another supervisor's
   sweep, a fetch of the same payload or a failing extraction of the same
   bundle takes it away.                                                   *)
THEOREM UsedEntriesKept == Spec => UsedEntriesStay
<1>1. ASSUME CacheType, SoloInv, LoopInv, Next,
             NEW j \in Jobs \ canceled, NEW k \in Uses(j), IsTree(k), dir'[k] # dir[k]
      PROVE  \/ k \in raced
             \/ \E i \in Jobs \ {j} : pc[i] = "bundleTar" /\ BundleOf[i] = k
             \/ \E s \in Sups \ {Host[j]} : Evict(s, k)
  <2>1. /\ pc[j] \in Used /\ k \in Keys
        /\ k \in Payloads => k = PayloadOf[j]
        /\ k \in Bundles => pc[j] = "render"
    BY <1>1, NeededKeys, CacheAssumption DEF Uses, Used, RunnerAlive
  <2>2. ASSUME NEW i \in Jobs, EnsureArtifact(i), k \notin raced PROVE FALSE
    <3>1. k = PayloadOf[i] /\ k \in Payloads
      BY <1>1, <2>1, <2>2, NeededKeys, ArtifactTouches
    <3>2. Solo(k) /\ Entry(k)
      BY <1>1, <2>1, <2>2, <3>1 DEF SoloInv, Solo, Sound
    <3>3. ~Filler(i, k)
      BY <3>2 DEF Solo, Stages, Stage
    <3>4. pc[i] = "ensure"
      BY <1>1, <2>2, <3>1, <3>3, ArtifactTouches DEF Filler
    <3>5. ArtifactHit(i) \/ ArtifactMiss(i)
      BY <2>2, <3>4 DEF EnsureArtifact, WipeSibling,
         MakeSibling, RequestFails, CreateFile, BodyFails, BodyVerified, BodyRefused,
         StartTar, TarWrites, TarFails, TarEnds, Seal, ClearEntry, Publish
    <3>6. dir' = dir
      BY <3>5 DEF ArtifactHit, ArtifactMiss, diskVars
    <3> QED BY <1>1, <3>6
  <2>3. ASSUME NEW i \in Jobs, Runner(i) \/ RunnerKilled(i)
        PROVE  i # j /\ pc[i] = "bundleTar" /\ BundleOf[i] = k
    <3>1. k = BundleOf[i]
      BY <1>1, <2>1, <2>3, RunnerTouches
    <3>2. ~BundleStart(i)
      BY <1>1, <2>1, <3>1 DEF BundleStart, CacheType, IsTree
    <3>3. BundleFails(i)
      BY <1>1, <2>3, <3>2 DEF Runner, SpawnRunner, BundleHit, BundleMiss, BundleWrites,
         BundleEnds, RunnerEnds, RunnerKilled, diskVars
    <3> QED BY <2>1, <3>1, <3>3, NeededKeys DEF BundleFails
  <2>4. ASSUME NEW s \in Sups, SweepStep(s) PROVE Evict(s, k) /\ s # Host[j]
    <3>1. Evict(s, k) /\ sweep[s] # None
      BY <1>1, <2>1, <2>4, SweepTouches
    <3>2. inFlight[Host[j]] = j /\ j # None
      BY <1>1, <2>1, NeededKeys DEF LoopInv, Live, Used, RunnerAlive, BundleFilling
    <3> QED BY <1>1, <3>1, <3>2 DEF LoopInv
  <2>5. ASSUME NEW s \in Sups
        PROVE  /\ ~Connect(s) /\ ~Terminal(s) /\ ~Cancel(s) /\ ~Crash(s)
               /\ ~\E i \in Jobs : Assign(s, i)
    <3>1. ~Crash(s)
      BY <1>1 DEF Crash, diskVars
    <3> QED BY <1>1, <3>1, LoopTouches
  <2> QED BY <1>1, <2>2, <2>3, <2>4, <2>5 DEF Next
<1>2. ASSUME CacheType, SoloInv, LoopInv, [Next]_vars
      PROVE  [\A j \in Jobs \ canceled : \A k \in Uses(j) :
                IsTree(k) /\ dir'[k] # dir[k] =>
                  \/ k \in raced
                  \/ \E i \in Jobs \ {j} : pc[i] = "bundleTar" /\ BundleOf[i] = k
                  \/ \E s \in Sups \ {Host[j]} : Evict(s, k)]_vars
  BY <1>1, <1>2
<1> QED BY <1>2, SoloKept, LoopKept, PTL DEF Spec, UsedEntriesStay

----------------------------------------------------------------------------
(* A sweep that has the disk to itself                                     *)

\* Nothing runs beside it, so what it knows is what is so: the total it counts
\* down is the number of entries, what it has still to look at is there, and it
\* left behind it only what is protected or could not be removed.
QuietInv ==
    \A s \in Sups : sweep[s] # None /\ sweep[s].quiet =>
      /\ Sups = {s} /\ \A j \in Jobs : ~Live(j)
      /\ sweep[s].order = used
      /\ sweep[s].running = Cardinality(EntriesOnDisk)
      /\ sweep[s].left \subseteq EntriesOnDisk
      /\ EntriesOnDisk \ sweep[s].left \subseteq sweep[s].keep \cup sweep[s].stuck

(* The entries of a finite cache are finite in number.                     *)
LEMMA EntriesFinite == IsFiniteSet(EntriesOnDisk) /\ Cardinality(EntriesOnDisk) \in Nat
<1>1. EntriesOnDisk \subseteq Keys
  BY DEF EntriesOnDisk
<1> QED BY <1>1, CacheAssumption, FS_Subset, FS_CardinalityType

(* No job and no arm of the loop moves while a quiet sweep is under way.   *)
LEMMA QuietAlone ==
    ASSUME CacheType, QuietInv, Next, NEW s \in Sups, sweep[s] # None, sweep[s].quiet
    PROVE  SweepStep(s)
<1>1. Sups = {s} /\ \A j \in Jobs : pc[j] \in {"idle", "over"}
  BY DEF QuietInv, Live
<1>2. ASSUME NEW j \in Jobs PROVE ~EnsureArtifact(j) /\ ~Runner(j) /\ ~RunnerKilled(j)
  BY <1>1, <1>2, ArtifactTouches, RunnerTouches DEF Filling, Used, RunnerAlive, BundleFilling
<1>3. ~Connect(s) /\ ~Terminal(s) /\ ~Cancel(s) /\ ~\E j \in Jobs : Assign(s, j)
  BY DEF Connect, Terminal, Cancel, Assign, LoopFree
<1>4. ~Crash(s)
  BY <1>1 DEF Crash, Mine, Live
<1> QED BY <1>1, <1>2, <1>3, <1>4 DEF Next

(* An eviction takes one entry off the disk and off the count.             *)
LEMMA EvictCounts ==
    ASSUME CacheType, NEW s \in Sups, NEW k \in Keys, Evict(s, k), Entry(k)
    PROVE  /\ EntriesOnDisk' = EntriesOnDisk \ {k}
           /\ Cardinality(EntriesOnDisk') = Cardinality(EntriesOnDisk) - 1
<1>1. dir' = [dir EXCEPT ![k] = None] /\ tree' = [tree EXCEPT ![k][dir[k]] = {}]
  BY DEF Evict, Emptied
<1>2. dir'[k] = None /\ \A x \in Keys \ {k} : dir'[x] = dir[x] /\ tree'[x] = tree[x]
  BY <1>1 DEF CacheType
<1>3. EntriesOnDisk' = EntriesOnDisk \ {k}
  BY <1>2 DEF EntriesOnDisk, Entry, IsTree
<1>4. k \in EntriesOnDisk
  BY DEF EntriesOnDisk
<1> QED BY <1>3, <1>4, EntriesFinite, FS_RemoveElement

(* Every step keeps what a quiet sweep knows.                              *)
LEMMA QuietStep ==
    ASSUME CacheType, LoopInv, QuietInv, [Next]_vars
    PROVE  QuietInv'
<1> SUFFICES ASSUME NEW s \in Sups, sweep'[s] # None, sweep'[s].quiet
             PROVE  /\ Sups = {s} /\ \A j \in Jobs : ~Live(j)'
                    /\ sweep'[s].order = used'
                    /\ sweep'[s].running = Cardinality(EntriesOnDisk')
                    /\ sweep'[s].left \subseteq EntriesOnDisk'
                    /\ EntriesOnDisk' \ sweep'[s].left \subseteq sweep'[s].keep \cup sweep'[s].stuck
  BY DEF QuietInv
<1>1. CASE UNCHANGED vars
  BY <1>1 DEF vars, diskVars, loopVars, QuietInv, EntriesOnDisk, Entry, IsTree, Live
<1>2. CASE Next /\ sweep[s] # None /\ sweep[s].quiet
  <2>1. SweepStep(s)
    BY <1>2, QuietAlone
  <2>2. /\ Sups = {s} /\ \A j \in Jobs : ~Live(j)
        /\ sweep[s].order = used
        /\ sweep[s].running = Cardinality(EntriesOnDisk)
        /\ sweep[s].left \subseteq EntriesOnDisk
        /\ EntriesOnDisk \ sweep[s].left \subseteq sweep[s].keep \cup sweep[s].stuck
    BY <1>2 DEF QuietInv
  <2> USE DEF CacheType, diskVars, Candidate, Sweeping
  <2>3. ASSUME NEW k \in Keys, SkipProtected(s, k)
        PROVE  /\ dir' = dir /\ tree' = tree /\ used' = used /\ pc' = pc
               /\ sweep'[s] = [sweep[s] EXCEPT !.left = @ \ {k}] /\ k \in sweep[s].keep
    BY <2>3 DEF SkipProtected
  <2>4. ASSUME NEW k \in Keys, EvictFails(s, k)
        PROVE  /\ dir' = dir /\ tree' = tree /\ used' = used /\ pc' = pc
               /\ sweep'[s] = [sweep[s] EXCEPT !.left = @ \ {k}, !.stuck = @ \cup {k}]
    BY <2>4 DEF EvictFails
  <2>5. ASSUME NEW k \in Keys, Evict(s, k)
        PROVE  /\ used' = used /\ pc' = pc
               /\ sweep'[s] = [sweep[s] EXCEPT !.left = @ \ {k}, !.running = @ - 1]
               /\ EntriesOnDisk' = EntriesOnDisk \ {k}
               /\ Cardinality(EntriesOnDisk') = Cardinality(EntriesOnDisk) - 1
    <3>1. Entry(k)
      BY <2>2, <2>5 DEF Evict, EntriesOnDisk
    <3> QED BY <2>5, <3>1, EvictCounts DEF Evict
  <2>6. ~SweepEnds(s)
    BY DEF SweepEnds
  <2>7. UNCHANGED <<dir, tree>> => EntriesOnDisk' = EntriesOnDisk
    BY DEF EntriesOnDisk, Entry, IsTree
  <2>8. PICK k \in Keys : SkipProtected(s, k) \/ Evict(s, k) \/ EvictFails(s, k)
    BY <2>1, <2>6 DEF SweepStep
  <2>9. pc' = pc
    BY <2>3, <2>4, <2>5, <2>8
  <2>10. \A j \in Jobs : ~Live(j)'
    BY <2>2, <2>9 DEF Live
  <2>11. DOMAIN sweep[s] = {"order", "left", "running", "keep", "stuck", "quiet"}
    BY <1>2
  <2> HIDE DEF CacheType, Candidate, Sweeping
  <2>12. CASE SkipProtected(s, k)
    BY <2>2, <2>3, <2>7, <2>10, <2>11, <2>12
  <2>13. CASE EvictFails(s, k)
    BY <2>2, <2>4, <2>7, <2>10, <2>11, <2>13
  <2>14. CASE Evict(s, k)
    <3>1. /\ sweep'[s].order = sweep[s].order /\ sweep'[s].keep = sweep[s].keep
          /\ sweep'[s].stuck = sweep[s].stuck /\ sweep'[s].left = sweep[s].left \ {k}
          /\ sweep'[s].running = sweep[s].running - 1
      BY <2>5, <2>11, <2>14
    <3> QED BY <2>2, <2>5, <2>10, <2>14, <3>1
  <2> QED BY <2>8, <2>12, <2>13, <2>14
<1>3. CASE Next /\ ~(sweep[s] # None /\ sweep[s].quiet)
  <2>1. PICK t \in Sups : Connect(t) \/ Terminal(t) \/ Cancel(t)
    <3>1. \A j \in Jobs : ~EnsureArtifact(j) /\ ~Runner(j) /\ ~RunnerKilled(j)
      BY <1>3, ArtifactTouches, RunnerTouches DEF loopVars
    <3>2. \A t \in Sups : ~Crash(t) /\ ~\E j \in Jobs : Assign(t, j)
      BY <1>3 DEF Crash, Assign, CacheType
    <3>3. \A t \in Sups : ~SweepStep(t)
      <4> SUFFICES ASSUME NEW t \in Sups, SweepStep(t) PROVE FALSE
        OBVIOUS
      <4>1. CASE SweepEnds(t)
        BY <1>3, <4>1 DEF SweepEnds, CacheType
      <4>2. ASSUME NEW k \in Keys, SkipProtected(t, k) \/ Evict(t, k) \/ EvictFails(t, k)
            PROVE  FALSE
        <5>1. t = s => sweep[t] # None /\ ~sweep[t].quiet
          BY <1>3, <4>2 DEF SkipProtected, Evict, EvictFails, Candidate, Sweeping
        <5>2. sweep[t] # None /\ sweep'[t].quiet = sweep[t].quiet
              /\ \A x \in Sups \ {t} : sweep'[x] = sweep[x]
          <6>1. CASE SkipProtected(t, k)
            BY <6>1 DEF SkipProtected, CacheType, Candidate, Sweeping
          <6>2. CASE Evict(t, k)
            BY <6>2 DEF Evict, CacheType, Candidate, Sweeping
          <6>3. CASE EvictFails(t, k)
            BY <6>3 DEF EvictFails, CacheType, Candidate, Sweeping
          <6> QED BY <4>2, <6>1, <6>2, <6>3
        <5> QED BY <1>3, <5>1, <5>2 DEF CacheType
      <4> QED BY <4>1, <4>2 DEF SweepStep
    <3> QED BY <1>3, <3>1, <3>2, <3>3 DEF Next
  <2>2. PICK keys \in SUBSET Keys : StartSweep(t, keys)
    <3>1. Connect(t) => \E keys \in SUBSET Keys : StartSweep(t, keys)
      BY DEF Connect, CacheType
    <3>2. Terminal(t) \/ Cancel(t) => \E keys \in SUBSET Keys : StartSweep(t, keys)
      BY NeededKeys DEF Terminal, Cancel, CacheType, KeysOf
    <3> QED BY <2>1, <3>1, <3>2
  <2>3. UNCHANGED <<pc, dir, tree, used>>
    BY <2>1 DEF Connect, Terminal, Cancel, diskVars
  <2>4. t = s /\ sweep'[s] = NewSweep(s, keys)
    BY <1>3, <2>2 DEF StartSweep, CacheType
  <2>5. EntriesOnDisk' = EntriesOnDisk /\ \A j \in Jobs : Live(j)' <=> Live(j)
    BY <2>3 DEF EntriesOnDisk, Entry, IsTree, Live
  <2>6. /\ sweep'[s].order = used /\ sweep'[s].left = EntriesOnDisk
        /\ sweep'[s].running = Cardinality(EntriesOnDisk)
    BY <2>4 DEF NewSweep
  <2>7. Sups = {s} /\ \A j \in Jobs : ~Live(j)
    <3>1. NewSweep(s, keys).quiet <=> Sups = {s} /\ \A j \in Jobs : ~Live(j)
      BY Zenon DEF NewSweep
    <3>2. NewSweep(s, keys).quiet
      BY <2>4
    <3> QED BY <3>1, <3>2
  <2> QED BY <2>3, <2>5, <2>6, <2>7
<1> QED BY <1>1, <1>2, <1>3

(* A sweep that has the disk to itself evicts only while the caches are over
   the cap, the least recently used unprotected entry first, and stops over
   the cap only if all that is left is protected or could not be removed.  *)
THEOREM QuietSweepsExact == Spec => QuietSweepIsExact
<1>1. Init => QuietInv
  BY DEF Init, QuietInv
<1>2. Spec => []QuietInv
  BY <1>1, QuietStep, LoopKept, PTL DEF Spec
<1>3. ASSUME CacheType, QuietInv, NEW s \in Sups, sweep[s] # None, sweep[s].quiet
      PROVE  /\ \A k \in Keys : Evict(s, k) =>
                  /\ Cardinality(EntriesOnDisk) > Cap
                  /\ \A x \in EntriesOnDisk :
                       used[x] < used[k] => x \in sweep[s].keep \cup sweep[s].stuck
             /\ SweepEnds(s) =>
                  \/ Cardinality(EntriesOnDisk) <= Cap
                  \/ EntriesOnDisk \subseteq sweep[s].keep \cup sweep[s].stuck
  <2>1. /\ sweep[s].order = used
        /\ sweep[s].running = Cardinality(EntriesOnDisk)
        /\ sweep[s].left \subseteq EntriesOnDisk
        /\ EntriesOnDisk \ sweep[s].left \subseteq sweep[s].keep \cup sweep[s].stuck
    BY <1>3 DEF QuietInv
  <2>2. ASSUME NEW k \in Keys, Evict(s, k)
        PROVE  /\ Cardinality(EntriesOnDisk) > Cap
               /\ \A x \in EntriesOnDisk :
                    used[x] < used[k] => x \in sweep[s].keep \cup sweep[s].stuck
    <3>1. /\ sweep[s].running > Cap
          /\ \A x \in sweep[s].left : used[k] <= used[x]
      BY <2>1, <2>2 DEF Evict, Candidate, Sweeping
    <3>2. \A x \in EntriesOnDisk : used[x] \in Nat /\ used[k] \in Nat
      BY <1>3, <2>2 DEF CacheType, EntriesOnDisk
    <3> QED BY <2>1, <3>1, <3>2
  <2>3. ASSUME SweepEnds(s), ~(Cardinality(EntriesOnDisk) <= Cap)
        PROVE  EntriesOnDisk \subseteq sweep[s].keep \cup sweep[s].stuck
    <3>1. sweep[s].left = {}
      BY <1>3, <2>1, <2>3, EntriesFinite, CacheAssumption DEF SweepEnds, Sweeping
    <3> QED BY <2>1, <3>1
  <2> QED BY <2>2, <2>3
<1>4. ASSUME CacheType, QuietInv, [Next]_vars
      PROVE  [\A s \in Sups : sweep[s] # None /\ sweep[s].quiet =>
                /\ \A k \in Keys : Evict(s, k) =>
                     /\ Cardinality(EntriesOnDisk) > Cap
                     /\ \A x \in EntriesOnDisk :
                          used[x] < used[k] => x \in sweep[s].keep \cup sweep[s].stuck
                /\ SweepEnds(s) =>
                     \/ Cardinality(EntriesOnDisk) <= Cap
                     \/ EntriesOnDisk \subseteq sweep[s].keep \cup sweep[s].stuck]_vars
  BY <1>3, <1>4
<1> QED BY <1>2, <1>4, CacheTypes, PTL DEF Spec, QuietSweepIsExact
=============================================================================
