----------------------------- MODULE WorkspaceProofs -----------------------------
(***************************************************************************)
(* Proofs about the dataset bundles and about crawls into the ingest store.*)
(*                                                                         *)
(* Of DatasetBundles, for any sources, names and directories: its types,   *)
(* and that the paths the controller holds verify, that bundles are        *)
(* immutable, that a training bundle holds the records of its namesake and *)
(* that runs train on what was selected.  Of Workspace: that what is       *)
(* proved of the ingest store and of the documentation crawler on their    *)
(* own holds of the two together, and that what the crawler calls fetched  *)
(* is in the store.                                                        *)
(***************************************************************************)
EXTENDS Workspace, DatasetBundles, IngestStoreProofs, DocumentationCrawlProofs

-----------------------------------------------------------------------------
(* Dataset bundles: the strengthening.                                      *)

\* The bundle that is being written is named and filled as its kind demands.
MakingInv ==
  making # NotMaking =>
    /\ bundles[making.path] = Partial
    /\ making.path.derived =>
         /\ training = NoPath /\ created # NoPath /\ ~created.derived
         /\ making.path.id = created.id /\ making.data = bundles[created].data

\* Unless it was in place before, the training bundle is the created bundle itself
\* or was derived from one of the created bundle's name.
ChosenInv ==
  training # NoPath /\ ~kept =>
    \/ training = created
    \/ ~created.derived /\ training.id = created.id

\* What was trained on was the selected bundle's data, or a namesake's.
TrainedInv ==
  /\ trained.chosen # NoPath => trained.chosen \in Paths /\ Verified(trained.chosen)
  /\ TrainsOnSelection

BundlesInv ==
  /\ BundlesTypeOK
  /\ PathsVerified
  /\ MakingInv
  /\ DerivedFromNamesake
  /\ ChosenInv
  /\ TrainedInv

-----------------------------------------------------------------------------
(* Paths and the states of a bundle.                                        *)

LEMMA NoPathIsNone ==
  /\ NoPath \notin Paths
  /\ NotMaking \notin [path : Paths, data : SUBSET Sources]
BY DEF NoPath, Paths, NotMaking

LEMMA PathsMade ==
  /\ \A d \in Dirs, i \in Ids, t \in BOOLEAN :
       /\ Path(d, i, t) \in Paths
       /\ Path(d, i, t).dir = d /\ Path(d, i, t).id = i /\ Path(d, i, t).derived = t
  /\ \A p \in Paths :
       /\ p.dir \in Dirs /\ p.id \in Ids /\ p.derived \in BOOLEAN
       /\ p = Path(p.dir, p.id, p.derived)
BY DEF Path, Paths

States == {Absent, Partial} \cup {Whole(d) : d \in SUBSET Sources}

LEMMA StatesDiffer ==
  /\ Absent \in States /\ Partial \in States
  /\ \A d \in SUBSET Sources : Whole(d) \in States
  /\ Absent.state # "whole" /\ Partial.state # "whole" /\ Absent # Partial
  /\ \A b \in States : b.state = "whole" => b.data \in SUBSET Sources /\ b = Whole(b.data)
  /\ \A d \in SUBSET Sources : Whole(d).state = "whole" /\ Whole(d).data = d
<1>1. Absent \in States /\ Partial \in States
  BY DEF States
<1>2. \A d \in SUBSET Sources : Whole(d) \in States
  BY DEF States
<1>3. Absent.state # "whole" /\ Partial.state # "whole"
  BY DEF Absent, Partial
<1>4. Absent # Partial
  <2>1. Absent.state = "absent" /\ Partial.state = "partial"
    BY DEF Absent, Partial
  <2>2. QED
    BY <2>1
<1>5. \A d \in SUBSET Sources : Whole(d).state = "whole" /\ Whole(d).data = d
  BY DEF Whole
<1>6. \A b \in States : b.state = "whole" => b.data \in SUBSET Sources /\ b = Whole(b.data)
  BY <1>3, <1>5 DEF States
<1>7. QED
  BY <1>1, <1>2, <1>3, <1>4, <1>5, <1>6

LEMMA BundleStates ==
  ASSUME BundlesTypeOK
  PROVE  /\ bundles \in [Paths -> States]
         /\ \A p \in Paths : Verified(p) => bundles[p].data \in SUBSET Sources
<1>1. bundles \in [Paths -> States]
  BY DEF BundlesTypeOK, States
<1>2. QED
  BY <1>1, StatesDiffer DEF Verified

\* The types and the names a controller can hold.
LEMMA NamesMade ==
  ASSUME BundlesAssumption, BundlesTypeOK
  PROVE  /\ CanonicalPath \in Paths /\ ~CanonicalPath.derived
         /\ CanonicalPath = Path(dir, dataset, FALSE)
         /\ \A p \in Paths : /\ TrainPath(p) \in Paths
                             /\ TrainPath(p).derived /\ TrainPath(p).id = p.id
         /\ \A n \in Names : [name |-> n, suffixes |-> 0] \in Ids
<1>1. \A n \in Names : [name |-> n, suffixes |-> 0] \in Ids
  BY DEF Ids, BundlesAssumption
<1>2. dataset \in Ids /\ dir \in Dirs
  BY DEF BundlesTypeOK
<1>3. CanonicalPath \in Paths /\ CanonicalPath = Path(dir, dataset, FALSE)
  BY <1>2, PathsMade DEF CanonicalPath
<1>4. ~CanonicalPath.derived
  BY DEF CanonicalPath, Path
<1>5. ASSUME NEW p \in Paths
      PROVE  TrainPath(p) \in Paths /\ TrainPath(p).derived /\ TrainPath(p).id = p.id
  <2>1. TrainPath(p) \in Paths
    BY <1>2, PathsMade DEF TrainPath
  <2>2. TrainPath(p).derived /\ TrainPath(p).id = p.id
    BY DEF TrainPath, Path
  <2>3. QED
    BY <2>1, <2>2
<1>6. QED
  BY <1>1, <1>3, <1>4, <1>5

-----------------------------------------------------------------------------
(* What an action that leaves whole bundles alone does not disturb.         *)

BundlesKept == \A p \in Paths : Verified(p) => bundles'[p] = bundles[p]

LEMMA VerifiedKept ==
  ASSUME BundlesKept, NEW p \in Paths, Verified(p)
  PROVE  Verified(p)' /\ bundles'[p] = bundles[p]
BY DEF BundlesKept, Verified

LEMMA TrainedKept ==
  ASSUME BundlesInv, BundlesKept, UNCHANGED trained
  PROVE  TrainedInv'
<1>1. trained.chosen # NoPath => trained.chosen \in Paths /\ Verified(trained.chosen)
  BY DEF BundlesInv, TrainedInv
<1>2. trained.chosen # NoPath =>
        Verified(trained.chosen)' /\ bundles'[trained.chosen] = bundles[trained.chosen]
  BY <1>1, VerifiedKept
<1>3. TrainsOnSelection'
  <2>1. CASE trained.chosen = NoPath \/ trained.kept
    BY <2>1 DEF TrainsOnSelection
  <2>2. CASE trained.chosen # NoPath /\ ~trained.kept
                /\ trained.data = bundles[trained.chosen].data
    BY <2>2, <1>2 DEF TrainsOnSelection
  <2>3. CASE trained.chosen # NoPath /\ ~trained.kept
                /\ \E d \in Dirs \ {trained.chosen.dir} :
                     Verified(Path(d, trained.chosen.id, FALSE))
    <3>1. PICK d \in Dirs \ {trained.chosen.dir} : Verified(Path(d, trained.chosen.id, FALSE))
      BY <2>3
    <3>2. Path(d, trained.chosen.id, FALSE) \in Paths
      BY <1>1, <2>3, PathsMade
    <3>3. Verified(Path(d, trained.chosen.id, FALSE))'
      <4> DEFINE p == Path(d, trained.chosen.id, FALSE)
      <4>1. Verified(p)'
        BY <3>1, <3>2, VerifiedKept
      <4>2. QED
        BY <4>1 DEF Path
    <3>4. QED
      BY <3>1, <3>3 DEF TrainsOnSelection
  <2>4. QED
    BY <2>1, <2>2, <2>3 DEF BundlesInv, TrainedInv, TrainsOnSelection
<1>4. QED
  BY <1>1, <1>2, <1>3 DEF TrainedInv

LEMMA EventKeeps ==
  ASSUME BundlesInv, Event, UNCHANGED bundles
  PROVE  BundlesKept /\ MakingInv' /\ DerivedFromNamesake'
<1>1. BundlesKept
  BY DEF BundlesKept
<1>2. MakingInv'
  BY DEF Event, MakingInv
<1>3. DerivedFromNamesake'
  BY DEF BundlesInv, DerivedFromNamesake, Verified
<1>4. QED
  BY <1>1, <1>2, <1>3

\* A training run with a bundle that fits the created one.
LEMMA RunTrains ==
  ASSUME BundlesInv, DerivedFromNamesake', created' = created,
         NEW p \in Paths, Verified(p)', Verified(created)', created \in Paths,
         kept \/ p = created \/ (p.derived /\ ~created.derived /\ p.id = created.id),
         Run(p, created)
  PROVE  TrainedInv'
<1>1. /\ trained'.chosen = created /\ trained'.kept = kept
      /\ trained'.data = bundles'[p].data
  BY DEF Run
<1>2. TrainsOnSelection'
  <2>1. CASE kept
    BY <1>1, <2>1 DEF TrainsOnSelection
  <2>2. CASE p = created
    BY <1>1, <2>2 DEF TrainsOnSelection
  <2>3. CASE p.derived /\ ~created.derived /\ p.id = created.id
    <3>1. PICK d \in Dirs : /\ Verified(Path(d, p.id, FALSE))'
                            /\ bundles'[Path(d, p.id, FALSE)].data = bundles'[p].data
      BY <2>3 DEF DerivedFromNamesake, Path
    <3>2. CASE d = created.dir
      <4>1. created.derived = FALSE
        BY <2>3, PathsMade
      <4>2. Path(d, p.id, FALSE) = created
        BY <2>3, <3>2, <4>1 DEF Paths, Path
      <4>3. QED
        BY <1>1, <3>1, <4>2 DEF TrainsOnSelection
    <3>3. CASE d # created.dir
      <4>1. Verified(Path(d, created.id, FALSE))'
        BY <2>3, <3>1
      <4>2. QED
        BY <1>1, <3>3, <4>1 DEF TrainsOnSelection, Path
    <3>4. QED
      BY <3>2, <3>3
  <2>4. QED
    BY <2>1, <2>2, <2>3
<1>3. QED
  BY <1>1, <1>2 DEF TrainedInv, Verified

-----------------------------------------------------------------------------
(* Events that write no bundle.                                             *)

LEMMA EntriesKeep ==
  ASSUME BundlesAssumption, BundlesInv, ImportSource \/ SetDatasetId
  PROVE  BundlesInv'
<1>1. Event /\ UNCHANGED <<dir, bundles, created, training, trained, kept>>
  BY DEF ImportSource, SetDatasetId
<1>2. BundlesKept /\ MakingInv' /\ DerivedFromNamesake' /\ TrainedInv'
  BY <1>1, EventKeeps, TrainedKept
<1>3. BundlesTypeOK'
  <2>1. sources' \subseteq Sources /\ dataset' \in Ids
    <3>1. CASE ImportSource
      BY <3>1 DEF ImportSource, BundlesInv, BundlesTypeOK
    <3>2. CASE SetDatasetId
      <4>1. PICK n \in Names : dataset' = [name |-> n, suffixes |-> 0]
        BY <3>2 DEF SetDatasetId
      <4>2. BundlesTypeOK
        BY DEF BundlesInv
      <4>3. dataset' \in Ids
        BY <4>1, <4>2, NamesMade
      <4>4. QED
        BY <3>2, <4>2, <4>3 DEF SetDatasetId, BundlesTypeOK
    <3>3. QED
      BY <3>1, <3>2
  <2>2. QED
    BY <1>1, <2>1 DEF Event, BundlesInv, BundlesTypeOK
<1>4. PathsVerified' /\ ChosenInv'
  BY <1>1 DEF BundlesInv, PathsVerified, ChosenInv, Verified
<1>5. QED
  BY <1>2, <1>3, <1>4 DEF BundlesInv

LEMMA SetWorkspacePathsKeeps ==
  ASSUME BundlesInv, SetWorkspacePaths
  PROVE  BundlesInv'
<1>1. Event /\ UNCHANGED <<dataset, bundles, trained>>
  BY DEF SetWorkspacePaths
<1>2. BundlesKept /\ MakingInv' /\ DerivedFromNamesake' /\ TrainedInv'
  BY <1>1, EventKeeps, TrainedKept
<1>3. BundlesTypeOK'
  BY <1>1 DEF SetWorkspacePaths, Event, BundlesInv, BundlesTypeOK
<1>4. PathsVerified' /\ ChosenInv'
  BY DEF SetWorkspacePaths, PathsVerified, ChosenInv
<1>5. QED
  BY <1>2, <1>3, <1>4 DEF BundlesInv

LEMMA ImportBundleKeeps ==
  ASSUME BundlesInv, ImportBundle
  PROVE  BundlesInv'
<1>1. Event /\ UNCHANGED <<sources, dir, bundles, trained>>
  BY DEF ImportBundle
<1>2. BundlesKept /\ MakingInv' /\ DerivedFromNamesake' /\ TrainedInv'
  BY <1>1, EventKeeps, TrainedKept
<1>3. PICK p \in Paths : /\ Verified(p) /\ IdOf(p) \in Ids
                         /\ created' = p /\ dataset' = IdOf(p)
                         /\ training' = IF p.derived THEN p ELSE NoPath
  BY DEF ImportBundle
<1>4. BundlesTypeOK'
  BY <1>1, <1>3, NoPathIsNone DEF Event, BundlesInv, BundlesTypeOK
<1>5. Verified(p)'
  BY <1>1, <1>3 DEF Verified
<1>6. PathsVerified'
  BY <1>3, <1>5 DEF PathsVerified
<1>7. ChosenInv'
  BY <1>3 DEF ChosenInv
<1>8. QED
  BY <1>2, <1>4, <1>6, <1>7 DEF BundlesInv

LEMMA ReuseDatasetKeeps ==
  ASSUME BundlesAssumption, BundlesInv, ReuseDataset
  PROVE  BundlesInv'
<1>1. Event /\ UNCHANGED <<sources, dataset, dir, bundles, training, trained>>
  BY DEF ReuseDataset
<1>2. BundlesKept /\ MakingInv' /\ DerivedFromNamesake' /\ TrainedInv'
  BY <1>1, EventKeeps, TrainedKept
<1>3. /\ CanonicalPath \in Paths /\ ~CanonicalPath.derived
      /\ Verified(CanonicalPath) /\ created' = CanonicalPath
  BY NamesMade DEF ReuseDataset, BundlesInv
<1>4. BundlesTypeOK'
  BY <1>1, <1>3, NoPathIsNone DEF Event, BundlesInv, BundlesTypeOK
<1>5. PathsVerified'
  <2>1. training = NoPath \/ Verified(training)'
    BY <1>1 DEF BundlesInv, PathsVerified, Verified
  <2>2. Verified(created)'
    BY <1>1, <1>3 DEF Verified
  <2>3. QED
    BY <1>1, <2>1, <2>2 DEF PathsVerified, Verified
<1>6. ChosenInv'
  BY <1>1, <1>3 DEF ReuseDataset, BundlesInv, ChosenInv
<1>7. QED
  BY <1>2, <1>4, <1>5, <1>6 DEF BundlesInv

LEMMA StartTrainingKeeps ==
  ASSUME BundlesInv, StartTraining
  PROVE  BundlesInv'
<1>1. /\ Event /\ training # NoPath /\ Run(training, created)
      /\ UNCHANGED <<sources, dataset, dir, bundles, created, training, kept>>
  BY DEF StartTraining
<1>2. BundlesKept /\ MakingInv' /\ DerivedFromNamesake'
  BY <1>1, EventKeeps
<1>3. BundlesTypeOK'
  BY <1>1 DEF Event, BundlesInv, BundlesTypeOK
<1>4. PathsVerified' /\ ChosenInv'
  BY <1>1 DEF BundlesInv, PathsVerified, ChosenInv, Verified
<1>5. TrainedInv'
  <2>1. created \in Paths /\ training \in Paths /\ training.derived
    BY <1>1 DEF BundlesInv, BundlesTypeOK
  <2>2. Verified(training)' /\ Verified(created)'
    BY <1>1, <2>1, NoPathIsNone DEF BundlesInv, PathsVerified, Verified
  <2>3. QED
    BY <1>1, <1>2, <2>1, <2>2, RunTrains DEF BundlesInv, ChosenInv
<1>6. QED
  BY <1>2, <1>3, <1>4, <1>5 DEF BundlesInv

LEMMA ReuseTrainingBundleKeeps ==
  ASSUME BundlesAssumption, BundlesInv, ReuseTrainingBundle
  PROVE  BundlesInv'
<1>1. /\ Event /\ training = NoPath /\ created # NoPath
      /\ Verified(TrainPath(created)) /\ training' = TrainPath(created)
      /\ Run(TrainPath(created), created)
      /\ UNCHANGED <<sources, dataset, dir, bundles, created, kept>>
  BY DEF ReuseTrainingBundle
<1>2. BundlesKept /\ MakingInv' /\ DerivedFromNamesake'
  BY <1>1, EventKeeps
<1>3. created \in Paths /\ ~created.derived /\ Verified(created)
  BY <1>1 DEF BundlesInv, BundlesTypeOK, PathsVerified
<1>4. /\ TrainPath(created) \in Paths
      /\ TrainPath(created).derived /\ TrainPath(created).id = created.id
  BY <1>3, NamesMade DEF BundlesInv
<1>5. BundlesTypeOK'
  BY <1>1, <1>3, <1>4 DEF Event, BundlesInv, BundlesTypeOK
<1>6. Verified(training)' /\ Verified(created)'
  BY <1>1, <1>3 DEF Verified
<1>7. PathsVerified' /\ ChosenInv'
  BY <1>1, <1>3, <1>4, <1>6 DEF PathsVerified, ChosenInv, Verified
<1>8. TrainedInv'
  <2>1. PICK p \in Paths : p = TrainPath(created)
    BY <1>4
  <2>2. p.derived /\ p.id = created.id /\ Run(p, created) /\ training' = p
    BY <1>1, <1>4, <2>1
  <2>3. Verified(p)'
    BY <1>6, <2>2 DEF Verified
  <2>4. QED
    BY <1>1, <1>2, <1>3, <1>6, <2>2, <2>3, RunTrains
<1>9. QED
  BY <1>2, <1>5, <1>7, <1>8 DEF BundlesInv

-----------------------------------------------------------------------------
(* Writing a bundle.                                                        *)

\* A bundle that has been begun is not yet one.
LEMMA MakeKeeps ==
  ASSUME BundlesInv, NEW p \in Paths, NEW data \in SUBSET Sources, Make(p, data)
  PROVE  /\ BundlesKept
         /\ bundles' \in [Paths -> States] /\ bundles'[p] = Partial
         /\ making' \in [path : Paths, data : SUBSET Sources]
         /\ making'.path = p /\ making'.data = data
         /\ \A q \in Paths : Verified(q)' <=> Verified(q)
         /\ DerivedFromNamesake'
<1>1. bundles \in [Paths -> States]
  BY BundleStates DEF BundlesInv
<1>2. bundles[p] = Absent /\ bundles' = [bundles EXCEPT ![p] = Partial]
  BY DEF Make
<1>3. bundles' \in [Paths -> States] /\ bundles'[p] = Partial
  BY <1>1, <1>2, StatesDiffer
<1>4. \A q \in Paths : q # p => bundles'[q] = bundles[q]
  BY <1>1, <1>2
<1>5. ~Verified(p) /\ ~Verified(p)'
  BY <1>2, <1>3, StatesDiffer DEF Verified
<1>6. BundlesKept
  BY <1>4, <1>5 DEF BundlesKept
<1>7. \A q \in Paths : Verified(q)' <=> Verified(q)
  BY <1>4, <1>5 DEF Verified
<1>8. making' = [path |-> p, data |-> data]
  BY DEF Make
<1>9. DerivedFromNamesake'
  <2>1. SUFFICES ASSUME NEW q \in Paths, q.derived, Verified(q)'
                 PROVE  \E d \in Dirs : /\ Verified(Path(d, q.id, FALSE))'
                                        /\ bundles'[Path(d, q.id, FALSE)].data = bundles'[q].data
    BY DEF DerivedFromNamesake, Path
  <2>2. PICK d \in Dirs : /\ Verified(Path(d, q.id, FALSE))
                          /\ bundles[Path(d, q.id, FALSE)].data = bundles[q].data
    BY <1>7, <2>1 DEF BundlesInv, DerivedFromNamesake
  <2> DEFINE source == Path(d, q.id, FALSE)
  <2>3. source \in Paths
    BY <2>1, PathsMade
  <2>4. Verified(source)' /\ bundles'[source] = bundles[source]
    BY <1>6, <2>2, <2>3, VerifiedKept
  <2>5. bundles'[q] = bundles[q]
    BY <1>6, <1>7, <2>1 DEF BundlesKept
  <2>6. QED
    BY <2>2, <2>4, <2>5 DEF Path
<1>10. QED
  BY <1>3, <1>6, <1>7, <1>8, <1>9

LEMMA CreateDatasetKeeps ==
  ASSUME BundlesAssumption, BundlesInv, CreateDataset
  PROVE  BundlesInv'
<1>1. /\ Make(CanonicalPath, sources)
      /\ UNCHANGED <<sources, dataset, dir, created, training, trained, kept>>
  BY DEF CreateDataset
<1>2. /\ CanonicalPath \in Paths /\ ~CanonicalPath.derived
      /\ sources \in SUBSET Sources
  BY NamesMade DEF BundlesInv, BundlesTypeOK
<1>3. /\ BundlesKept /\ DerivedFromNamesake'
      /\ bundles' \in [Paths -> States] /\ bundles'[CanonicalPath] = Partial
      /\ making' \in [path : Paths, data : SUBSET Sources]
      /\ making'.path = CanonicalPath
      /\ \A q \in Paths : Verified(q)' <=> Verified(q)
  BY <1>1, <1>2, MakeKeeps
<1>4. BundlesTypeOK'
  BY <1>1, <1>3 DEF Make, BundlesInv, BundlesTypeOK, States
<1>5. PathsVerified' /\ ChosenInv'
  BY <1>1, <1>3 DEF BundlesInv, BundlesTypeOK, PathsVerified, ChosenInv
<1>6. MakingInv'
  BY <1>2, <1>3 DEF MakingInv
<1>7. TrainedInv'
  BY <1>1, <1>3, TrainedKept
<1>8. QED
  BY <1>3, <1>4, <1>5, <1>6, <1>7 DEF BundlesInv

LEMMA BuildTrainingBundleKeeps ==
  ASSUME BundlesAssumption, BundlesInv, BuildTrainingBundle
  PROVE  BundlesInv'
<1>1. /\ training = NoPath /\ Verified(created)
      /\ Make(TrainPath(created), bundles[created].data)
      /\ UNCHANGED <<sources, dataset, dir, created, training, trained, kept>>
  BY DEF BuildTrainingBundle
<1>2. created # NoPath /\ created \in Paths /\ ~created.derived
  BY <1>1 DEF Verified, BundlesInv, BundlesTypeOK
<1>3. /\ TrainPath(created) \in Paths
      /\ TrainPath(created).derived /\ TrainPath(created).id = created.id
      /\ bundles[created].data \in SUBSET Sources
  BY <1>1, <1>2, NamesMade, BundleStates DEF BundlesInv
<1>4. /\ BundlesKept /\ DerivedFromNamesake'
      /\ bundles' \in [Paths -> States] /\ bundles'[TrainPath(created)] = Partial
      /\ making' \in [path : Paths, data : SUBSET Sources]
      /\ making'.path = TrainPath(created) /\ making'.data = bundles[created].data
      /\ \A q \in Paths : Verified(q)' <=> Verified(q)
  BY <1>1, <1>3, MakeKeeps
<1>5. BundlesTypeOK'
  BY <1>1, <1>4 DEF Make, BundlesInv, BundlesTypeOK, States
<1>6. PathsVerified' /\ ChosenInv'
  BY <1>1, <1>4 DEF BundlesInv, BundlesTypeOK, PathsVerified, ChosenInv
<1>7. MakingInv'
  <2>1. bundles'[created] = bundles[created]
    BY <1>1, <1>2, <1>4 DEF BundlesKept
  <2>2. QED
    BY <1>1, <1>2, <1>3, <1>4, <2>1 DEF MakingInv
<1>8. TrainedInv'
  BY <1>1, <1>4, TrainedKept
<1>9. QED
  BY <1>4, <1>5, <1>6, <1>7, <1>8 DEF BundlesInv

\* The bundle being written becomes one.
LEMMA CompleteFills ==
  ASSUME BundlesInv, Complete
  PROVE  /\ making.path \in Paths /\ making.data \in SUBSET Sources
         /\ BundlesKept
         /\ bundles' \in [Paths -> States]
         /\ bundles'[making.path] = Whole(making.data)
         /\ \A q \in Paths : q # making.path => bundles'[q] = bundles[q]
<1>1. making # NotMaking /\ bundles' = [bundles EXCEPT ![making.path] = Whole(making.data)]
  BY DEF Complete
<1>2. making \in [path : Paths, data : SUBSET Sources]
  BY <1>1 DEF BundlesInv, BundlesTypeOK
<1>3. bundles \in [Paths -> States]
  BY BundleStates DEF BundlesInv
<1>4. Whole(making.data) \in States
  BY <1>2, StatesDiffer
<1>5. ~Verified(making.path)
  BY <1>1, <1>2, StatesDiffer DEF BundlesInv, MakingInv, Verified
<1>6. QED
  BY <1>1, <1>2, <1>3, <1>4, <1>5 DEF BundlesKept

LEMMA CompleteDerives ==
  ASSUME BundlesInv, Complete
  PROVE  DerivedFromNamesake'
<1>1. /\ making.path \in Paths /\ making.data \in SUBSET Sources /\ making # NotMaking
      /\ BundlesKept /\ bundles'[making.path] = Whole(making.data)
      /\ \A q \in Paths : q # making.path => bundles'[q] = bundles[q]
  BY CompleteFills DEF Complete
<1>2. SUFFICES ASSUME NEW q \in Paths, q.derived, Verified(q)'
               PROVE  \E d \in Dirs : /\ Verified(Path(d, q.id, FALSE))'
                                      /\ bundles'[Path(d, q.id, FALSE)].data = bundles'[q].data
  BY DEF DerivedFromNamesake, Path
<1>3. PICK d \in Dirs : /\ Path(d, q.id, FALSE) \in Paths
                        /\ Verified(Path(d, q.id, FALSE))
                        /\ bundles[Path(d, q.id, FALSE)].data = bundles'[q].data
  <2>1. CASE q = making.path
    <3>1. /\ created \in Paths /\ Verified(created) /\ ~created.derived
          /\ q.id = created.id /\ making.data = bundles[created].data
      BY <1>1, <1>2, <2>1 DEF BundlesInv, BundlesTypeOK, PathsVerified, MakingInv
    <3>2. created = Path(created.dir, q.id, FALSE) /\ created.dir \in Dirs
      BY <3>1 DEF Paths, Path
    <3>3. bundles[created].data = bundles'[q].data
      BY <1>1, <2>1, <3>1, StatesDiffer
    <3>4. QED
      BY <3>1, <3>2, <3>3
  <2>2. CASE q # making.path
    <3>1. Verified(q) /\ bundles'[q] = bundles[q]
      BY <1>1, <1>2, <2>2 DEF Verified
    <3>2. PICK e \in Dirs : /\ Verified(Path(e, q.id, FALSE))
                            /\ bundles[Path(e, q.id, FALSE)].data = bundles[q].data
      BY <1>2, <3>1 DEF BundlesInv, DerivedFromNamesake
    <3>3. Path(e, q.id, FALSE) \in Paths
      BY <1>2, PathsMade
    <3>4. QED
      BY <3>1, <3>2, <3>3
  <2>3. QED
    BY <2>1, <2>2
<1>4. PICK source \in Paths : source = Path(d, q.id, FALSE)
  BY <1>3
<1>5. Verified(source)' /\ bundles'[source] = bundles[source]
  BY <1>1, <1>3, <1>4, VerifiedKept
<1>6. QED
  BY <1>3, <1>4, <1>5 DEF Verified, Path

LEMMA CompleteKeeps ==
  ASSUME BundlesInv, Complete
  PROVE  BundlesInv'
<1>1. /\ making # NotMaking /\ making' = NotMaking
      /\ UNCHANGED <<sources, dataset, dir, shellKills>>
  BY DEF Complete
<1>2. /\ making.path \in Paths /\ making.data \in SUBSET Sources
      /\ BundlesKept /\ bundles' \in [Paths -> States]
      /\ bundles'[making.path] = Whole(making.data)
  BY CompleteFills
<1>3. PICK p \in Paths : p = making.path
  BY <1>2
<1>4. Verified(p)'
  BY <1>2, <1>3, NoPathIsNone, StatesDiffer DEF Verified
<1>5. DerivedFromNamesake' /\ MakingInv'
  BY <1>1, CompleteDerives DEF MakingInv
<1>6. CASE p.derived
  <2>1. /\ training' = p /\ Run(p, created) /\ UNCHANGED <<created, kept>>
    BY <1>3, <1>6 DEF Complete
  <2>2. created \in Paths /\ ~created.derived /\ p.id = created.id /\ Verified(created)
    BY <1>1, <1>3, <1>6 DEF BundlesInv, BundlesTypeOK, PathsVerified, MakingInv
  <2>3. Verified(created)'
    BY <1>2, <2>1, <2>2 DEF BundlesKept, Verified
  <2>4. BundlesTypeOK'
    BY <1>1, <1>2, <1>3, <1>6, <2>1, <2>2, NoPathIsNone DEF BundlesInv, BundlesTypeOK, States
  <2>5. PathsVerified' /\ ChosenInv'
    BY <1>4, <2>1, <2>2, <2>3 DEF PathsVerified, ChosenInv, Verified
  <2>6. TrainedInv'
    BY <1>4, <1>5, <1>6, <2>1, <2>2, <2>3, RunTrains
  <2>7. QED
    BY <1>5, <2>4, <2>5, <2>6 DEF BundlesInv
<1>7. CASE ~p.derived
  <2>1. created' = p /\ kept' = (training # NoPath) /\ UNCHANGED <<training, trained>>
    BY <1>3, <1>7 DEF Complete
  <2>2. training = NoPath \/ (training \in Paths /\ Verified(training))
    <3>1. training = NoPath \/ training \in Paths
      BY DEF BundlesInv, BundlesTypeOK
    <3>2. training = NoPath \/ Verified(training)
      BY DEF BundlesInv, PathsVerified
    <3>3. QED
      BY <3>1, <3>2
  <2>3. training = NoPath \/ Verified(training)'
    BY <1>2, <2>1, <2>2 DEF BundlesKept, Verified
  <2>4. BundlesTypeOK'
    BY <1>1, <1>2, <1>3, <1>7, <2>1, NoPathIsNone DEF BundlesInv, BundlesTypeOK, States
  <2>5. PathsVerified' /\ ChosenInv'
    BY <1>4, <2>1, <2>3 DEF PathsVerified, ChosenInv, Verified
  <2>6. TrainedInv'
    BY <1>2, <2>1, TrainedKept
  <2>7. QED
    BY <1>5, <2>4, <2>5, <2>6 DEF BundlesInv
<1>8. QED
  BY <1>6, <1>7

LEMMA MakeFailsKeeps ==
  ASSUME BundlesInv, MakeFails \/ UNCHANGED bundleVars
  PROVE  BundlesInv'
<1>1. /\ making' \in {making, NotMaking}
      /\ UNCHANGED <<sources, dataset, dir, bundles, created, training, trained, kept, shellKills>>
  BY DEF MakeFails, bundleVars
<1>2. BundlesTypeOK'
  BY <1>1 DEF BundlesInv, BundlesTypeOK
<1>3. PathsVerified' /\ ChosenInv' /\ DerivedFromNamesake'
  BY <1>1 DEF BundlesInv, PathsVerified, ChosenInv, DerivedFromNamesake, Verified
<1>4. MakingInv'
  BY <1>1 DEF BundlesInv, MakingInv
<1>5. TrainedInv'
  BY <1>1, TrainedKept DEF BundlesKept
<1>6. QED
  BY <1>2, <1>3, <1>4, <1>5 DEF BundlesInv

LEMMA KillShellKeeps ==
  ASSUME BundlesAssumption, BundlesInv, KillShell
  PROVE  BundlesInv'
<1>1. /\ sources' = {} /\ dataset' = [name |-> DefaultName, suffixes |-> 0]
      /\ created' = NoPath /\ training' = NoPath /\ making' = NotMaking
      /\ trained' = NotTrained /\ shellKills < ShellKills /\ shellKills' = shellKills + 1
      /\ UNCHANGED <<dir, bundles>>
  BY DEF KillShell
<1>2. BundlesTypeOK'
  <2>1. dataset' \in Ids
    BY <1>1, NamesMade DEF BundlesInv, BundlesAssumption
  <2>2. shellKills' \in 0 .. ShellKills
    BY <1>1 DEF BundlesInv, BundlesTypeOK, BundlesAssumption
  <2>3. QED
    BY <1>1, <2>1, <2>2 DEF BundlesInv, BundlesTypeOK
<1>3. PathsVerified' /\ ChosenInv' /\ MakingInv'
  BY <1>1 DEF PathsVerified, ChosenInv, MakingInv
<1>4. DerivedFromNamesake'
  BY <1>1 DEF BundlesInv, DerivedFromNamesake, Verified
<1>5. TrainedInv'
  BY <1>1 DEF TrainedInv, TrainsOnSelection, NotTrained
<1>6. QED
  BY <1>2, <1>3, <1>4, <1>5 DEF BundlesInv

-----------------------------------------------------------------------------
(* The invariant and the theorems.                                          *)

LEMMA BundlesStart ==
  ASSUME BundlesAssumption, BundlesInit
  PROVE  BundlesInv
<1>1. \A p \in Paths : ~Verified(p)
  BY StatesDiffer DEF BundlesInit, Verified
<1>2. BundlesTypeOK
  <2>1. dataset \in Ids
    BY DEF BundlesInit, BundlesAssumption, Ids
  <2>2. bundles \in [Paths -> {Absent, Partial} \cup {Whole(d) : d \in SUBSET Sources}]
    BY DEF BundlesInit
  <2>3. QED
    BY <2>1, <2>2 DEF BundlesInit, BundlesTypeOK, BundlesAssumption
<1>3. PathsVerified /\ ChosenInv /\ MakingInv
  BY DEF BundlesInit, PathsVerified, ChosenInv, MakingInv
<1>4. DerivedFromNamesake
  BY <1>1 DEF DerivedFromNamesake
<1>5. TrainedInv
  BY DEF BundlesInit, TrainedInv, TrainsOnSelection, NotTrained
<1>6. QED
  BY <1>2, <1>3, <1>4, <1>5 DEF BundlesInv

LEMMA BundlesStep ==
  ASSUME BundlesAssumption, BundlesInv, [BundlesNext]_bundleVars
  PROVE  BundlesInv'
<1>1. CASE ImportSource \/ SetDatasetId
  BY <1>1, EntriesKeep
<1>2. CASE SetWorkspacePaths
  BY <1>2, SetWorkspacePathsKeeps
<1>3. CASE ImportBundle
  BY <1>3, ImportBundleKeeps
<1>4. CASE ReuseDataset
  BY <1>4, ReuseDatasetKeeps
<1>5. CASE CreateDataset
  BY <1>5, CreateDatasetKeeps
<1>6. CASE StartTraining
  BY <1>6, StartTrainingKeeps
<1>7. CASE ReuseTrainingBundle
  BY <1>7, ReuseTrainingBundleKeeps
<1>8. CASE BuildTrainingBundle
  BY <1>8, BuildTrainingBundleKeeps
<1>9. CASE Complete
  BY <1>9, CompleteKeeps
<1>10. CASE MakeFails \/ UNCHANGED bundleVars
  BY <1>10, MakeFailsKeeps
<1>11. CASE KillShell
  BY <1>11, KillShellKeeps
<1>12. QED
  BY <1>1, <1>2, <1>3, <1>4, <1>5, <1>6, <1>7, <1>8, <1>9, <1>10, <1>11 DEF BundlesNext

\* No step changes a bundle that verifies.
LEMMA WholeStays ==
  ASSUME BundlesAssumption, BundlesInv, [BundlesNext]_bundleVars
  PROVE  BundlesKept
<1>1. CASE UNCHANGED bundles
  BY <1>1 DEF BundlesKept
<1>2. CASE CreateDataset
  <2>1. CanonicalPath \in Paths /\ sources \in SUBSET Sources
    BY NamesMade DEF BundlesInv, BundlesTypeOK
  <2>2. QED
    BY <1>2, <2>1, MakeKeeps DEF CreateDataset
<1>3. CASE BuildTrainingBundle
  <2>1. created \in Paths /\ Verified(created)
    BY <1>3 DEF BuildTrainingBundle, Verified, BundlesInv, BundlesTypeOK
  <2>2. TrainPath(created) \in Paths /\ bundles[created].data \in SUBSET Sources
    BY <2>1, NamesMade, BundleStates DEF BundlesInv
  <2>3. QED
    BY <1>3, <2>2, MakeKeeps DEF BuildTrainingBundle
<1>4. CASE Complete
  BY <1>4, CompleteFills
<1>5. QED
  BY <1>1, <1>2, <1>3, <1>4
  DEF BundlesNext, ImportSource, SetDatasetId, SetWorkspacePaths, ImportBundle, ReuseDataset,
      StartTraining, ReuseTrainingBundle, MakeFails, KillShell, bundleVars

LEMMA BundlesInvariant == BundlesSpec => []BundlesInv
<1>1. BundlesInit => BundlesInv
  BY BundlesStart, BundlesAssumption
<1>2. BundlesInv /\ [BundlesNext]_bundleVars => BundlesInv'
  BY BundlesStep, BundlesAssumption
<1>3. QED
  BY <1>1, <1>2, PTL DEF BundlesSpec

\* The controller and the bundles stay in their types.
THEOREM BundlesTypes == BundlesSpec => []BundlesTypeOK
<1>1. BundlesInv => BundlesTypeOK
  BY DEF BundlesInv
<1>2. QED
  BY <1>1, BundlesInvariant, PTL

\* Wherever a creation is cut off (create_bundle), the controller's paths name
\* bundles that verify.
THEOREM BundlesVerify == BundlesSpec => []PathsVerified
<1>1. BundlesInv => PathsVerified
  BY DEF BundlesInv
<1>2. QED
  BY <1>1, BundlesInvariant, PTL

\* build_training_bundle derives from a canonical bundle of the name.
THEOREM BundlesDerive == BundlesSpec => []DerivedFromNamesake
<1>1. BundlesInv => DerivedFromNamesake
  BY DEF BundlesInv
<1>2. QED
  BY <1>1, BundlesInvariant, PTL

\* start_training trains on what was selected, but for what TrainsOnSelection names.
THEOREM BundlesTrain == BundlesSpec => []TrainsOnSelection
<1>1. BundlesInv => TrainsOnSelection
  BY DEF BundlesInv, TrainedInv
<1>2. QED
  BY <1>1, BundlesInvariant, PTL

\* No sequence of operations and kills writes a finished bundle again.
THEOREM BundlesStay == BundlesSpec => BundlesImmutable
<1>1. BundlesInv /\ [BundlesNext]_bundleVars
        => [bundles' # bundles
              => \A p \in Paths : Verified(p) => bundles'[p] = bundles[p]]_bundleVars
  BY WholeStays, BundlesAssumption DEF BundlesKept
<1>2. QED
  BY <1>1, BundlesInvariant, PTL DEF BundlesSpec, BundlesImmutable

-----------------------------------------------------------------------------
(* A workspace.                                                             *)

\* Seen on the store's variables, a workspace is a behaviour of IngestStore: a
\* crawl does to the store what its pages' imports and the listing do.
THEOREM WorkspaceKeepsStore == WorkspaceSpec => Spec
<1>1. WorkspaceInit => Init
  BY DEF WorkspaceInit
<1>2. [WorkspaceNext]_workspaceVars => [Next]_vars
  <2> SUFFICES ASSUME [WorkspaceNext]_workspaceVars PROVE [Next]_vars
    OBVIOUS
  <2>1. CASE StoreMoves
    BY <2>1 DEF StoreMoves, Next
  <2>2. CASE CrawlBegins \/ CrawlEnds
    BY <2>2 DEF CrawlBegins, CrawlEnds, Next
  <2>3. CASE PageFetched \/ PageImported \/ PageRefused
    BY <2>3 DEF PageFetched, PageImported, PageRefused, Next
  <2>4. CASE Killed
    BY <2>4 DEF Killed, Next
  <2>5. CASE CrawlMoves \/ UNCHANGED workspaceVars
    BY <2>5 DEF CrawlMoves, workspaceVars
  <2> QED
    BY <2>1, <2>2, <2>3, <2>4, <2>5 DEF WorkspaceNext
<1>3. QED
  BY <1>1, <1>2, PTL DEF WorkspaceSpec, Spec

\* The ledger of a workspace that folders and crawls fill (import_local_folder,
\* crawl_documentation): what IngestStore promises of it, with the exceptions made
\* there for histories with a kill.
THEOREM WorkspaceLedger ==
  WorkspaceSpec => [](LedgerResolvable /\ RawStaged /\ SingleKindRehydrates /\ LedgerMatchesImports)
BY WorkspaceKeepsStore, LedgerResolves, RawIsStaged, OneKindRehydrates, ImportsMatch, PTL

\* Seen on the crawl's variables, a workspace is a behaviour of DocumentationCrawl:
\* the import of a page is one step, made when import_bytes returns or raises.
THEOREM WorkspaceKeepsCrawl == WorkspaceSpec => CrawlSpec
<1>1. WorkspaceInit => CrawlInit
  BY DEF WorkspaceInit
<1>2. [WorkspaceNext]_workspaceVars => [CrawlNext]_crawlVars
  <2> SUFFICES ASSUME [WorkspaceNext]_workspaceVars PROVE [CrawlNext]_crawlVars
    OBVIOUS
  <2>1. CASE CrawlBegins \/ CrawlMoves \/ CrawlEnds
    BY <2>1 DEF CrawlBegins, CrawlMoves, CrawlEnds, CrawlNext
  <2>2. CASE PageImported \/ PageRefused
    BY <2>2 DEF PageImported, PageRefused, CrawlNext
  <2>3. CASE Killed
    BY <2>3 DEF Killed, CrawlNext
  <2>4. CASE StoreMoves \/ PageFetched \/ UNCHANGED workspaceVars
    BY <2>4 DEF StoreMoves, PageFetched, workspaceVars
  <2> QED
    BY <2>1, <2>2, <2>3, <2>4 DEF WorkspaceNext
<1>3. QED
  BY <1>1, <1>2, PTL DEF WorkspaceSpec, CrawlSpec

\* A documentation crawl in a workspace, however far the import of a page had got
\* when it was killed, loses no link, walks breadth first and keeps within its
\* limits (run).
THEOREM WorkspaceCrawl ==
  WorkspaceSpec => [](NoLinkLost /\ ShortestDepth /\ WithinLimits)
BY WorkspaceKeepsCrawl, LinksAreKept, WalkIsBreadthFirst, LimitsAreKept, PTL

\* What the crawler and the store know of each other: the page being imported is
\* that of the crawler's item, and what the crawler calls ledgered has a line.
HasLine(u) == \E i \in DOMAIN ledger : ledger[i].source = u

WorkspaceInv ==
  /\ crawl.on /\ collected < Len(selection) =>
       collected + 1 = Len(selection) /\ selection[collected + 1].source = item.url
  /\ \A u \in ledgered : HasLine(u)

LEMMA WorkspaceStep ==
  ASSUME StoreInv, WorkspaceInv, [WorkspaceNext]_workspaceVars
  PROVE  WorkspaceInv'
<1> DEFINE Importing == crawl.on /\ collected < Len(selection) =>
                          collected + 1 = Len(selection) /\ selection[collected + 1].source = item.url
           AllLined  == \A u \in ledgered : HasLine(u)
<1>0. TypeOK /\ Jobs /\ Len(selection) \in Nat /\ collected \in 0 .. Len(selection) /\ [Next]_vars
  <2>1. [Next]_vars
    BY DEF WorkspaceNext, workspaceVars, StoreMoves, CrawlBegins, CrawlMoves, CrawlEnds,
           PageFetched, PageImported, PageRefused, Killed, Next
  <2> QED
    BY <2>1, LenProperties DEF StoreInv, TypeOK
<1>1. /\ WorkspaceInv <=> Importing /\ AllLined
      /\ WorkspaceInv' <=> Importing' /\ AllLined'
  BY DEF WorkspaceInv
<1>2. \A u : HasLine(u) => HasLine(u)'
  <2>1. \A i \in DOMAIN ledger : i \in DOMAIN ledger' /\ ledger'[i] = ledger[i]
    BY <1>0, LedgerGrows
  <2> QED
    BY <2>1 DEF HasLine
<1>3. UNCHANGED ledgered => AllLined'
  BY <1>1, <1>2
<1>4. UNCHANGED <<crawl, collected, selection, session>> => Importing'
  BY <1>1 DEF item
<1>5. ~ crawl'.on \/ collected' = Len(selection') => Importing'
  <2>1. Len(selection') \in Nat
    BY <1>0, TypeStep, LenProperties DEF TypeOK
  <2> QED
    BY <2>1
<1>6. CASE StoreMoves
  <2>1. UNCHANGED <<ledgered, session>>
    BY <1>6 DEF StoreMoves, crawlVars
  <2>2. ASSUME NEW files, files \in Selections, ImportFolder(files) PROVE ~ crawl'.on
    BY <2>2 DEF ImportFolder, BeginImport, NoCrawl
  <2>3. ASSUME Collect PROVE ~ crawl'.on
    BY <2>3 DEF Collect
  <2>4. ASSUME NEW w \in Workers, Step(w) PROVE UNCHANGED <<crawl, collected, selection>>
    <3>1. Take(w) \/ Refuse(w) \/ Move(w) \/ ExtractFails(w) \/ AppendLedger(w)
      BY <2>4 DEF Step, Move
    <3> QED
      BY <1>0, <3>1, MoveGoes DEF Take, Refuse, ExtractFails, AppendLedger, pool
  <2>5. ASSUME ListNext PROVE ~ crawl'.on
    <3>1. crawl.left > 0 /\ crawl'.on = crawl.on
      BY <1>0, <2>5 DEF ListNext, TypeOK
    <3>2. ~ crawl.on
      BY <1>0, <3>1 DEF StoreInv, Listed, TypeOK
    <3> QED
      BY <3>1, <3>2
  <2>6. Importing'
    BY <1>4, <1>5, <1>6, <2>1, <2>2, <2>3, <2>4, <2>5 DEF StoreMoves
  <2> QED
    BY <1>1, <1>3, <2>1, <2>6
<1>7. CASE CrawlBegins
  <2>1. selection' = <<>> /\ collected' = 0
    BY <1>7 DEF CrawlBegins, BeginCrawl, BeginImport
  <2>2. UNCHANGED ledgered
    BY <1>7 DEF CrawlBegins, CrawlStart, CrawlResume, Begin
  <2>3. Len(selection') = 0
    BY <2>1, EmptySeq
  <2> QED
    BY <1>1, <1>3, <1>5, <2>1, <2>2, <2>3
<1>8. CASE CrawlMoves
  <2>1. collected = Len(selection) /\ UNCHANGED <<collected, selection>>
    BY <1>8 DEF CrawlMoves, vars, pool
  <2>2. UNCHANGED ledgered
    BY <1>8 DEF CrawlMoves, Skip, Reject, FetchFails, ImportFails, End, Truncate, Write
  <2> QED
    BY <1>1, <1>3, <1>5, <2>1, <2>2
<1>9. CASE PageFetched
  <2>1. PICK p \in Pages : p.source = item.url /\ FetchPage(p)
    BY <1>9 DEF PageFetched
  <2>2. UNCHANGED <<ledgered, session, collected>> /\ collected = Len(selection)
    BY <1>9, <2>1 DEF PageFetched, crawlVars, FetchPage
  <2>3. /\ Len(selection') = Len(selection) + 1
        /\ selection'[Len(selection')] = Stamped(p)
    BY <1>0, <2>1, PageAdded
  <2>4. Stamped(p).source = p.source
    <3>1. p \in File
      BY StoreAssumption
    <3> QED
      BY <3>1 DEF Stamped, File
  <2>5. collected' + 1 = Len(selection') /\ selection'[collected' + 1].source = item.url
    BY <1>0, <2>1, <2>2, <2>3, <2>4
  <2>6. Importing'
    BY <2>2, <2>5 DEF item
  <2> QED
    BY <1>1, <1>3, <2>2, <2>6
<1>10. CASE PageImported
  <2>1. /\ crawl.on /\ collected < Len(selection) /\ outcome[collected + 1] = "ok"
        /\ collected' = collected + 1 /\ UNCHANGED <<crawl, selection>>
    BY <1>10 DEF PageImported, PageDone, pool
  <2>2. collected + 1 = Len(selection) /\ selection[collected + 1].source = item.url
    BY <1>1, <2>1
  <2>3. OnLedger(selection[collected + 1])
    BY <1>0, <2>1, <2>2 DEF StoreInv, Listed
  <2>4. HasLine(item.url)
    BY <2>2, <2>3 DEF OnLedger, HasLine
  <2>5. ledgered' = ledgered \cup {item.url}
    BY <1>10 DEF PageImported, Visit, LinkBreaks
  <2>6. AllLined'
    <3> SUFFICES ASSUME NEW u \in ledgered' PROVE HasLine(u)'
      OBVIOUS
    <3>1. HasLine(u)
      BY <1>1, <2>4, <2>5
    <3> QED
      BY <1>2, <3>1
  <2> QED
    BY <1>1, <1>5, <2>1, <2>2, <2>6
<1>11. CASE PageRefused
  <2>1. /\ crawl.on /\ collected < Len(selection)
        /\ collected' = collected + 1 /\ UNCHANGED <<crawl, selection>>
    BY <1>11 DEF PageRefused, PageDone, pool
  <2>2. UNCHANGED ledgered
    BY <1>11 DEF PageRefused, ImportFails
  <2> QED
    BY <1>1, <1>3, <1>5, <2>1, <2>2
<1>12. CASE CrawlEnds
  <2>1. ~ crawl'.on
    BY <1>12 DEF CrawlEnds, ListLedger, EndUnlisted, NoCrawl
  <2>2. UNCHANGED ledgered
    BY <1>12 DEF CrawlEnds, Write
  <2> QED
    BY <1>1, <1>3, <1>5, <2>1, <2>2
<1>13. CASE Killed
  <2>1. ~ crawl'.on
    BY <1>13 DEF Killed, Crash, NoCrawl
  <2>2. UNCHANGED ledgered
    BY <1>13 DEF Killed, Kill, crawlVars
  <2> QED
    BY <1>1, <1>3, <1>5, <2>1, <2>2
<1>14. CASE UNCHANGED workspaceVars
  BY <1>1, <1>3, <1>4, <1>14 DEF workspaceVars, vars, crawlVars, pool
<1> QED
  BY <1>6, <1>7, <1>8, <1>9, <1>10, <1>11, <1>12, <1>13, <1>14 DEF WorkspaceNext

\* A page the session calls fetched has its line on the ledger and its records file
\* in the store, in memory as on disk, wherever the crawl or a folder import was
\* killed: whoever resumes the crawl does not fetch it again (run, import_bytes).
THEOREM FetchedIsStaged == WorkspaceSpec => []FetchedStaged
<1>1. WorkspaceInit => WorkspaceInv
  BY DEF WorkspaceInit, WorkspaceInv, Init, CrawlInit, NoCrawl
<1>2. StoreInv /\ WorkspaceInv /\ [WorkspaceNext]_workspaceVars => WorkspaceInv'
  BY WorkspaceStep
<1>3. WorkspaceSpec => []StoreInv
  BY WorkspaceKeepsStore, StoreInvariance, PTL
<1>4. WorkspaceSpec => []WorkspaceInv
  BY <1>1, <1>2, <1>3, PTL DEF WorkspaceSpec
<1>5. StoreInv /\ WorkspaceInv /\ FetchedOnLedger => FetchedStaged
  <2> SUFFICES ASSUME StoreInv, WorkspaceInv, FetchedOnLedger,
                      NEW s \in Sessions, NEW u \in UrlsOf(s.fetched)
               PROVE  \E i \in DOMAIN ledger :
                        ledger[i].source = u /\ records[ledger[i].content] # "absent"
    BY DEF FetchedStaged
  <2>1. HasLine(u)
    BY DEF FetchedOnLedger, WorkspaceInv
  <2> QED
    BY <2>1 DEF HasLine, StoreInv, Staged
<1> QED
  BY <1>3, <1>4, <1>5, WorkspaceKeepsCrawl, FetchedIsLedgered, PTL

================================================================================
