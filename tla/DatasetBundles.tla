---------------------------- MODULE DatasetBundles ----------------------------
(***************************************************************************)
(* Dataset bundles (python/spaceslug/dataset.py) and what the desktop      *)
(* controller makes of them (controller.py, create_dataset,                *)
(* import_dataset_bundle, start_training): a canonical bundle of the       *)
(* imports, named by the dataset id, and a training bundle derived from    *)
(* it, named after its file.  A bundle is a directory whose manifest is    *)
(* written last; everything that uses one verifies it first, and fails on  *)
(* one without a whole manifest.  All of it runs on the UI thread.         *)
(***************************************************************************)
EXTENDS Integers, FiniteSets

CONSTANTS
  Sources,      \* what may be imported
  Texts,        \* those with text to train on
  Names,        \* dataset ids the user enters
  DefaultName,
  Dirs,         \* dataset directories the user chooses
  MaxSuffixes,  \* bound: "-train" suffixes of the dataset id of a new bundle
  MaxBundles,   \* bound: bundles begun
  ShellKills    \* bound: process kills

ASSUME BundlesAssumption ==
  /\ Texts \subseteq Sources /\ DefaultName \in Names
  /\ MaxSuffixes \in Nat /\ MaxBundles \in Nat /\ ShellKills \in Nat

VARIABLES
  sources,    \* what the controller has imported
  dataset,    \* dataset_id
  dir,        \* paths.dataset_dir
  bundles,    \* every bundle on disk
  created,    \* created_bundle
  training,   \* training_bundle_path
  making,     \* the bundle create_bundle is writing, if any
  trained,    \* what the last training run was started with
  kept,       \* history: training was in place before created was
  shellKills

bundleVars == <<sources, dataset, dir, bundles, created, training, making, trained, kept, shellKills>>

-----------------------------------------------------------------------------
\* A dataset id: a name, and how many times "-train" was appended to it.
Ids == [name : Names, suffixes : 0 .. MaxSuffixes]

\* <dir>/<id>.dts, or <dir>/<id>.dts-train.dts.
Path(d, i, t) == [dir |-> d, id |-> i, derived |-> t]
Paths == [dir : Dirs, id : Ids, derived : BOOLEAN]

CanonicalPath == Path(dir, dataset, FALSE)
TrainPath(p) == Path(dir, p.id, TRUE)

\* The dataset id in the manifest of the bundle at p.
IdOf(p) == IF p.derived THEN [p.id EXCEPT !.suffixes = @ + 1] ELSE p.id

NoPath     == [dir |-> "none"]
Absent     == [state |-> "absent"]
Partial    == [state |-> "partial"]
Whole(d)   == [state |-> "whole", data |-> d]
NotMaking  == [path |-> NoPath]
NotTrained == [data |-> {}, chosen |-> NoPath, kept |-> FALSE]

\* verify_bundle succeeds.
Verified(p) == p # NoPath /\ bundles[p].state = "whole"

BundlesInit ==
  /\ sources = {} /\ dataset = [name |-> DefaultName, suffixes |-> 0] /\ dir \in Dirs
  /\ bundles = [p \in Paths |-> Absent]
  /\ created = NoPath /\ training = NoPath /\ making = NotMaking
  /\ trained = NotTrained /\ kept = FALSE /\ shellKills = 0

-----------------------------------------------------------------------------
\* The UI thread takes the next event.
Event == making = NotMaking /\ UNCHANGED <<making, shellKills>>

ImportSource ==
  /\ Event
  /\ \E s \in Sources \ sources : sources' = sources \cup {s}
  /\ UNCHANGED <<dataset, dir, bundles, created, training, trained, kept>>

SetDatasetId ==
  /\ Event
  /\ \E n \in Names : dataset' = [name |-> n, suffixes |-> 0]
  /\ UNCHANGED <<sources, dir, bundles, created, training, trained, kept>>

\* With a new workspace root the imports go too.
SetWorkspacePaths ==
  /\ Event
  /\ dir' \in Dirs /\ sources' \in {sources, {}}
  /\ created' = NoPath /\ training' = NoPath /\ kept' = FALSE
  /\ UNCHANGED <<dataset, bundles, trained>>

\* Mutant: a canonical bundle leaves the training bundle in place.
ImportBundleKeeping ==
  /\ Event
  /\ \E p \in Paths :
       /\ Verified(p) /\ IdOf(p) \in Ids
       /\ created' = p /\ dataset' = IdOf(p)
       /\ training' = IF p.derived THEN p ELSE training
  /\ kept' = FALSE
  /\ UNCHANGED <<sources, dir, bundles, trained>>

\* import_dataset_bundle, from whichever directory.
ImportBundle ==
  /\ Event
  /\ \E p \in Paths :
       /\ Verified(p) /\ IdOf(p) \in Ids
       /\ created' = p /\ dataset' = IdOf(p)
       /\ training' = IF p.derived THEN p ELSE NoPath
  /\ kept' = FALSE
  /\ UNCHANGED <<sources, dir, bundles, trained>>

\* create_bundle makes the directory, and refuses one that exists.
Make(p, data) ==
  /\ making = NotMaking
  /\ bundles[p] = Absent /\ Cardinality({q \in Paths : bundles[q] # Absent}) < MaxBundles
  /\ bundles' = [bundles EXCEPT ![p] = Partial]
  /\ making' = [path |-> p, data |-> data]
  /\ UNCHANGED shellKills

\* create_dataset, when there is a bundle of that name,
ReuseDataset ==
  /\ Event /\ Verified(CanonicalPath)
  /\ created' = CanonicalPath
  /\ kept' = (training # NoPath /\ (kept \/ created # CanonicalPath))
  /\ UNCHANGED <<sources, dataset, dir, bundles, training, trained>>

\* Mutant: a bundle of that name is written again when the imports have changed.
CreateDatasetAnew ==
  /\ making = NotMaking /\ sources # {}
  /\ ~(Verified(CanonicalPath) /\ bundles[CanonicalPath].data = sources)
  /\ bundles' = [bundles EXCEPT ![CanonicalPath] = Partial]
  /\ making' = [path |-> CanonicalPath, data |-> sources]
  /\ UNCHANGED <<sources, dataset, dir, created, training, trained, kept, shellKills>>

\* Mutant: the bundle is selected before it is written.
CreateDatasetEarly ==
  /\ sources # {}
  /\ Make(CanonicalPath, sources)
  /\ created' = CanonicalPath
  /\ UNCHANGED <<sources, dataset, dir, training, trained, kept>>

\* and when there is none and something to put into it.
CreateDataset ==
  /\ sources # {}
  /\ Make(CanonicalPath, sources)
  /\ UNCHANGED <<sources, dataset, dir, created, training, trained, kept>>

\* A training run is started with the bundle at p, c being the created one.
Run(p, c) ==
  trained' = [data |-> bundles'[p].data, chosen |-> c, kept |-> kept]

\* start_training with the training bundle in place, whatever was created since.
StartTraining ==
  /\ Event /\ training # NoPath
  /\ UNCHANGED bundles /\ Run(training, created)
  /\ UNCHANGED <<sources, dataset, dir, created, training, kept>>

\* Without one, a bundle of the name it would have is reused,
ReuseTrainingBundle ==
  /\ Event /\ training = NoPath /\ created # NoPath
  /\ Verified(TrainPath(created))
  /\ training' = TrainPath(created)
  /\ UNCHANGED bundles /\ Run(TrainPath(created), created)
  /\ UNCHANGED <<sources, dataset, dir, created, kept>>

\* Mutant: it is derived from the imports, which may have changed since.
BuildTrainingBundleFromImports ==
  /\ training = NoPath /\ Verified(created)
  /\ bundles[created].data \cap Texts # {}
  /\ Make(TrainPath(created), sources)
  /\ UNCHANGED <<sources, dataset, dir, created, training, trained, kept>>

\* or derived from the created bundle, if that has any text.
BuildTrainingBundle ==
  /\ training = NoPath /\ Verified(created)
  /\ bundles[created].data \cap Texts # {}
  /\ Make(TrainPath(created), bundles[created].data)
  /\ UNCHANGED <<sources, dataset, dir, created, training, trained, kept>>

\* create_bundle writes the manifest and returns; a training run goes on to start.
Complete ==
  /\ making # NotMaking
  /\ bundles' = [bundles EXCEPT ![making.path] = Whole(making.data)]
  /\ making' = NotMaking
  /\ IF making.path.derived
     THEN /\ training' = making.path /\ Run(making.path, created)
          /\ UNCHANGED <<created, kept>>
     ELSE /\ created' = making.path /\ kept' = (training # NoPath)
          /\ UNCHANGED <<training, trained>>
  /\ UNCHANGED <<sources, dataset, dir, shellKills>>

\* A record without an id, or a disk error: the directory stays.
MakeFails ==
  /\ making # NotMaking
  /\ making' = NotMaking
  /\ UNCHANGED <<sources, dataset, dir, bundles, created, training, trained, kept, shellKills>>

\* The process is killed and started again; dataset_dir is in the settings.
KillShell ==
  /\ shellKills < ShellKills
  /\ shellKills' = shellKills + 1
  /\ sources' = {} /\ dataset' = [name |-> DefaultName, suffixes |-> 0]
  /\ created' = NoPath /\ training' = NoPath /\ making' = NotMaking
  /\ trained' = NotTrained /\ kept' = FALSE
  /\ UNCHANGED <<dir, bundles>>

BundlesNext ==
  \/ ImportSource \/ SetDatasetId \/ SetWorkspacePaths \/ ImportBundle
  \/ ReuseDataset \/ CreateDataset
  \/ StartTraining \/ ReuseTrainingBundle \/ BuildTrainingBundle
  \/ Complete \/ MakeFails
  \/ KillShell

BundlesSpec == BundlesInit /\ [][BundlesNext]_bundleVars

-----------------------------------------------------------------------------
\* Types: a training run has a created bundle to come from, and no bundle is
\* derived from a derived one.
BundlesTypeOK ==
  /\ sources \subseteq Sources /\ dataset \in Ids /\ dir \in Dirs
  /\ bundles \in [Paths -> {Absent, Partial} \cup {Whole(d) : d \in SUBSET Sources}]
  /\ created \in Paths \cup {NoPath} /\ training \in Paths \cup {NoPath}
  /\ making = NotMaking \/ making \in [path : Paths, data : SUBSET Sources]
  /\ training # NoPath => created # NoPath /\ training.derived
  /\ created # NoPath /\ created.derived => training # NoPath
  /\ shellKills \in 0 .. ShellKills

\* Whatever was interrupted, the controller's two paths name bundles that verify,
\* so that a run that was started does not fail on its dataset.
PathsVerified == \A p \in {created, training} : p = NoPath \/ Verified(p)

\* "Dataset IDs map to immutable bundle paths": once its manifest is written, a
\* bundle is never written again.
BundlesImmutable ==
  [][bundles' # bundles =>
       \A p \in Paths : Verified(p) => bundles'[p] = bundles[p]]_bundleVars

\* A training bundle holds all the records of a canonical bundle of its name, in
\* some dataset directory: never those of half of one, or of another dataset.
DerivedFromNamesake ==
  \A p \in Paths :
    p.derived /\ Verified(p) =>
      \E d \in Dirs :
        LET source == Path(d, p.id, FALSE)
        IN  Verified(source) /\ bundles[source].data = bundles[p].data

\* A run trains on the dataset the user selected, except that create_dataset leaves
\* an older training bundle in place, and that a training bundle is taken for that
\* of any bundle of its name, in whichever directory the user selected it.
TrainsOnSelection ==
  LET c == trained.chosen
  IN  \/ c = NoPath \/ trained.kept \/ trained.data = bundles[c].data
      \/ \E d \in Dirs \ {c.dir} : Verified(Path(d, c.id, FALSE))

=============================================================================
