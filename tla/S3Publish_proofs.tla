-------------------------- MODULE S3Publish_proofs --------------------------
(***************************************************************************)
(* Proofs, for every set of names, digests and candidates, of what the     *)
(* runs of S3Publish check on three names: type correctness, the safety    *)
(* invariants, the action property and the refinement of ManifestRelease.  *)
(*                                                                         *)
(* PublishedNeverRemoved is not inductive: that cleanup spares the         *)
(* manifest's files rests on the relisting having been taken against the   *)
(* candidate that is now in force, which in turn rests on the candidate    *)
(* having been read back before it was put in force.  IInv carries these   *)
(* facts from one stage of the job to the next.                            *)
(***************************************************************************)
EXTENDS S3Publish, TLAPS

(* The stages in which the job's candidate is built.                       *)
Built == {"upload", "validate", "publish", "relist", "cleanup", "succeeded"}

(* The stages after manifest.json was replaced.                            *)
Committed == {"relist", "cleanup", "succeeded"}

PlanBuilt == pc \in Built => plan \in Plans

CandidateRead == pc \in {"publish"} \cup Committed => Verifies(plan)

CandidateInForce == pc \in Committed => manifest = plan

CleanupSpares == pc = "cleanup" => stale \cap DOMAIN plan = {}

CleanupCovers == pc = "cleanup" => Stored \subseteq DOMAIN plan \cup stale

NothingElse == pc = "succeeded" => Stored \subseteq DOMAIN plan

IInv == /\ TypeOK
        /\ PlanBuilt
        /\ CandidateRead
        /\ CandidateInForce
        /\ CleanupSpares
        /\ CleanupCovers
        /\ NothingElse
        /\ PublishedNeverRemoved

-----------------------------------------------------------------------------
(* A candidate whose files verify has all of its files in the store:       *)
(* absence is no digest.                                                   *)
LEMMA VerifiedIsStored ==
  ASSUME NEW p \in Plans, Verifies(p)
  PROVE  DOMAIN p \subseteq Stored
BY PublishAssumption DEF Verifies, Stored, Objects

(* Every action leaves the variables in their types.                       *)
LEMMA TypeStep == TypeOK /\ [Next]_vars => TypeOK'
<1> SUFFICES ASSUME TypeOK, [Next]_vars PROVE TypeOK'
  OBVIOUS
<1> USE PublishAssumption DEF TypeOK
<1>1. CASE Start
  BY <1>1 DEF Start, Stages, Broken, Running, Stored, world
<1>2. CASE Build
  BY <1>2 DEF Build, Stages, Broken, Running
<1>3. CASE CloseOutput
  BY <1>3 DEF CloseOutput, Stages, Broken, Running
<1>4. CASE Validate
  BY <1>4 DEF Validate, Stages, Broken, Running
<1>5. CASE PutManifest
  <2>1. manifest' \in Plans \cup {Absent}
    BY <1>5 DEF PutManifest
  <2> QED
    BY <1>5, <2>1 DEF PutManifest, Stages, Broken, Running
<1>6. CASE Relist
  BY <1>6 DEF Relist, Stages, Broken, Running, Stored
<1>7. CASE Succeed
  BY <1>7 DEF Succeed, Stages, Broken, Running
<1>8. ASSUME NEW n \in Names, DeleteStale(n) PROVE TypeOK'
  BY <1>8 DEF DeleteStale
<1>9. ASSUME NEW n \in Names, NEW kept \in Objects, Upload(n, kept)
      PROVE  TypeOK'
  BY <1>9 DEF Upload
<1>10. CASE Fail
  BY <1>10 DEF Fail, Stages, Broken, Running
<1>11. CASE UNCHANGED vars
  BY <1>11 DEF vars
<1> QED
  BY <1>1, <1>2, <1>3, <1>4, <1>5, <1>6, <1>7, <1>8, <1>9, <1>10, <1>11
  DEF Next, JobStep

(* Type correctness: every reachable state of the job and the prefix is    *)
(* well formed, and manifest.json is only ever a whole candidate.          *)
THEOREM TypeCorrect == Spec => []TypeOK
<1>1. Init => TypeOK
  BY PublishAssumption DEF Init, TypeOK, Stages, Broken, Objects
<1> QED
  BY <1>1, TypeStep, PTL DEF Spec

-----------------------------------------------------------------------------
(* Start takes the prefix as it is; it reads the names and writes nothing. *)
LEMMA StartStep == IInv /\ Start => IInv'
<1> SUFFICES ASSUME IInv, Start PROVE IInv'
  OBVIOUS
<1>1. TypeOK'
  BY TypeStep DEF IInv, Next
<1>2. pc' = "build" /\ store' = store /\ manifest' = manifest
  BY DEF Start, world
<1>3. PublishedNeverRemoved'
  BY <1>2 DEF IInv, PublishedNeverRemoved, Stored
<1> QED
  BY <1>1, <1>2, <1>3
  DEF IInv, PlanBuilt, CandidateRead, CandidateInForce, CleanupSpares,
      CleanupCovers, NothingElse, Built, Committed

(* The steps that move the job on and leave the prefix alone.              *)
LEMMA QuietStep ==
  ASSUME IInv, Build \/ CloseOutput \/ Validate \/ Relist \/ Succeed \/ Fail
  PROVE  IInv'
<1>1. TypeOK'
  BY TypeStep DEF IInv, Next, JobStep
<1>2. store' = store /\ manifest' = manifest
  BY DEF Build, CloseOutput, Validate, Relist, Succeed, Fail
<1>3. PublishedNeverRemoved'
  BY <1>2 DEF IInv, PublishedNeverRemoved, Stored
<1> USE DEF IInv, PlanBuilt, CandidateRead, CandidateInForce, CleanupSpares,
            CleanupCovers, NothingElse, Built, Committed
<1>4. CASE Build
  BY <1>1, <1>3, <1>4 DEF Build
<1>5. CASE CloseOutput
  BY <1>1, <1>3, <1>5 DEF CloseOutput
<1>6. CASE Validate
  BY <1>1, <1>2, <1>3, <1>6 DEF Validate, CandidateValid, Verifies
<1>7. CASE Relist
  BY <1>1, <1>2, <1>3, <1>7 DEF Relist, Verifies, Stored
<1>8. CASE Succeed
  BY <1>1, <1>2, <1>3, <1>8 DEF Succeed, Verifies, Stored
<1>9. CASE Fail
  BY <1>1, <1>3, <1>9 DEF Fail
<1> QED
  BY <1>4, <1>5, <1>6, <1>7, <1>8, <1>9

(* An upload only adds objects: nothing the manifest names disappears.     *)
LEMMA UploadStep ==
  ASSUME IInv, NEW n \in Names, NEW kept \in Objects, Upload(n, kept)
  PROVE  IInv'
<1>1. TypeOK'
  BY TypeStep DEF IInv, Next, JobStep
<1>2. Stored \subseteq Stored'
  BY PublishAssumption DEF Upload, Stored, IInv, TypeOK
<1>3. PublishedNeverRemoved'
  BY <1>2 DEF Upload, IInv, PublishedNeverRemoved
<1>4. pc = "upload" /\ pc' = "upload" /\ plan' = plan
  BY DEF Upload
<1> QED
  BY <1>1, <1>3, <1>4
  DEF IInv, PlanBuilt, CandidateRead, CandidateInForce, CleanupSpares,
      CleanupCovers, NothingElse, Built, Committed

(* The manifest is replaced by a candidate that was read back.             *)
LEMMA PutManifestStep == IInv /\ PutManifest => IInv'
<1> SUFFICES ASSUME IInv, PutManifest PROVE IInv'
  OBVIOUS
<1>1. TypeOK'
  BY TypeStep DEF IInv, Next, JobStep
<1>2. /\ pc = "publish" /\ pc' = "relist"
      /\ manifest' = plan /\ plan' = plan /\ store' = store
  BY DEF PutManifest
<1>3. plan \in Plans /\ Verifies(plan)
  BY <1>2 DEF IInv, PlanBuilt, CandidateRead, Built
<1>4. PublishedNeverRemoved'
  BY <1>2, <1>3, VerifiedIsStored DEF PublishedNeverRemoved, Stored
<1> QED
  BY <1>1, <1>2, <1>3, <1>4
  DEF IInv, PlanBuilt, CandidateRead, CandidateInForce, CleanupSpares,
      CleanupCovers, NothingElse, Built, Committed, Verifies

(* Cleanup deletes an object that the manifest in force does not name.     *)
LEMMA DeleteStep ==
  ASSUME IInv, NEW n \in Names, DeleteStale(n)
  PROVE  IInv'
<1>1. TypeOK'
  BY TypeStep DEF IInv, Next, JobStep
<1>2. /\ pc = "cleanup" /\ pc' = "cleanup"
      /\ manifest' = manifest /\ plan' = plan
      /\ n \in stale /\ stale' = stale \ {n}
      /\ store' = [store EXCEPT ![n] = Absent]
  BY DEF DeleteStale
<1>3. manifest = plan /\ n \notin DOMAIN plan
  BY <1>2 DEF IInv, CandidateInForce, CleanupSpares, Committed
<1>4. Stored' = Stored \ {n}
  BY <1>2 DEF Stored, IInv, TypeOK
<1>5. PublishedNeverRemoved'
  BY <1>2, <1>3, <1>4 DEF IInv, PublishedNeverRemoved
<1>6. Verifies(plan)'
  <2>1. plan \in Plans /\ Verifies(plan)
    BY <1>2 DEF IInv, PlanBuilt, CandidateRead, Built, Committed
  <2> QED
    BY <1>2, <1>3, <2>1, PublishAssumption DEF Verifies, IInv, TypeOK
<1>7. CleanupSpares' /\ CleanupCovers'
  BY <1>2, <1>4 DEF IInv, CleanupSpares, CleanupCovers
<1> QED
  BY <1>1, <1>2, <1>3, <1>5, <1>6, <1>7
  DEF IInv, PlanBuilt, CandidateRead, CandidateInForce, NothingElse, Built,
      Committed

(* The strengthened invariant holds of every reachable state.              *)
THEOREM Inductive == Spec => []IInv
<1>1. Init => IInv
  <2> SUFFICES ASSUME Init PROVE IInv
    OBVIOUS
  <2>1. TypeOK
    BY PublishAssumption DEF Init, TypeOK, Stages, Broken, Objects
  <2> QED
    BY <2>1
    DEF Init, IInv, PlanBuilt, CandidateRead, CandidateInForce,
        CleanupSpares, CleanupCovers, NothingElse, Built, Committed,
        PublishedNeverRemoved
<1>2. IInv /\ [Next]_vars => IInv'
  <2> SUFFICES ASSUME IInv, [Next]_vars PROVE IInv'
    OBVIOUS
  <2>1. CASE UNCHANGED vars
    BY <2>1
    DEF vars, IInv, TypeOK, PlanBuilt, CandidateRead, CandidateInForce,
        CleanupSpares, CleanupCovers, NothingElse, PublishedNeverRemoved,
        Verifies, Stored
  <2> QED
    BY <2>1, StartStep, QuietStep, UploadStep, PutManifestStep, DeleteStep
    DEF Next, JobStep
<1> QED
  BY <1>1, <1>2, PTL DEF Spec

(* No interleaving of uploads, failures, retries and cleanups removes an   *)
(* object that the manifest in force names.                                *)
THEOREM NeverRemoved == Spec => []PublishedNeverRemoved
<1>1. IInv => PublishedNeverRemoved
  BY DEF IInv
<1> QED
  BY <1>1, Inductive, PTL

(* A job that reports success leaves its own release and nothing else.     *)
THEOREM SuccessExact == Spec => []SuccessIsExact
<1>1. IInv => SuccessIsExact
  <2> SUFFICES ASSUME IInv, pc = "succeeded"
               PROVE  manifest = plan /\ Verifies(manifest)
                      /\ Stored = DOMAIN manifest
    BY DEF SuccessIsExact
  <2>1. plan \in Plans /\ manifest = plan /\ Verifies(plan)
    BY DEF IInv, PlanBuilt, CandidateRead, CandidateInForce, Built, Committed
  <2> QED
    BY <2>1, VerifiedIsStored DEF IInv, NothingElse
<1> QED
  BY <1>1, Inductive, PTL

-----------------------------------------------------------------------------
(* What a consumer is served by each kind of step: an upload may take the  *)
(* release away or complete it again, the manifest puts the candidate in   *)
(* service, and every other step leaves the service as it is.              *)
LEMMA ServedByUpload ==
  ASSUME IInv, NEW n \in Names, NEW kept \in Objects, Upload(n, kept)
  PROVE  Served' \in {Absent, manifest}
BY DEF Upload, Served

LEMMA ServedByManifest == IInv /\ PutManifest => Served' = plan /\ plan \in Plans
<1> SUFFICES ASSUME IInv, PutManifest PROVE Served' = plan /\ plan \in Plans
  OBVIOUS
<1>1. plan \in Plans /\ Verifies(plan)
  BY DEF PutManifest, IInv, PlanBuilt, CandidateRead, Built
<1>2. manifest' = plan /\ store' = store
  BY DEF PutManifest
<1> QED
  BY <1>1, <1>2, PublishAssumption DEF Served, Verifies

LEMMA ServedByDelete ==
  ASSUME IInv, NEW n \in Names, DeleteStale(n)
  PROVE  Served' = Served
<1>1. /\ manifest = plan /\ plan \in Plans /\ Verifies(plan)
      /\ n \notin DOMAIN plan
  BY DEF DeleteStale, IInv, PlanBuilt, CandidateRead, CandidateInForce,
         CleanupSpares, Built, Committed
<1>2. manifest' = manifest /\ store' = [store EXCEPT ![n] = Absent]
  BY DEF DeleteStale
<1>3. Verifies(manifest)'
  BY <1>1, <1>2, PublishAssumption DEF Verifies, IInv, TypeOK
<1> QED
  BY <1>1, <1>2, <1>3 DEF Served

LEMMA ServedByOthers ==
  ASSUME UNCHANGED world
  PROVE  Served' = Served
BY DEF world, Served, Verifies

(* A release goes out of service only while a later job uploads.           *)
THEOREM UploadsOnly == Spec => OnlyUploadsDisturb
<1> DEFINE Disturbing == Served # Absent /\ Served' = Absent => pc = "upload"
<1>1. IInv /\ [Next]_vars => [Disturbing]_vars
  <2> SUFFICES ASSUME IInv, [Next]_vars PROVE Disturbing
    OBVIOUS
  <2>1. CASE PutManifest
    BY <2>1, ServedByManifest, PublishAssumption
  <2>2. ASSUME NEW n \in Names, DeleteStale(n) PROVE Disturbing
    BY <2>2, ServedByDelete
  <2>3. ASSUME NEW n \in Names, NEW kept \in Objects, Upload(n, kept)
        PROVE  Disturbing
    BY <2>3 DEF Upload
  <2>4. CASE UNCHANGED world
    BY <2>4, ServedByOthers
  <2>5. Start \/ Build \/ CloseOutput \/ Validate \/ Relist \/ Succeed \/ Fail
          => UNCHANGED world
    BY DEF Start, Build, CloseOutput, Validate, Relist, Succeed, Fail, world
  <2>6. UNCHANGED vars => UNCHANGED world
    BY DEF vars, world
  <2> HIDE DEF Disturbing
  <2> QED
    BY <2>1, <2>2, <2>3, <2>4, <2>5, <2>6 DEF Next, JobStep
<1> QED
  BY <1>1, Inductive, PTL DEF Spec, OnlyUploadsDisturb

(* The refinement, step by step: the lock-free job on an object store is a *)
(* publisher that commits whole releases and succeeds only with its own in *)
(* service.                                                                *)
LEMMA AbstractStep == IInv /\ [Next]_vars => [Abstract!Next]_(Abstract!vars)
<1> SUFFICES ASSUME IInv, [Next]_vars
             PROVE  [Abstract!Next]_(Abstract!vars)
  OBVIOUS
<1> USE DEF Abstract!vars
<1>1. CASE Start
  <2>1. UNCHANGED world /\ pc \notin Running /\ pc' \in Running
    BY <1>1 DEF Start, Running
  <2> QED
    BY <2>1, ServedByOthers DEF Abstract!Next, Abstract!Begin, world
<1>2. CASE Build \/ CloseOutput \/ Relist
  <2>1. UNCHANGED world /\ pc \in Running /\ pc' \in Running
    BY <1>2 DEF Build, CloseOutput, Relist, world, Running
  <2> QED
    BY <2>1, ServedByOthers DEF world
<1>3. CASE Validate \/ Fail
  <2>1. UNCHANGED world /\ pc \in Running
    BY <1>3 DEF Validate, Fail, world, Running
  <2>2. CASE pc' \in Running
    BY <2>1, <2>2, ServedByOthers DEF world
  <2>3. CASE pc' \notin Running
    BY <2>1, <2>3, ServedByOthers DEF Abstract!Next, Abstract!Abandon, world
  <2> QED
    BY <2>2, <2>3
<1>4. CASE PutManifest
  <2>1. manifest' = plan /\ pc \in Running /\ pc' \in Running
    BY <1>4 DEF PutManifest, Running
  <2>2. Abstract!Commit(plan)
    BY <1>4, <2>1, ServedByManifest DEF Abstract!Commit
  <2> QED
    BY <1>4, <2>2, ServedByManifest DEF Abstract!Next
<1>5. CASE Succeed
  <2>1. UNCHANGED world /\ pc \in Running /\ pc' \notin Running
    BY <1>5 DEF Succeed, Running, world
  <2>2. manifest \in Plans /\ Verifies(manifest)
    BY <1>5 DEF Succeed, IInv, PlanBuilt, CandidateRead, CandidateInForce,
                Built, Committed
  <2>3. Served = manifest
    BY <2>2, PublishAssumption DEF Served
  <2> QED
    BY <2>1, <2>2, <2>3, ServedByOthers
    DEF Abstract!Next, Abstract!Succeed, world
<1>6. ASSUME NEW n \in Names, DeleteStale(n)
      PROVE  [Abstract!Next]_(Abstract!vars)
  BY <1>6, ServedByDelete DEF DeleteStale, Running
<1>7. ASSUME NEW n \in Names, NEW kept \in Objects, Upload(n, kept)
      PROVE  [Abstract!Next]_(Abstract!vars)
  <2>1. manifest' = manifest /\ pc \in Running /\ pc' = pc
    BY <1>7 DEF Upload, Running
  <2>2. CASE Served' = Absent
    BY <2>1, <2>2 DEF Abstract!Next, Abstract!Disturb
  <2>3. CASE Served' = manifest
    BY <2>1, <2>3 DEF Abstract!Next, Abstract!Restore
  <2> QED
    BY <1>7, <2>2, <2>3, ServedByUpload
<1>8. CASE UNCHANGED vars
  <2>1. UNCHANGED world /\ pc' = pc
    BY <1>8 DEF vars, world
  <2> QED
    BY <2>1, ServedByOthers DEF world
<1> QED
  BY <1>1, <1>2, <1>3, <1>4, <1>5, <1>6, <1>7, <1>8 DEF Next, JobStep

(* The S3 job implements the abstract publisher of ManifestRelease.        *)
THEOREM Refinement == Spec => ImplementsRelease
<1>1. Init => Abstract!Init
  BY DEF Init, Abstract!Init, Served, Running
<1> QED
  BY <1>1, AbstractStep, Inductive, PTL DEF Spec, ImplementsRelease, Abstract!Spec
=============================================================================
