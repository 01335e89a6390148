------------------------------- MODULE LabelJob -------------------------------
(***************************************************************************)
(* One S3 classification job after another on the same output prefix       *)
(* (label_jobs.py): read a published input release, stage its trajectories *)
(* against its digests, classify them in windows on a thread pool over a   *)
(* cache that outlives the job, and only then replace the objects of the   *)
(* output prefix, read each one back, put manifest.json, and delete what   *)
(* the first or a second listing shows beyond it.                          *)
(*                                                                         *)
(* The input prefix belongs to another job, which may publish again at any *)
(* time: reading it returns anything, and only digests tell.  A name       *)
(* stands for a trajectory and for its output file; an answer of the model *)
(* for accepted or failed.  One label job runs at a time.                  *)
(*                                                                         *)
(* A definition named Operation_Deviation is a deviation of Operation that *)
(* a property must detect; no specification uses it.                       *)
(***************************************************************************)
EXTENDS Naturals, FiniteSets

CONSTANTS Names,        \* top-level JSONL names, in sorted order
          Lineage,      \* the name of lineage.jsonl
          Digests,      \* contents of input objects
          Inputs,       \* input manifests: names to digests
          Configs,      \* classifier configurations, by config_hash
          WorkerCounts, \* max_workers settings
          Residue,      \* names of objects that are there before the first job
          OldRows,      \* keys of cache rows that violate the present contract
          Damaged,      \* content of an object the store did not keep intact
          Absent

ASSUME LabelAssumption ==
  /\ Names \subseteq Nat
  /\ Lineage \in Names
  /\ WorkerCounts \subseteq Nat \ {0}
  /\ Residue \subseteq Names
  /\ OldRows \subseteq Digests \X Inputs \X Configs
  /\ \A m \in Inputs : /\ DOMAIN m \subseteq Names
                       /\ Lineage \in DOMAIN m
                       /\ m \in [DOMAIN m -> Digests]

Trajectories(m) == DOMAIN m \ {Lineage}
Answers == {"accepted", "failed"}

(* A classified row: the content it was made of, the manifest and the      *)
(* configuration that its classification records, and the answer.          *)
Row(d, m, g, answer) == [of |-> d, input |-> m, config |-> g, status |-> answer]
Labelled == [of : Digests, input : Inputs, config : Configs, status : Answers]

(* A row of the cache: the content, manifest and configuration of its key. *)
Keys == Digests \X Inputs \X Configs

(* What a job may publish: the labelled trajectories and a copied lineage. *)
Labellings(m, g) ==
  {[n \in DOMAIN m |-> IF n = Lineage THEN m[n] ELSE Row(m[n], m, g, answers[n])] :
     answers \in [Trajectories(m) -> Answers]}
Outputs == UNION {Labellings(m, g) : m \in Inputs, g \in Configs}

ASSUME OutputAssumption == Absent \notin Outputs

VARIABLES store,        \* managed objects under the output prefix
          manifest,     \* the files of the output manifest.json
          cache,        \* keys with an accepted classification
          outdated,     \* keys whose row violates the present contract
          pc,
          workers,      \* max_workers of the job
          config,
          classifier,   \* the input manifest the classifier was made for
          input,        \* the input manifest of the job
          listed,       \* initial_output_paths
          staged,       \* content of the staged trajectories
          todo,         \* names the present stage has still to handle
          batch,        \* names of the window not yet collected
          task,         \* state of each classification
          answer,       \* its answer
          plan          \* the checked candidates, by output name

world == <<store, manifest>>
rows == <<cache, outdated>>
setup == <<workers, config, classifier, input, listed>>
work == <<staged, batch, task, answer, plan>>
vars == <<world, rows, pc, setup, todo, work>>

Running == {"read", "stage", "window", "collect", "drain", "lineage", "put",
            "readback", "publish", "relist", "cleanup"}
Broken  == {"failed", "rejected"}
Ended   == Broken \cup {"succeeded"}
Active  == {"calling", "storing"}
Tasks   == {"none", "queued", "done", "raised", "cancelled"} \cup Active

Stored == {n \in Names : store[n] # Absent}
Verifies(f) == \A n \in DOMAIN f : store[n] = f[n]

TypeOK ==
  /\ store \in [Names -> Labelled \cup Digests \cup {Damaged, Absent}]
  /\ manifest \in Outputs \cup {Absent}
  /\ cache \subseteq Keys /\ outdated \subseteq Keys \ cache
  /\ pc \in Running \cup Ended \cup {"idle"}
  /\ workers \in WorkerCounts /\ config \in Configs
  /\ {classifier, input} \subseteq Inputs \cup {Absent}
  /\ listed \subseteq Names
  /\ staged \in [Names -> Digests \cup {Absent}]
  /\ todo \subseteq Names /\ batch \subseteq Names
  /\ task \in [Names -> Tasks]
  /\ answer \in [Names -> Answers \cup {Absent}]
  /\ plan \in Outputs \cup {Absent}

Init ==
  /\ store = [n \in Names |-> IF n \in Residue THEN Damaged ELSE Absent]
  /\ manifest = Absent
  /\ cache = {} /\ outdated = OldRows
  /\ pc = "idle"
  /\ workers \in WorkerCounts /\ config \in Configs
  /\ classifier = Absent /\ input = Absent
  /\ todo = {} /\ batch = {} /\ listed = {}
  /\ staged = [n \in Names |-> Absent]
  /\ task = [n \in Names |-> "none"]
  /\ answer = [n \in Names |-> Absent]
  /\ plan = Absent

-----------------------------------------------------------------------------
First(S) == CHOOSE n \in S : \A m \in S : n <= m
FirstOf(S, k) == {n \in S : Cardinality({m \in S : m < n}) < k}

(* run_s3_label_job: a classifier for the input manifest of the moment.    *)
Start ==
  /\ pc \notin Running
  /\ pc' = "read"
  /\ workers' \in WorkerCounts /\ config' \in Configs
  /\ classifier' \in Inputs /\ input' = Absent
  /\ UNCHANGED <<world, rows, listed, todo, work>>

(* What a job knew goes with it.                                           *)
Forget ==
  /\ classifier' = Absent /\ input' = Absent /\ plan' = Absent
  /\ todo' = {} /\ batch' = {} /\ listed' = {}
  /\ staged' = [n \in Names |-> Absent]
  /\ answer' = [n \in Names |-> Absent]
  /\ UNCHANGED <<workers, config>>

NoTasks == task' = [n \in Names |-> "none"]

(* The manifest is read again, validated and compared; then the output     *)
(* prefix is listed.                                                       *)
ReadInput(m) ==
  /\ pc = "read"
  /\ m = classifier
  /\ input' = m
  /\ listed' = Stored
  /\ todo' = Trajectories(m) /\ pc' = "stage"
  /\ UNCHANGED <<world, rows, workers, config, classifier, work>>

Stage_AnyContent(n, d) ==
  /\ pc = "stage"
  /\ n \in todo
  /\ n = First(todo)
  /\ staged' = [staged EXCEPT ![n] = d]
  /\ todo' = todo \ {n}
  /\ UNCHANGED <<world, rows, pc, setup, batch, task, answer, plan>>

(* _stage_manifest_entry: the digest is known when the object is read.     *)
Stage(n, d) ==
  /\ pc = "stage"
  /\ n \in todo
  /\ n = First(todo)
  /\ d = input[n]
  /\ staged' = [staged EXCEPT ![n] = d]
  /\ todo' = todo \ {n}
  /\ UNCHANGED <<world, rows, pc, setup, batch, task, answer, plan>>

(* _assign_output_paths                                                    *)
AssignPaths ==
  /\ pc = "stage" /\ todo = {}
  /\ todo' = Trajectories(input)
  /\ pc' = IF todo' = {} THEN "lineage" ELSE "window"
  /\ UNCHANGED <<world, rows, setup, work>>

-----------------------------------------------------------------------------
(* executor.map over a window of two items per worker.                     *)
Submit ==
  /\ pc = "window"
  /\ batch' = FirstOf(todo, 2 * workers)
  /\ todo' = todo \ batch'
  /\ task' = [n \in Names |-> IF n \in batch' THEN "queued" ELSE task[n]]
  /\ pc' = "collect"
  /\ UNCHANGED <<world, rows, setup, staged, answer, plan>>

Queued == {n \in Names : task[n] = "queued"}
Busy   == {n \in Names : task[n] \in Active}
Key(n) == <<staged[n], classifier, config>>

Becomes(n, s) == task' = [task EXCEPT ![n] = s]
Answered(n, a) == answer' = [answer EXCEPT ![n] = a]

Take(n) == /\ n \in Queued /\ n = First(Queued)
           /\ Cardinality(Busy) < workers

Lookup_TrustsRow(n) ==
  /\ Take(n)
  /\ IF Key(n) \in cache \cup outdated
     THEN Becomes(n, "done") /\ Answered(n, "accepted")
     ELSE Becomes(n, "calling") /\ UNCHANGED answer
  /\ UNCHANGED <<world, rows, pc, setup, todo, staged, batch, plan>>

(* cache.get; a row that violates the contract is as good as none.         *)
Lookup(n) ==
  /\ Take(n)
  /\ IF Key(n) \in cache
     THEN Becomes(n, "done") /\ Answered(n, "accepted")
     ELSE Becomes(n, "calling") /\ UNCHANGED answer
  /\ UNCHANGED <<world, rows, pc, setup, todo, staged, batch, plan>>

(* classify: an accepted answer is cacheable, a failed one is not.         *)
Classify(n, a) ==
  /\ task[n] = "calling"
  /\ Becomes(n, IF a = "accepted" THEN "storing" ELSE "done")
  /\ Answered(n, a)
  /\ UNCHANGED <<world, rows, pc, setup, todo, staged, batch, plan>>

PutCache_Inserts(n) ==
  /\ task[n] = "storing"
  /\ cache' = cache \cup {Key(n)} /\ UNCHANGED outdated
  /\ Becomes(n, "done")
  /\ UNCHANGED <<world, pc, setup, todo, staged, batch, answer, plan>>

(* cache.put replaces the row.                                             *)
PutCache(n) ==
  /\ task[n] = "storing"
  /\ cache' = cache \cup {Key(n)} /\ outdated' = outdated \ {Key(n)}
  /\ Becomes(n, "done")
  /\ UNCHANGED <<world, pc, setup, todo, staged, batch, answer, plan>>

(* ClassificationConfigurationError, or the cache cannot be written.       *)
RaiseInThread(n) ==
  /\ task[n] \in Active
  /\ Becomes(n, "raised")
  /\ UNCHANGED <<world, rows, pc, setup, todo, staged, batch, answer, plan>>

CancelQueued ==
  task' = [n \in Names |-> IF n \in Queued THEN "cancelled" ELSE task[n]]

Collect_SkipsRaised ==
  /\ pc = "collect" /\ batch # {}
  /\ task[First(batch)] \in {"done", "raised"}
  /\ batch' = batch \ {First(batch)}
  /\ UNCHANGED <<world, rows, pc, setup, todo, staged, task, answer, plan>>

(* Results come in order; the first exception cancels what has not begun.  *)
Collect ==
  /\ pc = "collect" /\ batch # {}
  /\ LET n == First(batch)
     IN \/ /\ task[n] = "done"
           /\ batch' = batch \ {n}
           /\ UNCHANGED <<pc, task>>
        \/ /\ task[n] = "raised"
           /\ pc' = "drain"
           /\ CancelQueued
           /\ UNCHANGED batch
  /\ UNCHANGED <<world, rows, setup, todo, staged, answer, plan>>

EndWindow ==
  /\ pc = "collect" /\ batch = {}
  /\ pc' = IF todo = {} THEN "lineage" ELSE "window"
  /\ UNCHANGED <<world, rows, setup, todo, work>>

(* The executor waits for its threads; then the cache is closed.           *)
Drain ==
  /\ pc = "drain" /\ Busy = {}
  /\ pc' = "failed"
  /\ Forget /\ NoTasks
  /\ UNCHANGED <<world, rows>>

-----------------------------------------------------------------------------
Candidate(n, lineage) ==
  IF n = Lineage THEN lineage ELSE Row(staged[n], classifier, config, answer[n])

(* A fresh answer fulfils the contract; a row that does not was taken from *)
(* the cache, which still holds it.                                        *)
CandidateValid == \A n \in Trajectories(input) : Key(n) \notin outdated \/ answer[n] = "failed"

(* The lineage is read and compared with its digest; every candidate is    *)
(* checked again before any object is changed.                             *)
CopyLineage(d) ==
  /\ pc = "lineage"
  /\ d = input[Lineage]
  /\ IF CandidateValid
     THEN /\ plan' = [n \in DOMAIN input |-> Candidate(n, d)]
          /\ todo' = DOMAIN input
          /\ pc' = "put"
          /\ UNCHANGED <<setup, staged, batch, task, answer>>
     ELSE pc' = "rejected" /\ Forget /\ NoTasks
  /\ UNCHANGED <<world, rows>>

(* Candidates in the order of their names, the lineage after them.         *)
NextPut == IF todo = {Lineage} THEN Lineage ELSE First(todo \ {Lineage})

Put(kept) ==
  /\ pc = "put" /\ todo # {}
  /\ kept \in {plan[NextPut], Damaged}
  /\ store' = [store EXCEPT ![NextPut] = kept]
  /\ pc' = "readback"
  /\ UNCHANGED <<manifest, rows, setup, todo, work>>

ReadBack_Skipped ==
  /\ pc = "readback"
  /\ todo' = todo \ {NextPut}
  /\ pc' = IF todo' = {} THEN "publish" ELSE "put"
  /\ UNCHANGED <<world, rows, setup, work>>

ReadBack ==
  /\ pc = "readback"
  /\ IF store[NextPut] = plan[NextPut]
     THEN /\ todo' = todo \ {NextPut}
          /\ pc' = IF todo' = {} THEN "publish" ELSE "put"
          /\ UNCHANGED <<setup, work>>
     ELSE pc' = "rejected" /\ Forget /\ NoTasks
  /\ UNCHANGED <<world, rows>>

PutManifest ==
  /\ pc = "publish"
  /\ manifest' = plan
  /\ pc' = "relist"
  /\ UNCHANGED <<store, rows, setup, todo, work>>

Relist ==
  /\ pc = "relist"
  /\ todo' = (listed \cup Stored) \ DOMAIN plan
  /\ pc' = "cleanup"
  /\ UNCHANGED <<world, rows, setup, work>>

Delete ==
  /\ pc = "cleanup" /\ todo # {}
  /\ store' = [store EXCEPT ![First(todo)] = Absent]
  /\ todo' = todo \ {First(todo)}
  /\ UNCHANGED <<manifest, rows, pc, setup, work>>

Succeed ==
  /\ pc = "cleanup" /\ todo = {}
  /\ pc' = "succeeded"
  /\ Forget /\ NoTasks
  /\ UNCHANGED <<world, rows>>

(* A call raised, or an input object did not have its digest; while        *)
(* threads run, the exception goes through Drain.                          *)
Fail ==
  /\ pc \in Running \ {"drain"}
  /\ IF pc = "collect"
     THEN pc' = "drain" /\ CancelQueued
          /\ UNCHANGED <<setup, todo, staged, batch, answer, plan>>
     ELSE pc' = "failed" /\ Forget /\ NoTasks
  /\ UNCHANGED <<world, rows>>

(* The worker was killed, its threads with it.                             *)
Kill ==
  /\ pc \in {"collect", "drain"}
  /\ pc' = "failed"
  /\ Forget /\ NoTasks
  /\ UNCHANGED <<world, rows>>

JobStep ==
  \/ \E m \in Inputs : ReadInput(m)
  \/ \E n \in Names, d \in Digests : Stage(n, d)
  \/ AssignPaths \/ Submit \/ Collect \/ EndWindow \/ Drain
  \/ \E d \in Digests : CopyLineage(d)
  \/ \E kept \in Labelled \cup Digests \cup {Damaged} : Put(kept)
  \/ ReadBack \/ PutManifest \/ Relist \/ Delete \/ Succeed

ThreadStep(n) ==
  Lookup(n) \/ PutCache(n) \/ \E a \in Answers : Classify(n, a)

Next == \/ Start \/ JobStep \/ Fail \/ Kill
        \/ \E n \in Names : ThreadStep(n) \/ RaiseInThread(n)

Spec == Init /\ [][Next]_vars

(* A job in progress and its threads go on, and the scheduler starts a     *)
(* failed job again.                                                       *)
FairSpec == /\ Spec
            /\ WF_vars(JobStep)
            /\ WF_vars(pc \in Broken /\ Start)
            /\ \A n \in Names : WF_vars(ThreadStep(n))

-----------------------------------------------------------------------------
Served == IF manifest # Absent /\ Verifies(manifest) THEN manifest ELSE Absent

(* Safety: every row of the release in force was made of the content that  *)
(* one input manifest records for its name, records that manifest, and has *)
(* one configuration with all the others - whoever publishes new input     *)
(* while the job runs, and whatever the cache holds; TypeOK keeps current  *)
(* and outdated rows of the cache apart.                                   *)
LabelsBelong ==
  /\ TypeOK
  /\ manifest # Absent =>
    \E m \in Inputs, g \in Configs :
      /\ DOMAIN manifest = DOMAIN m
      /\ manifest[Lineage] = m[Lineage]
      /\ \A n \in Trajectories(m) :
           manifest[n] \in {Row(m[n], m, g, a) : a \in Answers}

(* Action property: no object of the output prefix changes before every    *)
(* classification of the job has ended well, so that a late fatal answer   *)
(* finds the published release intact (label_jobs.py, 790-792).            *)
NoChangeBeforeAnswers ==
  [][store' # store =>
       /\ Busy = {} /\ Queued = {}
       /\ \A n \in Trajectories(input) : task[n] = "done"]_vars

(* Liveness: once nothing raises any more, retries leave the prefix with   *)
(* one complete release and no residue; in particular no row of the cache  *)
(* makes every attempt fail.                                               *)
Disrupted == \/ Fail \/ Kill
             \/ \E n \in Names : RaiseInThread(n)
             \/ Put(Damaged)
Clean == Served # Absent /\ Stored = DOMAIN manifest
RetryCleans == (<>[][~Disrupted]_vars) => ((pc = "read") ~> Clean)

(* Refinement: the job is a correct publisher in the sense of              *)
(* ManifestRelease.                                                        *)
Abstract == INSTANCE ManifestRelease
  WITH Releases <- Outputs, Nothing <- Absent, release <- manifest,
       served <- Served, running <- pc \in Running
ImplementsRelease == Abstract!Spec
=============================================================================
