------------------------------ MODULE S3Publish ------------------------------
(***************************************************************************)
(* One S3 normalization job after another on the same output prefix        *)
(* (jobs.py, _run_s3_job_with_client): list the managed objects, upload    *)
(* the candidate over them, read it back, put manifest.json last, then     *)
(* delete every managed object the new manifest does not name.  Any call   *)
(* may raise and the worker may be killed anywhere; the scheduler starts   *)
(* the job again, possibly with other input.                               *)
(*                                                                         *)
(* The candidate (plan) stands for the output of normalize_source: the     *)
(* names it writes and their digests.  Names are numbers because cleanup   *)
(* deletes in sorted order.                                                *)
(*                                                                         *)
(* A definition named Operation_Deviation is a deviation of Operation that *)
(* a property must detect; no specification uses it.                       *)
(***************************************************************************)
EXTENDS Naturals

CONSTANTS Names,        \* top-level JSONL names, lineage.jsonl among them
          Lineage,      \* the name of lineage.jsonl
          Digests,      \* contents a job may write
          Damaged,      \* content of an object the store did not keep intact
          Absent,       \* no object, or no manifest
          Plans         \* the candidates the jobs may build

Objects == Digests \cup {Damaged}

ASSUME PublishAssumption ==
  /\ Names \subseteq Nat
  /\ Lineage \in Names
  /\ Absent \notin Objects
  /\ Damaged \notin Digests
  /\ Absent \notin Plans
  /\ \A p \in Plans : /\ DOMAIN p \subseteq Names
                      /\ Lineage \in DOMAIN p
                      /\ p \in [DOMAIN p -> Digests]

VARIABLES store,        \* the managed objects under the output prefix
          manifest,     \* the content of manifest.json
          pc,           \* where the current job stands
          plan,         \* its candidate
          listed,       \* listed_flat_paths, taken before anything is written
          uploaded,     \* candidate names written so far
          stale         \* objects that cleanup has still to delete

vars == <<store, manifest, pc, plan, listed, uploaded, stale>>
world == <<store, manifest>>

Running == {"build", "upload", "validate", "publish", "relist", "cleanup"}
Broken  == {"failed", "rejected"}
Stages  == Running \cup Broken \cup {"idle", "succeeded"}

Stored == {n \in Names : store[n] # Absent}

(* A file verifies when the object has the digest the manifest records.    *)
Verifies(m) == \A n \in DOMAIN m : store[n] = m[n]

TypeOK ==
  /\ store \in [Names -> Objects \cup {Absent}]
  /\ manifest \in Plans \cup {Absent}
  /\ pc \in Stages
  /\ plan \in Plans \cup {Absent}
  /\ listed \subseteq Names
  /\ uploaded \subseteq Names
  /\ stale \subseteq Names

(* The prefix may hold objects of earlier generations and no manifest.     *)
Init ==
  /\ store \in [Names -> Digests \cup {Absent}]
  /\ manifest = Absent
  /\ pc = "idle"
  /\ plan = Absent
  /\ listed = {} /\ uploaded = {} /\ stale = {}

-----------------------------------------------------------------------------
(* Start of a job, first or retried: list what is there.                   *)
Start ==
  /\ pc \notin Running
  /\ pc' = "build"
  /\ listed' = Stored
  /\ plan' = Absent /\ uploaded' = {} /\ stale' = {}
  /\ UNCHANGED world

Build_WithoutLineage ==
  /\ pc = "build"
  /\ \E p \in Plans : plan' = [n \in DOMAIN p \ {Lineage} |-> p[n]]
  /\ pc' = "upload"
  /\ UNCHANGED <<store, manifest, listed, uploaded, stale>>

(* normalize_source: the whole candidate is known before any upload.       *)
Build ==
  /\ pc = "build"
  /\ \E p \in Plans : plan' = p
  /\ pc' = "upload"
  /\ UNCHANGED <<store, manifest, listed, uploaded, stale>>

(* Trajectories are uploaded concurrently; lineage.jsonl becomes visible   *)
(* only when its writer is closed, after every trajectory future.          *)
Uploadable(n) ==
  /\ n \in DOMAIN plan \ uploaded
  /\ n = Lineage => DOMAIN plan \ uploaded = {Lineage}

(* The store acknowledges the object and keeps it, or keeps damaged bytes. *)
Upload(n, kept) ==
  /\ pc = "upload"
  /\ Uploadable(n)
  /\ kept \in {plan[n], Damaged}
  /\ store' = [store EXCEPT ![n] = kept]
  /\ uploaded' = uploaded \cup {n}
  /\ UNCHANGED <<manifest, pc, plan, listed, stale>>

CloseOutput ==
  /\ pc = "upload"
  /\ uploaded = DOMAIN plan
  /\ pc' = "validate"
  /\ UNCHANGED <<store, manifest, plan, listed, uploaded, stale>>

CandidateValid_NoAllowance ==
  /\ Verifies(plan)
  /\ Stored \subseteq DOMAIN plan

(* validate_output_backend: every named file is read back, and an object   *)
(* that is neither named nor left from before the job is refused.          *)
CandidateValid ==
  /\ Verifies(plan)
  /\ Stored \ (listed \ DOMAIN plan) \subseteq DOMAIN plan

Validate_Unread ==
  /\ pc = "validate"
  /\ pc' = "publish"
  /\ UNCHANGED <<store, manifest, plan, listed, uploaded, stale>>

Validate ==
  /\ pc = "validate"
  /\ pc' = IF CandidateValid THEN "publish" ELSE "rejected"
  /\ UNCHANGED <<store, manifest, plan, listed, uploaded, stale>>

PutManifest ==
  /\ pc = "publish"
  /\ manifest' = plan
  /\ pc' = "relist"
  /\ UNCHANGED <<store, plan, listed, uploaded, stale>>

Relist_FirstListing ==
  /\ pc = "relist"
  /\ stale' = listed
  /\ pc' = "cleanup"
  /\ UNCHANGED <<store, manifest, plan, listed, uploaded>>

Relist_OwnUploads ==
  /\ pc = "relist"
  /\ stale' = uploaded \ DOMAIN plan
  /\ pc' = "cleanup"
  /\ UNCHANGED <<store, manifest, plan, listed, uploaded>>

Relist ==
  /\ pc = "relist"
  /\ stale' = Stored \ DOMAIN plan
  /\ pc' = "cleanup"
  /\ UNCHANGED <<store, manifest, plan, listed, uploaded>>

DeleteStale(n) ==
  /\ pc = "cleanup"
  /\ n \in stale
  /\ \A m \in stale : n <= m
  /\ store' = [store EXCEPT ![n] = Absent]
  /\ stale' = stale \ {n}
  /\ UNCHANGED <<manifest, pc, plan, listed, uploaded>>

Succeed ==
  /\ pc = "cleanup"
  /\ stale = {}
  /\ pc' = "succeeded"
  /\ UNCHANGED <<store, manifest, plan, listed, uploaded, stale>>

(* A call raised, or the worker was killed.  A request that took effect    *)
(* although its answer was lost is the request's own step followed by this *)
(* one.                                                                    *)
Fail ==
  /\ pc \in Running
  /\ pc' = "failed"
  /\ UNCHANGED <<store, manifest, plan, listed, uploaded, stale>>

JobStep ==
  \/ Build \/ CloseOutput \/ Validate \/ PutManifest \/ Relist \/ Succeed
  \/ \E n \in Names : DeleteStale(n)
  \/ \E n \in Names : \E kept \in Objects : Upload(n, kept)

Next == Start \/ JobStep \/ Fail

Spec == Init /\ [][Next]_vars

(* A job in progress goes on unless a call raises, and the scheduler       *)
(* starts again a job that failed or whose candidate was rejected.         *)
FairSpec == /\ Spec
            /\ WF_vars(JobStep)
            /\ WF_vars(pc \in Broken /\ Start)

-----------------------------------------------------------------------------
(* The release a verifying consumer obtains (Absent when it obtains none). *)
Served == IF manifest # Absent /\ Verifies(manifest) THEN manifest ELSE Absent

(* Safety: an object named by the manifest in force exists, whatever was   *)
(* overwritten, cleaned up or interrupted (cleanup in jobs.py subtracts    *)
(* the new manifest's names; a failed job deletes nothing).                *)
PublishedNeverRemoved == manifest # Absent => DOMAIN manifest \subseteq Stored

(* Safety: a job that returns success leaves exactly its own files, all    *)
(* of them verifying, and no object of any earlier or interrupted job.     *)
SuccessIsExact ==
  pc = "succeeded" => /\ manifest = plan
                      /\ Verifies(manifest)
                      /\ Stored = DOMAIN manifest

(* Action property: a release goes out of service only while a later job   *)
(* uploads over its names - never by listing, validating, cleaning up,     *)
(* failing or restarting.                                                  *)
OnlyUploadsDisturb ==
  [][Served # Absent /\ Served' = Absent => pc = "upload"]_vars

(* Liveness: once calls stop failing, retries leave the prefix with one    *)
(* complete release and none of the residue of the failed attempts; in     *)
(* particular validation does not reject them for that residue.            *)
Disrupted == Fail \/ \E n \in Names : Upload(n, Damaged)
Clean == /\ Served # Absent
         /\ Stored = DOMAIN manifest
RetryCleans == (<>[][~Disrupted]_vars) => ((pc = "build") ~> Clean)

(* Refinement: the job is a correct publisher in the sense of              *)
(* ManifestRelease.                                                        *)
Abstract == INSTANCE ManifestRelease
  WITH Releases <- Plans, Nothing <- Absent, release <- manifest,
       served <- Served, running <- pc \in Running
ImplementsRelease == Abstract!Spec
=============================================================================
