------------------------------ MODULE S3Output ------------------------------
(***************************************************************************)
(* s3_output.py: S3OutputSet writes trajectories in order on the main      *)
(* thread, which streams lineage.jsonl itself and hands every trajectory,  *)
(* spooled to disk, to a bounded pool of upload threads.  Each thread owns *)
(* an _S3ObjectWriter: one PUT for a small object, a multipart upload for  *)
(* a large one.  A failure anywhere ends in abort(), which may not return  *)
(* while a thread can still write.                                         *)
(*                                                                         *)
(* This is the pooled mode (max_workers > 1).  The pool is the standard    *)
(* library's: a FIFO queue, Workers threads.  A request that fails may     *)
(* have taken effect, except that an upload whose creation was never       *)
(* answered has no id and is not counted among the uploads.                *)
(*                                                                         *)
(* A definition named Operation_Deviation is a deviation of Operation that *)
(* a property must detect; no specification uses it.                       *)
(***************************************************************************)
EXTENDS Naturals, Sequences, FiniteSets

CONSTANTS Count,        \* trajectories of the run, written as 1..Count
          Parts,        \* multipart parts of each trajectory, 0 for a PUT
          LineageLimit, \* lineage rows that fit the buffer
          Workers, MaxPending

OutputConstants ==
  /\ Count \in Nat \ {0}
  /\ Parts \in [1..Count -> Nat]
  /\ LineageLimit \in Nat
  /\ Workers \in Nat \ {0}
  /\ MaxPending \in Nat \ {0}

Trajectories == 1..Count
Lineage == 0
Objects == Trajectories \cup {Lineage}

VARIABLES pc,           \* main thread
          next,         \* the trajectory it writes
          rows,         \* lineage rows written
          futures,      \* _trajectory_futures, in submission order
          task,         \* state of each upload task
          sent,         \* parts each writer has uploaded
          spools,       \* open temporary files
          store,        \* visible objects
          uploads,      \* multipart uploads open at the store
          refused,      \* failed abort calls for each upload
          objects,      \* _trajectory_objects
          manifest      \* the files that close() listed

main == <<pc, next, rows, futures, objects, manifest>>
vars == <<main, task, sent, spools, store, uploads, refused>>

Uploading == {"begun", "parts"}
Failing   == {"abort", "abort again"}
Active    == Uploading \cup Failing
Settled   == {"done", "failed", "cancelled"}
Ended     == {"closed", "aborted"}

TypeOK ==
  /\ pc \in {"row", "submit", "throttle", "resolve", "shutdown", "lineage",
             "cancel", "drain", "release", "release again"} \cup Ended
  /\ next \in 1..Count + 1
  /\ rows \in 0..Count
  /\ futures \in Seq(Trajectories)
  /\ task \in [Objects -> {"none", "queued"} \cup Active \cup Settled]
  /\ sent \in [Objects -> Nat] /\ \A n \in Trajectories : sent[n] <= Parts[n]
  /\ spools \subseteq Trajectories
  /\ store \subseteq Objects /\ uploads \subseteq Objects
  /\ refused \in [Objects -> Nat]
  /\ objects \in Seq(Trajectories)
  /\ manifest \subseteq Objects

Init ==
  /\ pc = "row" /\ next = 1 /\ rows = 0
  /\ futures = <<>> /\ objects = <<>> /\ manifest = {}
  /\ task = [n \in Objects |-> "none"]
  /\ sent = [n \in Objects |-> 0]
  /\ spools = {} /\ store = {} /\ uploads = {}
  /\ refused = [n \in Objects |-> 0]

-----------------------------------------------------------------------------
(* _S3ObjectWriter: one request each.  The task of Lineage is the writer   *)
(* that the main thread owns.                                              *)
Becomes(n, s) == task' = [task EXCEPT ![n] = s]

CreateUpload(n) ==
  /\ uploads' = uploads \cup {n}
  /\ Becomes(n, "parts")
  /\ UNCHANGED <<sent, store, refused>>

SendPart(n) ==
  /\ sent' = [sent EXCEPT ![n] = @ + 1]
  /\ UNCHANGED <<task, store, uploads, refused>>

PutOrComplete(n) ==
  /\ store' = store \cup {n}
  /\ uploads' = uploads \ {n}
  /\ Becomes(n, "done")
  /\ UNCHANGED <<sent, refused>>

RequestFails(n, finishing) ==
  /\ \/ UNCHANGED <<store, uploads>>
     \/ finishing /\ store' = store \cup {n} /\ uploads' = uploads \ {n}
  /\ Becomes(n, "abort")
  /\ UNCHANGED <<sent, refused>>

(* _abort_multipart: nothing to do without an upload; a failed call keeps  *)
(* the id for another attempt.                                             *)
AbortUpload(n) ==
  \/ /\ uploads' = uploads \ {n}
     /\ UNCHANGED refused
  \/ /\ n \in uploads
     /\ refused' = [refused EXCEPT ![n] = @ + 1]
     /\ UNCHANGED uploads

-----------------------------------------------------------------------------
(* Upload threads.                                                         *)
(* The pool's queue is first in, first out; trajectories are numbered in   *)
(* the order of their submission.                                          *)
Queued == {n \in Trajectories : task[n] = "queued"}
Oldest(n) == n \in Queued /\ \A m \in Queued : n <= m
Busy  == {n \in Trajectories : task[n] \in Active}

Take(n) ==
  /\ Oldest(n)
  /\ Cardinality(Busy) < Workers
  /\ Becomes(n, "begun")
  /\ UNCHANGED <<main, sent, spools, store, uploads, refused>>

LastRequest_OffByOne(n) == sent[n] = Parts[n] + 1

LastRequest(n) == sent[n] = Parts[n]

Upload(n) ==
  /\ task[n] \in Uploading
  /\ \/ task[n] = "begun" /\ Parts[n] > 0 /\ CreateUpload(n) /\ UNCHANGED spools
     \/ task[n] = "parts" /\ ~LastRequest(n) /\ SendPart(n) /\ UNCHANGED spools
     \/ LastRequest(n) /\ PutOrComplete(n) /\ spools' = spools \ {n}
     \/ RequestFails(n, LastRequest(n)) /\ UNCHANGED spools
  /\ UNCHANGED main

CleanUp_Once(n) ==
  /\ task[n] \in Failing
  /\ AbortUpload(n)
  /\ Becomes(n, "failed") /\ spools' = spools \ {n}
  /\ UNCHANGED <<main, sent, store>>

(* The writer aborts in its own handler, then _upload_spooled_trajectory   *)
(* aborts once more and closes the spool.                                  *)
CleanUp(n) ==
  /\ task[n] \in Failing
  /\ AbortUpload(n)
  /\ IF task[n] = "abort"
     THEN Becomes(n, "abort again") /\ UNCHANGED spools
     ELSE Becomes(n, "failed") /\ spools' = spools \ {n}
  /\ UNCHANGED <<main, sent, store>>

-----------------------------------------------------------------------------
(* Main thread: write_trajectory.                                          *)
Writers == <<task, sent, store, uploads, refused>>

Raise == pc' = "cancel"

(* The lineage row, which starts or feeds the lineage's multipart upload   *)
(* once the buffer is full.                                                *)
WriteRow ==
  /\ pc = "row" /\ next <= Count
  /\ rows' = rows + 1
  /\ IF rows + 1 <= LineageLimit THEN UNCHANGED Writers /\ pc' = "submit"
     ELSE \/ task[Lineage] = "none" /\ CreateUpload(Lineage) /\ pc' = "submit"
          \/ task[Lineage] = "parts" /\ SendPart(Lineage) /\ pc' = "submit"
          \/ /\ Raise                       \* write() aborts at once
             /\ AbortUpload(Lineage)
             /\ Becomes(Lineage, "abort")
             /\ UNCHANGED <<sent, store>>
  /\ UNCHANGED <<next, futures, objects, manifest, spools>>

(* A contract violation, a duplicate name, a full disk, an interrupt.      *)
Reject ==
  /\ pc \in {"row", "submit"}
  /\ Raise
  /\ UNCHANGED <<next, rows, futures, objects, manifest, spools, Writers>>

Submit ==
  /\ pc = "submit"
  /\ spools' = spools \cup {next}
  /\ futures' = Append(futures, next)
  /\ Becomes(next, "queued")
  /\ pc' = "throttle"
  /\ UNCHANGED <<next, rows, objects, manifest, sent, store, uploads, refused>>

ResolveOldest_IgnoresFailure ==
  /\ futures # <<>>
  /\ task[Head(futures)] \in Settled
  /\ futures' = Tail(futures)
  /\ objects' = IF task[Head(futures)] = "done" THEN Append(objects, Head(futures))
                ELSE objects
  /\ UNCHANGED <<pc, next, rows, manifest, spools, Writers>>

ResolveOldest_AwaitsSuccess ==
  /\ futures # <<>>
  /\ task[Head(futures)] = "done"
  /\ futures' = Tail(futures)
  /\ objects' = Append(objects, Head(futures))
  /\ UNCHANGED <<pc, next, rows, manifest, spools, Writers>>

(* _resolve_oldest_future: waits, and raises what the upload raised.       *)
ResolveOldest ==
  /\ futures # <<>>
  /\ task[Head(futures)] \in Settled
  /\ futures' = Tail(futures)
  /\ IF task[Head(futures)] = "done"
     THEN objects' = Append(objects, Head(futures)) /\ UNCHANGED pc
     ELSE UNCHANGED objects /\ Raise
  /\ UNCHANGED <<next, rows, manifest, spools, Writers>>

Throttle == pc = "throttle" /\ Len(futures) >= MaxPending /\ ResolveOldest

Written_Unbounded ==
  /\ pc = "throttle"
  /\ next' = next + 1
  /\ pc' = IF next = Count THEN "resolve" ELSE "row"
  /\ UNCHANGED <<rows, futures, objects, manifest, spools, Writers>>

Written ==
  /\ pc = "throttle" /\ Len(futures) < MaxPending
  /\ next' = next + 1
  /\ pc' = IF next = Count THEN "resolve" ELSE "row"
  /\ UNCHANGED <<rows, futures, objects, manifest, spools, Writers>>

-----------------------------------------------------------------------------
(* Main thread: close.                                                     *)
Resolve == pc = "resolve" /\ ResolveOldest

Shutdown_Unresolved ==
  /\ pc = "resolve"
  /\ pc' = "lineage"
  /\ UNCHANGED <<next, rows, futures, objects, manifest, spools, Writers>>

Shutdown ==
  /\ pc = "resolve" /\ futures = <<>>
  /\ Busy = {}
  /\ pc' = "lineage"
  /\ UNCHANGED <<next, rows, futures, objects, manifest, spools, Writers>>

CloseLineage ==
  /\ pc = "lineage"
  /\ \/ /\ PutOrComplete(Lineage)
        /\ manifest' = {objects[i] : i \in DOMAIN objects} \cup {Lineage}
        /\ pc' = "closed"
     \/ /\ \/ UNCHANGED store /\ AbortUpload(Lineage)
           \/ store' = store \cup {Lineage} /\ uploads' = uploads \ {Lineage}
                /\ UNCHANGED refused
        /\ Becomes(Lineage, "abort")
        /\ Raise
        /\ UNCHANGED <<sent, manifest>>
  /\ UNCHANGED <<next, rows, futures, objects, spools>>

(* abort: cancel what has not begun; its callback closes the spool.        *)
Cancel(n) ==
  /\ pc = "cancel"
  /\ Oldest(n)
  /\ Becomes(n, "cancelled")
  /\ spools' = spools \ {n}
  /\ UNCHANGED <<main, sent, store, uploads, refused>>

Drain_NoWait ==
  /\ pc = "cancel" /\ Queued = {}
  /\ futures' = <<>>
  /\ pc' = "release"
  /\ UNCHANGED <<next, rows, objects, manifest, spools, Writers>>

(* shutdown(wait=True) returns when the last thread has ended.             *)
Drain ==
  /\ pc = "cancel" /\ Queued = {}
  /\ Busy = {}
  /\ futures' = <<>>
  /\ pc' = "release"
  /\ UNCHANGED <<next, rows, objects, manifest, spools, Writers>>

(* The lineage is aborted by close() and again by _export.                 *)
ReleaseLineage ==
  /\ pc \in {"release", "release again"}
  /\ AbortUpload(Lineage)
  /\ pc' = IF pc = "release" /\ next > Count THEN "release again" ELSE "aborted"
  /\ UNCHANGED <<next, rows, futures, objects, manifest, spools, task, sent, store>>

MainStep == \/ WriteRow \/ Reject \/ Submit \/ Throttle \/ Written
            \/ Resolve \/ Shutdown \/ CloseLineage \/ Drain \/ ReleaseLineage
            \/ \E n \in Trajectories : Cancel(n)

ThreadStep(n) == Take(n) \/ Upload(n) \/ CleanUp(n)

Next == MainStep \/ \E n \in Trajectories : ThreadStep(n)

Spec == Init /\ [][Next]_vars

-----------------------------------------------------------------------------
(* Safety: the manifest close() returns lists every trajectory and the     *)
(* lineage, and each of them is in the store, complete.                    *)
ManifestExact ==
  pc = "closed" => /\ manifest = Objects
                   /\ manifest \subseteq store
                   /\ rows = Count
                   /\ Len(objects) = Count

(* Safety: neither the queue nor the temporary files exceed max_pending,   *)
(* whatever the speed of the threads; no part past the last one is sent,   *)
(* and everything else is of its type.                                     *)
QueueBounded ==
  /\ TypeOK
  /\ Len(futures) <= MaxPending
  /\ Cardinality(spools) <= MaxPending

(* Safety: when the output set has ended, no spool is left open, and a     *)
(* multipart upload is left at the store only if every abort the code      *)
(* makes for it failed: two for a trajectory, one at least for the lineage *)
NothingLeaked ==
  pc \in Ended =>
    /\ spools = {}
    /\ \A n \in uploads : refused[n] >= IF n = Lineage THEN 1 ELSE 2

(* Action property: the lineage becomes visible after every trajectory it  *)
(* names, so that a listing never shows lineage over missing objects; and  *)
(* after close() or abort() has returned no thread touches the store,      *)
(* where a retry on another worker may have begun.                         *)
StoreOrdered ==
  [][/\ Lineage \in store' \ store => Trajectories \subseteq store
     /\ pc \in Ended => UNCHANGED <<store, uploads>>]_vars
=============================================================================
