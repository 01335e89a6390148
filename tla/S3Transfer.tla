----------------------------- MODULE S3Transfer -----------------------------
(***************************************************************************)
(* normalize_source from end to end: the captures of a bucket are ingested *)
(* as in CaptureFeed; only an ingest that ended well is built and exported *)
(* to an output set as in S3Output.  The two have their own threads: the   *)
(* readers and parsers must have ended before the first upload begins,     *)
(* and the uploads before the run returns.  A local tree is ingested the   *)
(* same way and is published by LocalPublish.                              *)
(***************************************************************************)
EXTENDS CaptureFeed

CONSTANTS Count, Parts, LineageLimit, Workers, MaxPending   \* of S3Output

VARIABLES outputPc,     \* main thread, in the output set
          next, futures, task, sent, spools, store, uploads, refused, objects,
          manifest,
          lineageRows   \* lineage rows written

outputSet == <<outputPc, next, futures, task, sent, spools, store, uploads, refused,
               objects, manifest, lineageRows>>

Output == INSTANCE S3Output WITH pc <- outputPc, rows <- lineageRows

ASSUME TransferAssumption == Output!OutputConstants

TransferInit == Init /\ Output!Init

(* output_factory is called when the ingest has returned without error.    *)
Exporting == pc = "finished" /\ bucket

IngestStep == MainStep /\ UNCHANGED outputSet
ReaderStep(c) == (StartRead(c) \/ EndRead(c) \/ EndParse(c)) /\ UNCHANGED outputSet
ExportStep == Exporting /\ Output!MainStep /\ UNCHANGED vars
UploadStep(n) == Exporting /\ Output!ThreadStep(n) /\ UNCHANGED vars

TransferNext ==
  \/ IngestStep \/ ExportStep
  \/ \E c \in Captures : ReaderStep(c)
  \/ \E n \in 1 .. Count : UploadStep(n)

TransferSpec ==
  /\ TransferInit /\ [][TransferNext]_<<vars, outputSet>>
  /\ WF_<<vars, outputSet>>(IngestStep) /\ WF_<<vars, outputSet>>(ExportStep)
  /\ \A c \in Captures : WF_<<vars, outputSet>>(ReaderStep(c))
  /\ \A n \in 1 .. Count : WF_<<vars, outputSet>>(UploadStep(n))

-----------------------------------------------------------------------------
(* Safety: every queue between the bucket and the objects is within its    *)
(* limits, by count and by bytes (CaptureFeed, S3Output).                  *)
QueuesBounded == FeedBounded /\ Output!QueueBounded

(* Safety: the manifest that the output set returns lists every trajectory *)
(* and the lineage, each of them complete in the store, and there is one   *)
(* only when every capture of the listing was ingested.                    *)
ManifestExact ==
  /\ Output!ManifestExact
  /\ store # {} \/ uploads # {} => Decided = Selected /\ batch = <<>> /\ ~Busy

(* Safety: what a failed or finished output set leaves behind (S3Output).  *)
NothingLeaked == Output!NothingLeaked

(* Action property: the order in which objects become visible, and the     *)
(* silence after the output set has ended (S3Output).                      *)
StoreOrdered == Output!StoreOrdered

(* Liveness: a run ends: the ingest by itself, then the output set, with a *)
(* capture that is larger than the window, with readers, parsers and       *)
(* uploads that fail.                                                      *)
RunEnds == <>(pc \in Ended /\ (Exporting => outputPc \in Output!Ended))
=============================================================================
