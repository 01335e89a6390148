----------------------------- MODULE CaptureFeed -----------------------------
(***************************************************************************)
(* How captures reach the state database: S3CaptureSource lists them and   *)
(* reads ahead on threads, _ingest_source hands each payload to a pool of  *)
(* parser processes and writes the results in batches.  Two queues are     *)
(* between the bucket and the database: the window of reads, bounded by    *)
(* count and by bytes, and the queue of parses, bounded likewise; both are *)
(* consumed from the front, whatever is ready first.                       *)
(*                                                                         *)
(* Captures are numbered in the order of their source references.  What a  *)
(* row decides about a capture is the concern of StateIngest.              *)
(*                                                                         *)
(* A definition named Operation_Deviation is a deviation of Operation that *)
(* a property must detect; no specification uses it.                       *)
(***************************************************************************)
EXTENDS Naturals, Sequences, FiniteSets, SequencesExt

CONSTANTS Captures,      \* positions in the order of source references
          Listings,      \* what the pages of a listing may hold, in their order
          Marker,        \* an entry that is no capture
          Sizes,         \* object sizes, by capture
          Malformed,     \* captures that cannot be normalized
          ReadWorkers, ReadPrefetch, ReadBytes,
          ParseWorkers,  \* settings of the number of parsers
          ParseLimit, ParseBytes,
          ParseFactor,   \* reserved bytes per byte of payload
          LeastParse,    \* and the least reservation
          BatchItems, BatchBytes,
          None

ASSUME FeedAssumption ==
  /\ Captures \subseteq Nat /\ IsFiniteSet(Captures)
  /\ Listings \subseteq Seq(Captures \cup {Marker})
  /\ Marker \notin Captures /\ None \notin Captures
  /\ Sizes \in [Captures -> Nat] /\ Malformed \subseteq Captures
  /\ {ReadWorkers, ReadPrefetch, ReadBytes, ParseLimit, ParseBytes} \subseteq Nat \ {0}
  /\ ParseWorkers \subseteq Nat \ {0}
  /\ {ParseFactor, LeastParse, BatchItems, BatchBytes} \subseteq Nat \ {0}

VARIABLES listing,
          known,            \* captures decided by an earlier run, of a local tree
          bucket,           \* whether the source is a bucket, or a local tree
          parsers,          \* parse_workers
          pc,
          captures,         \* what the iterator has still to yield
          deferred,         \* the capture that did not fit the window
          window,           \* reads submitted and not consumed
          windowBytes,
          read,             \* state of each read
          hand,             \* the payload handed to the pipeline
          queue,            \* parses submitted and not consumed
          queueBytes,
          parse,            \* state of each parse
          batch,            \* rows of the open transaction
          rows              \* rows committed

world   == <<listing, known, bucket, parsers>>
reader  == <<captures, deferred, window, windowBytes>>
parsing == <<queue, queueBytes>>
tables  == <<batch, rows>>
vars    == <<world, pc, reader, read, hand, parsing, parse, tables>>

Ended == {"finished", "failed"}
Selected == Range(listing) \ {Marker}

Init ==
  /\ listing \in Listings /\ known \in SUBSET Captures
  /\ bucket \in BOOLEAN /\ parsers \in ParseWorkers
  /\ IF bucket THEN known = {} ELSE IsInjective(listing)
  /\ pc = "list"
  /\ captures = <<>> /\ deferred = None
  /\ window = <<>> /\ windowBytes = 0
  /\ read = [c \in Captures |-> "none"]
  /\ hand = None
  /\ queue = <<>> /\ queueBytes = 0
  /\ parse = [c \in Captures |-> "none"]
  /\ batch = <<>> /\ rows = <<>>

-----------------------------------------------------------------------------
Largest(x, y) == IF x >= y THEN x ELSE y
ReadReservation(c) == Largest(Sizes[c], 1)
ParseReservation(c) == Largest(Sizes[c] * ParseFactor, LeastParse)

(* The open transaction is rolled back, queued reads are cancelled; what   *)
(* runs is waited for.                                                     *)
Raise ==
  /\ pc' = "closing"
  /\ read' = [c \in Captures |-> IF read[c] = "queued" THEN "cancelled" ELSE read[c]]
  /\ batch' = <<>>

(* The whole listing goes through an inventory whose primary key is the    *)
(* object key, so that a repeated key fails before any capture is read; it *)
(* is read in the order of the keys.                                       *)
Ascending(s) == \A i, j \in 1 .. Len(s) : i < j => s[i] < s[j]

List ==
  /\ pc = "list"
  /\ IF IsInjective(listing)
     THEN /\ \E ordered \in [1 .. Cardinality(Selected) -> Selected] :
               Ascending(ordered) /\ captures' = ordered
          /\ pc' = IF bucket THEN "fill" ELSE "next"
     ELSE pc' = "failed" /\ UNCHANGED captures
  /\ UNCHANGED <<world, deferred, window, windowBytes, read, hand, parsing, parse, tables>>

-----------------------------------------------------------------------------
(* fill(): the deferred capture comes before the next of the iterator.     *)
Upcoming == IF deferred # None THEN deferred
            ELSE IF captures # <<>> THEN Head(captures) ELSE None
TakeUpcoming == captures' = IF deferred # None \/ captures = <<>> THEN captures
                            ELSE Tail(captures)

Fits(c) == window = <<>> \/ windowBytes + ReadReservation(c) <= ReadBytes

Submit_Oversized ==
  /\ pc = "fill" /\ Len(window) < ReadPrefetch /\ Upcoming # None
  /\ windowBytes < ReadBytes
  /\ TakeUpcoming /\ deferred' = None
  /\ window' = Append(window, Upcoming)
  /\ windowBytes' = windowBytes + ReadReservation(Upcoming)
  /\ read' = [read EXCEPT ![Upcoming] = "queued"]
  /\ UNCHANGED <<world, pc, hand, parsing, parse, tables>>

(* One object of any size may be read when nothing else is.                *)
Submit ==
  /\ pc = "fill" /\ Len(window) < ReadPrefetch /\ Upcoming # None
  /\ Fits(Upcoming)
  /\ TakeUpcoming /\ deferred' = None
  /\ window' = Append(window, Upcoming)
  /\ windowBytes' = windowBytes + ReadReservation(Upcoming)
  /\ read' = [read EXCEPT ![Upcoming] = "queued"]
  /\ UNCHANGED <<world, pc, hand, parsing, parse, tables>>

Filled == ~(Len(window) < ReadPrefetch /\ Upcoming # None /\ Fits(Upcoming))

(* What was taken from the iterator and does not fit is kept.              *)
EndFill ==
  /\ pc = "fill" /\ Filled
  /\ IF Len(window) < ReadPrefetch
     THEN TakeUpcoming /\ deferred' = Upcoming
     ELSE UNCHANGED <<captures, deferred>>
  /\ pc' = IF hand = None THEN "next" ELSE "consume"
  /\ UNCHANGED <<world, window, windowBytes, read, hand, parsing, parse, tables>>

(* Reader threads take the oldest submitted read.                          *)
Reading == {c \in Captures : read[c] = "reading"}
StartRead(c) ==
  /\ read[c] = "queued" /\ Cardinality(Reading) < ReadWorkers
  /\ \A d \in Captures : read[d] = "queued" => c <= d
  /\ read' = [read EXCEPT ![c] = "reading"]
  /\ UNCHANGED <<world, pc, reader, hand, parsing, parse, tables>>

(* The answer to a conditional read: which version it is of, whether its   *)
(* advertised length is the listed size, and what arrived of the body.     *)
Responses == [etag : {"listed", "other"}, length : BOOLEAN,
              body : {"short", "exact", "long"}]
Intact(r) == r.etag = "listed" /\ r.body = "exact"

Accepted(r) == r.etag = "listed" /\ r.length /\ r.body = "exact"

(* read_capture_bytes, in a thread; the request itself may fail.           *)
Outcome(r) == IF ~Accepted(r) THEN "error" ELSE IF Intact(r) THEN "whole" ELSE "torn"

EndRead(c) ==
  /\ read[c] = "reading"
  /\ \/ \E r \in Responses : read' = [read EXCEPT ![c] = Outcome(r)]
     \/ read' = [read EXCEPT ![c] = "error"]
  /\ UNCHANGED <<world, pc, reader, hand, parsing, parse, tables>>

-----------------------------------------------------------------------------
(* The consumer's turn: the generator pops the oldest read, waits for it,  *)
(* and fills the window again before it yields.                            *)
TakeRead ==
  /\ pc = "next" /\ bucket /\ window # <<>>
  /\ read[Head(window)] \in {"whole", "torn", "error"}
  /\ window' = Tail(window)
  /\ windowBytes' = windowBytes - ReadReservation(Head(window))
  /\ IF read[Head(window)] = "error"
     THEN Raise /\ UNCHANGED <<hand, rows>>
     ELSE /\ hand' = Head(window)
          /\ pc' = "fill"
          /\ UNCHANGED <<read, tables>>
  /\ UNCHANGED <<world, captures, deferred, parsing, parse>>

(* rotate_batch: a row more in the open transaction, which is committed    *)
(* when it has enough items or enough bytes.                               *)
BatchSize(b) == FoldSeq(LAMBDA r, n : n + (IF r[2] = "unreadable" THEN 0 ELSE Sizes[r[1]]), 0, b)

Enter(row) ==
  LET full == Len(batch) + 1 >= BatchItems \/ BatchSize(Append(batch, row)) >= BatchBytes
  IN /\ rows' = IF full THEN rows \o Append(batch, row) ELSE rows
     /\ batch' = IF full THEN <<>> ELSE Append(batch, row)

(* A local file is read in the main thread; one that cannot be read is a   *)
(* failed row at once.                                                     *)
ReadLocal ==
  /\ pc = "next" /\ ~bucket /\ captures # <<>>
  /\ captures' = Tail(captures)
  /\ \/ /\ read' = [read EXCEPT ![Head(captures)] = "whole"]
        /\ hand' = Head(captures) /\ pc' = "consume"
        /\ UNCHANGED tables
     \/ /\ read' = [read EXCEPT ![Head(captures)] = "error"]
        /\ Enter(<<Head(captures), "unreadable">>)
        /\ UNCHANGED <<hand, pc>>
  /\ UNCHANGED <<world, deferred, window, windowBytes, parsing, parse>>

(* The generator's executor is idle when its window is empty.              *)
EndCaptures ==
  /\ pc = "next"
  /\ IF bucket THEN window = <<>> ELSE captures = <<>>
  /\ pc' = "flush"
  /\ UNCHANGED <<world, reader, read, hand, parsing, parse, tables>>

Parsed(c) == <<c, IF read[c] = "torn" THEN "torn"
                  ELSE IF c \in Malformed THEN "malformed" ELSE "parsed">>

(* capture_matches: a row of an earlier run is kept, ahead of what is in   *)
(* the queue.                                                              *)
Reuse ==
  /\ pc = "consume" /\ hand \in known
  /\ Enter(<<hand, "reused">>)
  /\ hand' = None /\ pc' = "next"
  /\ UNCHANGED <<world, reader, read, parsing, parse>>

(* process_payload, with one parser.                                       *)
ParseInline ==
  /\ pc = "consume" /\ hand \notin known /\ parsers = 1
  /\ Enter(Parsed(hand))
  /\ hand' = None /\ pc' = "next"
  /\ UNCHANGED <<world, reader, read, parsing, parse>>

(* submit_parse                                                            *)
Enqueue ==
  /\ pc = "consume" /\ hand \notin known /\ parsers > 1
  /\ queue' = Append(queue, hand)
  /\ queueBytes' = queueBytes + ParseReservation(hand)
  /\ parse' = [parse EXCEPT ![hand] = "submitted"]
  /\ hand' = None /\ pc' = "drain"
  /\ UNCHANGED <<world, reader, read, tables>>

(* _parse_ingest_payload, in a process, which may break.                   *)
EndParse(c) ==
  /\ parse[c] = "submitted"
  /\ \E result \in {"done", "broken"} : parse' = [parse EXCEPT ![c] = result]
  /\ UNCHANGED <<world, pc, reader, read, hand, parsing, tables>>

Overfull == Len(queue) >= ParseLimit \/ queueBytes >= ParseBytes

(* drain_parse: from the front, waiting for the oldest; to the end when    *)
(* the captures are exhausted.                                             *)
Drain_AnyReady ==
  /\ queue # <<>>
  /\ pc = "flush" \/ (pc = "drain" /\ Overfull)
  /\ \E i \in DOMAIN queue :
       /\ parse[queue[i]] = "done"
       /\ queue' = RemoveAt(queue, i)
       /\ queueBytes' = queueBytes - ParseReservation(queue[i])
       /\ Enter(Parsed(queue[i]))
  /\ UNCHANGED <<world, pc, reader, read, hand, parse>>

Drain_IgnoresBroken ==
  /\ queue # <<>>
  /\ pc = "flush" \/ (pc = "drain" /\ Overfull)
  /\ parse[Head(queue)] = "done"
  /\ queue' = Tail(queue)
  /\ queueBytes' = queueBytes - ParseReservation(Head(queue))
  /\ Enter(Parsed(Head(queue)))
  /\ UNCHANGED <<world, pc, reader, read, hand, parse>>

Drain ==
  /\ queue # <<>>
  /\ pc = "flush" \/ (pc = "drain" /\ Overfull)
  /\ parse[Head(queue)] \in {"done", "broken"}
  /\ queue' = Tail(queue)
  /\ queueBytes' = queueBytes - ParseReservation(Head(queue))
  /\ IF parse[Head(queue)] = "done"
     THEN Enter(Parsed(Head(queue))) /\ UNCHANGED <<pc, read>>
     ELSE Raise /\ UNCHANGED rows
  /\ UNCHANGED <<world, reader, hand, parse>>

EndDrain ==
  /\ pc = "drain" /\ ~Overfull
  /\ pc' = "next"
  /\ UNCHANGED <<world, reader, read, hand, parsing, parse, tables>>

(* The last batch is committed.                                            *)
Close ==
  /\ pc = "flush" /\ queue = <<>>
  /\ rows' = rows \o batch /\ batch' = <<>>
  /\ pc' = "finished"
  /\ UNCHANGED <<world, reader, read, hand, parsing, parse>>

Busy == \E c \in Captures : read[c] = "reading" \/ parse[c] = "submitted"

(* Both executors wait for what runs before the exception goes on.         *)
EndRaise ==
  /\ pc = "closing" /\ ~Busy
  /\ pc' = "failed"
  /\ UNCHANGED <<world, reader, read, hand, parsing, parse, tables>>

MainStep ==
  \/ List \/ Submit \/ EndFill \/ TakeRead \/ ReadLocal \/ EndCaptures
  \/ Reuse \/ ParseInline \/ Enqueue \/ Drain \/ EndDrain \/ Close \/ EndRaise

Next == MainStep \/ \E c \in Captures : StartRead(c) \/ EndRead(c) \/ EndParse(c)

Spec == Init /\ [][Next]_vars

-----------------------------------------------------------------------------
TypeOK ==
  /\ Range(captures) \subseteq Captures /\ deferred \in Captures \cup {None}
  /\ Range(window) \subseteq Captures /\ Range(queue) \subseteq Captures
  /\ windowBytes \in Nat /\ queueBytes \in Nat
  /\ read \in [Captures -> {"none", "queued", "reading", "whole", "torn", "error",
                           "cancelled"}]
  /\ parse \in [Captures -> {"none", "submitted", "done", "broken"}]
  /\ hand \in Captures \cup {None}

Written == rows \o batch
Decided == {Written[i][1] : i \in 1 .. Len(Written)}
Readable(c) == bucket \/ read[c] # "error"
Parses == {i \in 1 .. Len(Written) : Written[i][2] \in {"parsed", "malformed"}}

(* Safety: whatever is ready first, and whoever fails, every capture gets  *)
(* at most one row, made of the listed object as a whole; the rows that    *)
(* come from parsing are in source order and skip nothing; and an ingest   *)
(* that ends well has committed a row for every capture of the listing.    *)
IngestExact ==
  /\ Cardinality(Decided) = Len(Written) /\ Decided \subseteq Selected
  /\ \A i \in 1 .. Len(Written) : Written[i][2] # "torn"
  /\ \A i \in Parses :
       {c \in Selected \ known : c < Written[i][1] /\ Readable(c)}
         = {Written[j][1] : j \in {k \in Parses : k < i}}
  /\ pc = "finished" => batch = <<>> /\ Decided = Selected

(* The bytes that the captures of a queue reserve, each of them its own.   *)
Reserved(bytes, s) == Cardinality(UNION {{c} \X (1 .. bytes[c]) : c \in Range(s)})

(* Safety: the byte counters are the reservations of what is in the two    *)
(* queues; the window exceeds its bytes only with a single capture, the    *)
(* parse queue is back below both limits whenever the next capture is      *)
(* awaited; and nothing runs on when the ingest has returned.              *)
FeedBounded ==
  /\ TypeOK
  /\ windowBytes = Reserved([c \in Captures |-> ReadReservation(c)], window)
  /\ queueBytes = Reserved([c \in Captures |-> ParseReservation(c)], queue)
  /\ Len(window) <= ReadPrefetch
  /\ windowBytes <= ReadBytes \/ Len(window) = 1
  /\ pc \in {"next", "consume", "fill"} => ~Overfull
  /\ pc \in Ended => ~Busy /\ \A c \in Captures : read[c] # "queued"
=============================================================================
