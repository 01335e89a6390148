-------------------------- MODULE S3Transfer_proofs --------------------------
(***************************************************************************)
(* The two halves of a run.                                                *)
(*                                                                         *)
(* The ingest: a capture of the listing has its row, or is in one of the   *)
(* places from which it will get one: the queue of parses, the hand of the *)
(* main thread, the window of reads, what the iterator put back or has     *)
(* still to yield.  FeedInv says that these places partition the listing,  *)
(* that each of them is ascending and ahead of the next, and that the rows *)
(* written so far are those of a serial ingest that stopped earlier.       *)
(* IngestExact, FeedBounded and the end of the ingest follow from it.      *)
(*                                                                         *)
(* The output set of a whole run is an output set: whatever the ingest     *)
(* does before it and its threads do, S3Transfer takes only steps of       *)
(* S3Output on the variables of the output set, so that what OutputInv     *)
(* says of every output set holds of the run.                              *)
(***************************************************************************)
EXTENDS S3Transfer, FiniteSetTheorems, SequenceTheorems, TLAPS

-----------------------------------------------------------------------------
(* Queues in ascending order                                               *)
LEMMA EmptyQueue ==
  /\ <<>> \in Seq(Captures) /\ Range(<<>>) = {} /\ Ascending(<<>>) /\ Len(<<>>) = 0
  /\ \A s \in Seq(Captures) : Range(s) = {} => s = <<>>
<1>1. Range(<<>>) = {} /\ Ascending(<<>>) /\ Len(<<>>) = 0 /\ <<>> \in Seq(Captures)
  BY DEF Range, Ascending
<1>2. ASSUME NEW s \in Seq(Captures), s # <<>> PROVE Range(s) # {}
  <2>1. 1 \in DOMAIN s
    BY <1>2
  <2> QED
    BY <2>1 DEF Range
<1> QED
  BY <1>1, <1>2

LEMMA TailQueue ==
  ASSUME NEW s \in Seq(Captures), s # <<>>, Ascending(s)
  PROVE  /\ Head(s) \in Captures /\ Tail(s) \in Seq(Captures) /\ Ascending(Tail(s))
         /\ Head(s) \in Range(s) /\ Range(Tail(s)) = Range(s) \ {Head(s)}
         /\ \A c \in Range(Tail(s)) : Head(s) < c
         /\ Len(Tail(s)) = Len(s) - 1 /\ Len(s) \in Nat \ {0}
         /\ Range(s) \subseteq Captures
<1>1. Captures \subseteq Nat
  BY FeedAssumption
<1>2. /\ Len(s) \in Nat \ {0} /\ DOMAIN s = 1..Len(s) /\ Head(s) = s[1]
      /\ Tail(s) \in Seq(Captures) /\ Len(Tail(s)) = Len(s) - 1
      /\ \A i \in 1..Len(s) - 1 : Tail(s)[i] = s[i + 1]
      /\ \A i \in 1..Len(s) : s[i] \in Captures
      /\ DOMAIN Tail(s) = 1..Len(s) - 1
  OBVIOUS
<1>3. \A i \in 2..Len(s) : s[1] < s[i]
  BY <1>2 DEF Ascending
<1>4. \A i \in 1..Len(s) : s[i] \in Nat
  BY <1>1, <1>2
<1>5. Range(s) = {s[i] : i \in 1..Len(s)} /\ Range(Tail(s)) = {s[i] : i \in 2..Len(s)}
  <2>1. {Tail(s)[i] : i \in 1..Len(s) - 1} = {s[i] : i \in 2..Len(s)}
    <3>1. ASSUME NEW i \in 1..Len(s) - 1 PROVE Tail(s)[i] \in {s[j] : j \in 2..Len(s)}
      BY <1>2, <3>1
    <3>2. ASSUME NEW i \in 2..Len(s) PROVE \E j \in 1..Len(s) - 1 : s[i] = Tail(s)[j]
      <4>1. i - 1 \in 1..Len(s) - 1 /\ (i - 1) + 1 = i
        BY <1>2
      <4> QED
        BY <1>2, <4>1
    <3> QED
      BY <3>1, <3>2
  <2> QED
    BY <1>2, <2>1 DEF Range
<1>6. Range(Tail(s)) = Range(s) \ {Head(s)}
  <2>1. \A i \in 1..Len(s) : i = 1 \/ i \in 2..Len(s)
    BY <1>2
  <2>2. \A i \in 2..Len(s) : i \in 1..Len(s) /\ s[i] # s[1]
    BY <1>2, <1>3, <1>4
  <2> QED
    BY <1>2, <1>5, <2>1, <2>2
<1>7. \A c \in Range(Tail(s)) : Head(s) < c
  BY <1>2, <1>3, <1>5
<1>8. Head(s) \in Range(s) /\ Range(s) \subseteq Captures
  BY <1>2, <1>5
<1>9. Ascending(Tail(s))
  <2> SUFFICES ASSUME NEW i \in 1..Len(s) - 1, NEW j \in 1..Len(s) - 1, i < j
               PROVE  Tail(s)[i] < Tail(s)[j]
    BY <1>2 DEF Ascending
  <2>1. i + 1 \in 1..Len(s) /\ j + 1 \in 1..Len(s) /\ i + 1 < j + 1
    BY <1>2
  <2> QED
    BY <1>2, <2>1 DEF Ascending
<1> QED
  BY <1>2, <1>6, <1>7, <1>8, <1>9

LEMMA AppendQueue ==
  ASSUME NEW s \in Seq(Captures), Ascending(s), NEW c \in Captures, \A d \in Range(s) : d < c
  PROVE  /\ Append(s, c) \in Seq(Captures) /\ Ascending(Append(s, c))
         /\ Range(Append(s, c)) = Range(s) \cup {c}
         /\ Len(Append(s, c)) = Len(s) + 1 /\ Len(s) \in Nat
         /\ Range(s) \subseteq Captures /\ c \notin Range(s)
<1> DEFINE t == Append(s, c)
<1>1. /\ Len(s) \in Nat /\ DOMAIN s = 1..Len(s) /\ t \in Seq(Captures)
      /\ Len(t) = Len(s) + 1 /\ DOMAIN t = 1..Len(s) + 1
      /\ \A i \in 1..Len(s) : t[i] = s[i] /\ s[i] \in Captures
      /\ t[Len(s) + 1] = c
  OBVIOUS
<1> HIDE DEF t
<1>2. \A i \in 1..Len(s) + 1 : i \in 1..Len(s) \/ i = Len(s) + 1
  BY <1>1
<1>3. Range(s) = {s[i] : i \in 1..Len(s)} /\ Range(t) = {t[i] : i \in 1..Len(s) + 1}
  BY <1>1 DEF Range
<1>4. Range(t) = Range(s) \cup {c}
  <2>1. \A i \in 1..Len(s) : i \in 1..Len(s) + 1
    BY <1>1
  <2>2. Len(s) + 1 \in 1..Len(s) + 1
    BY <1>1
  <2> QED
    BY <1>1, <1>2, <1>3, <2>1, <2>2
<1>5. Ascending(t)
  <2> SUFFICES ASSUME NEW i \in 1..Len(s) + 1, NEW j \in 1..Len(s) + 1, i < j
               PROVE  t[i] < t[j]
    BY <1>1 DEF Ascending
  <2>1. i \in 1..Len(s)
    BY <1>1
  <2>2. CASE j \in 1..Len(s)
    BY <1>1, <2>1, <2>2 DEF Ascending
  <2>3. CASE j = Len(s) + 1
    BY <1>1, <1>3, <2>1, <2>3
  <2> QED
    BY <1>2, <2>2, <2>3
<1>6. c \notin Range(s) /\ Range(s) \subseteq Captures
  <2>1. ~(c < c)
    BY FeedAssumption
  <2> QED
    BY <1>1, <1>3, <2>1
<1> QED
  BY <1>1, <1>4, <1>5, <1>6 DEF t

-----------------------------------------------------------------------------
(* Reserved bytes                                                          *)
Slots(bytes, C) == UNION {{c} \X (1 .. bytes[c]) : c \in C}

LEMMA SlotsOfOne ==
  ASSUME NEW bytes, NEW c, bytes[c] \in Nat
  PROVE  IsFiniteSet({c} \X (1 .. bytes[c])) /\ Cardinality({c} \X (1 .. bytes[c])) = bytes[c]
<1>1. IsFiniteSet(1 .. bytes[c]) /\ Cardinality(1 .. bytes[c]) = bytes[c]
  BY FS_Interval
<1>2. IsFiniteSet({c}) /\ Cardinality({c}) = 1
  BY FS_Singleton
<1>3. /\ IsFiniteSet({c} \X (1 .. bytes[c]))
      /\ Cardinality({c} \X (1 .. bytes[c])) = Cardinality({c}) * Cardinality(1 .. bytes[c])
  BY <1>1, <1>2, FS_Product
<1> QED
  BY <1>1, <1>2, <1>3

LEMMA SlotsGrow ==
  ASSUME NEW bytes, NEW C, NEW c, c \notin C, bytes[c] \in Nat, IsFiniteSet(Slots(bytes, C))
  PROVE  /\ IsFiniteSet(Slots(bytes, C \cup {c}))
         /\ Cardinality(Slots(bytes, C)) \in Nat
         /\ Cardinality(Slots(bytes, C \cup {c})) = Cardinality(Slots(bytes, C)) + bytes[c]
<1> DEFINE A == Slots(bytes, C)
           B == {c} \X (1 .. bytes[c])
<1>1. IsFiniteSet(B) /\ Cardinality(B) = bytes[c]
  BY SlotsOfOne
<1>2. Slots(bytes, C \cup {c}) = A \cup B
  BY DEF Slots
<1>3. A \cap B = {}
  BY DEF Slots
<1> HIDE DEF A, B
<1>4. IsFiniteSet(A) /\ Cardinality(A) \in Nat
  BY FS_CardinalityType DEF A
<1>5. /\ IsFiniteSet(A \cup B)
      /\ Cardinality(A \cup B) = Cardinality(A) + Cardinality(B) - Cardinality(A \cap B)
  BY <1>1, <1>4, FS_Union
<1>6. Cardinality(A \cup B) = Cardinality(A) + bytes[c]
  <2>1. Cardinality(A \cap B) = 0
    BY <1>3, FS_EmptySet
  <2> QED
    BY <1>1, <1>4, <1>5, <2>1
<1> QED
  BY <1>2, <1>4, <1>5, <1>6 DEF A

LEMMA SlotsFinite ==
  ASSUME NEW bytes \in [Captures -> Nat], NEW C \in SUBSET Captures
  PROVE  IsFiniteSet(Slots(bytes, C)) /\ Cardinality(Slots(bytes, C)) \in Nat
<1> DEFINE P == {{c} \X (1 .. bytes[c]) : c \in C}
<1>1. IsFiniteSet(C)
  BY FeedAssumption, FS_Subset
<1>2. IsFiniteSet(P)
  <2> DEFINE f == [c \in C |-> {c} \X (1 .. bytes[c])]
  <2>1. f \in Surjection(C, P)
    <3>1. f \in [C -> P] /\ \A p \in P : \E c \in C : f[c] = p
      OBVIOUS
    <3> QED
      BY <3>1 DEF Surjection
  <2> HIDE DEF f, P
  <2> QED
    BY <1>1, <2>1, FS_Surjection
<1>3. \A p \in P : IsFiniteSet(p)
  BY SlotsOfOne
<1>4. IsFiniteSet(UNION P)
  <2> HIDE DEF P
  <2> QED
    BY <1>2, <1>3, FS_UNION
<1> QED
  BY <1>4, FS_CardinalityType DEF Slots
-----------------------------------------------------------------------------
(* Where a capture of the listing is: it has a row, is in one of the       *)
(* queues, or has still to be taken, and these are ahead of one another.   *)
ReadCost  == [c \in Captures |-> ReadReservation(c)]
ParseCost == [c \in Captures |-> ParseReservation(c)]

Live == {"fill", "next", "consume", "drain", "flush", "finished"}
Row == Captures \X {"unreadable", "reused", "parsed", "malformed"}

Handed == {hand} \ {None}
Kept == {deferred} \ {None}
Untaken == Kept \cup Range(captures)
Ahead == Handed \cup Range(window) \cup Untaken
Undecided == Range(queue) \cup Ahead

FeedTyped ==
  /\ pc \in {"list", "closing", "failed"} \cup Live
  /\ bucket \in BOOLEAN /\ parsers \in Nat \ {0} /\ Selected \subseteq Captures
  /\ captures \in Seq(Captures) /\ window \in Seq(Captures) /\ queue \in Seq(Captures)
  /\ deferred \in Captures \cup {None} /\ hand \in Captures \cup {None}
  /\ read \in [Captures -> {"none", "queued", "reading", "whole", "error", "cancelled"}]
  /\ parse \in [Captures -> {"none", "submitted", "done", "broken"}]
  /\ rows \in Seq(Row) /\ batch \in Seq(Row)

InLine ==
  /\ Ascending(captures) /\ Ascending(window) /\ Ascending(queue)
  /\ \A c \in Range(queue), d \in Ahead : c < d
  /\ \A c \in Handed, d \in Range(window) \cup Untaken : c < d
  /\ \A c \in Range(window), d \in Untaken : c < d
  /\ \A c \in Kept, d \in Range(captures) : c < d

Accounted ==
  /\ Decided \subseteq Selected
  /\ pc \in Live => Selected = Decided \cup Undecided /\ Decided \cap Undecided = {}

(* What the rows w say is true of the selected captures S, those known K   *)
(* and those that can be read R; and each row that comes from parsing      *)
(* follows those of all earlier captures that are parsed.                  *)
ParsesOf(w) == {i \in 1 .. Len(w) : w[i][2] \in {"parsed", "malformed"}}
Earlier(n, S, R) == {c \in S : c < n /\ c \in R}
Distinct(w) == \A i, j \in 1 .. Len(w) : w[i][1] = w[j][1] => i = j
Truthful(w, K, R) ==
  \A i \in 1 .. Len(w) : /\ w[i][2] = "unreadable" => w[i][1] \notin R
                         /\ w[i][2] = "reused" => w[i][1] \in K
Complete(w, S, K, R) ==
  \A i \in ParsesOf(w) :
    /\ w[i][1] \notin K /\ w[i][1] \in R
    /\ Earlier(w[i][1], S \ K, R) = {w[j][1] : j \in {k \in ParsesOf(w) : k < i}}
Sound(w, S, K, R) == Distinct(w) /\ Truthful(w, K, R) /\ Complete(w, S, K, R)

Legible == {c \in Captures : Readable(c)}
Sounding == Sound(Written, Selected, known, Legible)

Behind == pc \in Live => \A i \in Parses, c \in Undecided : Written[i][1] < c

Tasks ==
  /\ ~bucket => /\ window = <<>> /\ deferred = None /\ pc # "fill"
                /\ \A c \in Captures : read[c] \in {"none", "whole", "error"}
  /\ \A c \in Range(queue) \cup Handed : Readable(c)
  /\ \A c \in Range(queue) : c \notin known
  /\ parsers = 1 => queue = <<>>
  /\ pc \in Live \cup {"list"} =>
       \A c \in Captures : /\ read[c] \in {"queued", "reading"} => c \in Range(window)
                           /\ parse[c] = "submitted" => c \in Range(queue)
  /\ pc \in {"closing", "failed"} => \A c \in Captures : read[c] # "queued"
  /\ pc = "failed" => ~Busy

Control ==
  /\ pc = "list" => /\ captures = <<>> /\ deferred = None /\ window = <<>>
                    /\ hand = None /\ queue = <<>> /\ rows = <<>> /\ batch = <<>>
  /\ pc \in {"next", "drain", "flush", "finished"} => hand = None
  /\ pc = "consume" => hand # None
  /\ pc \in {"next", "consume", "drain"} /\ bucket /\ window = <<>> =>
       captures = <<>> /\ deferred = None
  /\ pc \in {"flush", "finished"} => captures = <<>> /\ deferred = None /\ window = <<>>
  /\ pc = "finished" => queue = <<>> /\ batch = <<>>

Budgets ==
  /\ windowBytes = Reserved(ReadCost, window) /\ queueBytes = Reserved(ParseCost, queue)
  /\ Len(window) <= ReadPrefetch
  /\ windowBytes <= ReadBytes \/ Len(window) = 1
  /\ pc \in {"next", "consume", "fill"} => ~Overfull

FeedInv ==
  FeedTyped /\ InLine /\ Accounted /\ Sounding /\ Behind /\ Tasks /\ Control /\ Budgets


LEMMA Appended ==
  ASSUME NEW w \in Seq(Row), NEW row \in Row
  PROVE  /\ Append(w, row) \in Seq(Row) /\ Len(Append(w, row)) = Len(w) + 1 /\ Len(w) \in Nat
         /\ \A i \in 1 .. Len(w) : Append(w, row)[i] = w[i] /\ w[i] \in Row
         /\ Append(w, row)[Len(w) + 1] = row
         /\ \A i \in 1 .. Len(w) + 1 : i \in 1 .. Len(w) \/ i = Len(w) + 1
OBVIOUS

LEMMA SoundAppend ==
  ASSUME NEW w \in Seq(Row), NEW S, NEW K, NEW R, Sound(w, S, K, R), NEW row \in Row,
         \A i \in 1 .. Len(w) : w[i][1] # row[1],
         row[2] = "unreadable" => row[1] \notin R,
         row[2] = "reused" => row[1] \in K,
         row[2] \in {"parsed", "malformed"} =>
           /\ row[1] \notin K /\ row[1] \in R
           /\ Earlier(row[1], S \ K, R) = {w[j][1] : j \in ParsesOf(w)}
  PROVE  /\ Sound(Append(w, row), S, K, R)
         /\ \A i \in ParsesOf(Append(w, row)) :
              i \in ParsesOf(w) \/ (i = Len(w) + 1 /\ row[2] \in {"parsed", "malformed"})
<1> DEFINE v == Append(w, row)
           n == Len(w)
<1>1. /\ v \in Seq(Row) /\ Len(v) = n + 1 /\ n \in Nat
      /\ \A i \in 1 .. n : v[i] = w[i] /\ w[i] \in Row
      /\ v[n + 1] = row
      /\ \A i \in 1 .. n + 1 : i \in 1 .. n \/ i = n + 1
  BY Appended
<1> HIDE DEF v, n
<1>2. \A i : i \in ParsesOf(v) <=> i \in ParsesOf(w)
      \/ (i = n + 1 /\ row[2] \in {"parsed", "malformed"})
  BY <1>1 DEF ParsesOf, n
<1>3. \A i \in ParsesOf(w) : i \in 1 .. n
  BY DEF ParsesOf, n
<1>4. \A i, j \in 1 .. Len(v) : v[i][1] = v[j][1] => i = j
  BY <1>1 DEF Sound, Distinct, n
<1>5. \A i \in 1 .. Len(v) : /\ v[i][2] = "unreadable" => v[i][1] \notin R
                             /\ v[i][2] = "reused" => v[i][1] \in K
  <2>1. \A i \in 1 .. n : /\ w[i][2] = "unreadable" => w[i][1] \notin R
                          /\ w[i][2] = "reused" => w[i][1] \in K
    BY DEF Sound, Truthful, n
  <2> TAKE i \in 1 .. Len(v)
  <2>2. CASE i \in 1 .. n
    <3>1. v[i] = w[i]
      BY <1>1, <2>2
    <3> QED
      BY <2>1, <2>2, <3>1
  <2>3. CASE i = n + 1
    BY <1>1, <2>3
  <2> QED
    BY <1>1, <2>2, <2>3
<1>6. ASSUME NEW i \in ParsesOf(v)
      PROVE  /\ v[i][1] \notin K /\ v[i][1] \in R
             /\ Earlier(v[i][1], S \ K, R) = {v[j][1] : j \in {k \in ParsesOf(v) : k < i}}
  <2>1. CASE i \in ParsesOf(w)
    <3>1. i \in 1 .. n
      BY <1>3, <2>1
    <3>2. \A k : k \in ParsesOf(v) /\ k < i <=> k \in ParsesOf(w) /\ k < i
      BY <1>1, <1>2, <1>3, <3>1
    <3>3. {v[j][1] : j \in {k \in ParsesOf(v) : k < i}} = {w[j][1] : j \in {k \in ParsesOf(w) : k < i}}
      BY <1>1, <1>3, <3>2
    <3>4. v[i] = w[i]
      BY <1>1, <3>1
    <3> QED
      BY <2>1, <3>3, <3>4 DEF Sound, Complete
  <2>2. CASE i = n + 1 /\ row[2] \in {"parsed", "malformed"}
    <3>1. \A k : k \in ParsesOf(v) /\ k < i <=> k \in ParsesOf(w)
      <4> TAKE k
      <4>1. k \in ParsesOf(w) => k < i
        BY <1>1, <1>3, <2>2
      <4>2. k = n + 1 => ~(k < i)
        BY <1>1, <2>2
      <4> QED
        BY <1>2, <4>1, <4>2
    <3>2. {v[j][1] : j \in {k \in ParsesOf(v) : k < i}} = {w[j][1] : j \in ParsesOf(w)}
      BY <1>1, <1>3, <3>1
    <3> QED
      BY <1>1, <2>2, <3>2
  <2> QED
    BY <1>2, <2>1, <2>2
<1> QED
  BY <1>2, <1>4, <1>5, <1>6 DEF Sound, Distinct, Truthful, Complete, v, n

LEMMA SoundPrefix ==
  ASSUME NEW w \in Seq(Row), NEW b \in Seq(Row), NEW S, NEW K, NEW R, Sound(w \o b, S, K, R)
  PROVE  Sound(w, S, K, R)
<1> DEFINE v == w \o b
<1>1. /\ Len(w) \in Nat /\ Len(b) \in Nat /\ Len(v) = Len(w) + Len(b)
      /\ \A i \in 1 .. Len(w) : v[i] = w[i] /\ i \in 1 .. Len(v)
  OBVIOUS
<1> HIDE DEF v
<1>2. \A i : i \in ParsesOf(w) <=> i \in ParsesOf(v) /\ i \in 1 .. Len(w)
  BY <1>1 DEF ParsesOf
<1>3. ASSUME NEW i \in ParsesOf(w)
      PROVE  {w[j][1] : j \in {k \in ParsesOf(w) : k < i}} = {v[j][1] : j \in {k \in ParsesOf(v) : k < i}}
  <2>1. i \in 1 .. Len(w)
    BY DEF ParsesOf
  <2>2. \A k : k \in ParsesOf(w) /\ k < i <=> k \in ParsesOf(v) /\ k < i
    <3>1. \A k \in ParsesOf(v) : k \in 1 .. Len(v)
      BY DEF ParsesOf
    <3> TAKE k
    <3>2. k \in ParsesOf(v) /\ k < i => k \in 1 .. Len(w)
      BY <1>1, <2>1, <3>1
    <3> QED
      BY <1>2, <3>2
  <2>3. \A k \in ParsesOf(w) : w[k] = v[k]
    BY <1>1, <1>2
  <2> QED
    BY <2>2, <2>3
<1>4. Sound(v, S, K, R)
  BY DEF v
<1>5. \A i, j \in 1 .. Len(w) : w[i][1] = w[j][1] => i = j
  <2>1. \A i, j \in 1 .. Len(v) : v[i][1] = v[j][1] => i = j
    BY <1>4 DEF Sound, Distinct
  <2> QED
    BY <1>1, <2>1
<1>6. \A i \in 1 .. Len(w) : /\ w[i][2] = "unreadable" => w[i][1] \notin R
                             /\ w[i][2] = "reused" => w[i][1] \in K
  <2>1. \A i \in 1 .. Len(v) : /\ v[i][2] = "unreadable" => v[i][1] \notin R
                               /\ v[i][2] = "reused" => v[i][1] \in K
    BY <1>4 DEF Sound, Truthful
  <2> QED
    BY <1>1, <2>1
<1>7. ASSUME NEW i \in ParsesOf(w)
      PROVE  /\ w[i][1] \notin K /\ w[i][1] \in R
             /\ Earlier(w[i][1], S \ K, R) = {w[j][1] : j \in {k \in ParsesOf(w) : k < i}}
  <2>1. i \in ParsesOf(v) /\ v[i] = w[i]
    BY <1>1, <1>2
  <2>2. /\ v[i][1] \notin K /\ v[i][1] \in R
        /\ Earlier(v[i][1], S \ K, R) = {v[j][1] : j \in {k \in ParsesOf(v) : k < i}}
    BY <1>4, <2>1 DEF Sound, Complete
  <2> QED
    BY <1>3, <2>1, <2>2
<1> QED
  BY <1>5, <1>6, <1>7 DEF Sound, Distinct, Truthful, Complete

LEMMA SoundKept ==
  ASSUME NEW w, NEW S, NEW K, NEW R, NEW Q, Sound(w, S, K, R),
         \A i \in 1 .. Len(w) : w[i][1] \in Q <=> w[i][1] \in R,
         \A i \in ParsesOf(w) : \A c \in S : c < w[i][1] => (c \in Q <=> c \in R)
  PROVE  Sound(w, S, K, Q)
<1>1. \A i \in ParsesOf(w) : Earlier(w[i][1], S \ K, Q) = Earlier(w[i][1], S \ K, R)
  BY DEF Earlier
<1>2. \A i \in ParsesOf(w) : i \in 1 .. Len(w)
  BY DEF ParsesOf
<1> QED
  BY <1>1, <1>2 DEF Sound, Distinct, Truthful, Complete

LEMMA EnterWrites ==
  ASSUME rows \in Seq(Row), batch \in Seq(Row), NEW row \in Row, Enter(row)
  PROVE  /\ Written' = Append(Written, row)
         /\ rows' \in Seq(Row) /\ batch' \in Seq(Row) /\ Written \in Seq(Row)
<1>1. rows \o Append(batch, row) = Append(rows \o batch, row)
  OBVIOUS
<1>2. \/ rows' = rows \o Append(batch, row) /\ batch' = <<>>
      \/ rows' = rows /\ batch' = Append(batch, row)
  BY DEF Enter
<1>3. (rows \o Append(batch, row)) \o <<>> = rows \o Append(batch, row)
  OBVIOUS
<1>4. CASE rows' = rows \o Append(batch, row) /\ batch' = <<>>
  <2>1. rows \o Append(batch, row) \in Seq(Row)
    OBVIOUS
  <2>2. Written' = rows' \o batch' /\ rows' = rows \o Append(batch, row) /\ batch' = <<>>
    BY <1>4 DEF Written
  <2>3. Written' = Append(Written, row)
    BY <1>1, <1>3, <2>2 DEF Written
  <2>4. rows' \in Seq(Row) /\ batch' \in Seq(Row)
    BY <2>1, <2>2
  <2>5. Written \in Seq(Row)
    BY DEF Written
  <2> QED
    BY <2>3, <2>4, <2>5
<1>5. CASE rows' = rows /\ batch' = Append(batch, row)
  <2>1. Append(batch, row) \in Seq(Row)
    OBVIOUS
  <2>2. Written' = rows' \o batch'
    BY DEF Written
  <2>3. Written' = Append(Written, row)
    BY <1>1, <1>5, <2>2 DEF Written
  <2>4. Written \in Seq(Row)
    BY DEF Written
  <2> QED
    BY <1>5, <2>1, <2>3, <2>4
<1> QED
  BY <1>2, <1>4, <1>5

LEMMA DecidedIs ==
  /\ Parses = ParsesOf(Written)
  /\ \A i \in 1 .. Len(Written) : Written[i][1] \in Decided
  /\ \A c \in Decided : \E i \in 1 .. Len(Written) : Written[i][1] = c
  /\ \A i \in Parses : i \in 1 .. Len(Written)
BY DEF Parses, ParsesOf, Decided

(* A row is written of a capture that had none; one that comes from        *)
(* parsing is of the first capture that has none.                          *)
LEMMA RowStep ==
  ASSUME FeedInv, pc \in Live, pc' \in Live, UNCHANGED world,
         NEW row \in Row, Enter(row), row[1] \in Undecided,
         Undecided' = Undecided \ {row[1]},
         \A c \in Captures \ {row[1]} : c \in Legible' <=> c \in Legible,
         row[2] = "unreadable" => row[1] \notin Legible',
         row[2] = "reused" => row[1] \in known,
         row[2] \in {"parsed", "malformed"} =>
           /\ row[1] \notin known /\ row[1] \in Legible'
           /\ \A c \in Undecided : c = row[1] \/ row[1] < c
  PROVE  /\ rows' \in Seq(Row) /\ batch' \in Seq(Row)
         /\ Sounding' /\ Accounted' /\ Behind'
<1> DEFINE w == Written
           c == row[1]
           n == Len(Written)
<1>1. /\ Written' = Append(w, row) /\ rows' \in Seq(Row) /\ batch' \in Seq(Row)
      /\ w \in Seq(Row)
  BY EnterWrites DEF FeedInv, FeedTyped
<1>2. /\ Selected' = Selected /\ known' = known /\ bucket' = bucket
  BY DEF world, Selected
<1>3. /\ c \in Captures /\ Captures \subseteq Nat /\ Selected \subseteq Captures
      /\ Selected = Decided \cup Undecided /\ Decided \cap Undecided = {}
      /\ \A i \in Parses, d \in Undecided : Written[i][1] < d
      /\ Sound(w, Selected, known, Legible)
  BY FeedAssumption DEF FeedInv, FeedTyped, Accounted, Behind, Sounding, Row
<1>4. /\ \A i \in 1 .. n : w[i] \in Row /\ w[i][1] \in Selected /\ w[i][1] # c
      /\ \A i \in Parses : i \in 1 .. n
  BY <1>1, <1>3, DecidedIs
<1>5. Sound(w, Selected, known, Legible')
  <2>1. \A i \in 1 .. Len(w) : w[i][1] \in Legible' <=> w[i][1] \in Legible
    BY <1>3, <1>4
  <2>2. ASSUME NEW i \in ParsesOf(w), NEW d \in Selected, d < w[i][1]
        PROVE  d \in Legible' <=> d \in Legible
    <3>1. w[i][1] < c /\ w[i][1] \in Captures
      BY <1>3, <1>4, DecidedIs
    <3>2. d # c
      <4>1. w[i][1] \in Nat /\ c \in Nat
        BY <1>3, <3>1
      <4> QED
        BY <2>2, <3>1, <4>1
    <3> QED
      BY <1>3, <3>2
  <2> HIDE DEF w
  <2> QED
    BY <1>3, <2>1, <2>2, SoundKept
<1>6. ASSUME row[2] \in {"parsed", "malformed"}
      PROVE  Earlier(c, Selected \ known, Legible') = {w[j][1] : j \in ParsesOf(w)}
  <2>1. ASSUME NEW d \in Earlier(c, Selected \ known, Legible')
        PROVE  d \in {w[j][1] : j \in ParsesOf(w)}
    <3>1. d \in Selected /\ d \notin known /\ d < c /\ d \in Legible'
      BY DEF Earlier
    <3>2. d \in Legible /\ d \notin Undecided
      <4>1. d \in Nat /\ c \in Nat /\ d \in Captures
        BY <1>3, <3>1
      <4>2. d # c /\ ~(c < d)
        BY <3>1, <4>1
      <4>3. \A e \in Undecided : e = c \/ c < e
        BY <1>6
      <4>4. d \in Legible
        BY <3>1, <4>1, <4>2
      <4> QED
        BY <4>2, <4>3, <4>4
    <3>3. PICK j \in 1 .. n : w[j][1] = d
      BY <1>3, <3>1, <3>2, DecidedIs
    <3>4. w[j][2] # "unreadable" /\ w[j][2] # "reused"
      BY <1>3, <3>1, <3>2, <3>3 DEF Sound, Truthful
    <3>5. w[j][2] \in {"parsed", "malformed"}
      BY <1>4, <3>4 DEF Row
    <3> QED
      BY <3>3, <3>5 DEF ParsesOf
  <2>2. ASSUME NEW j \in ParsesOf(w)
        PROVE  w[j][1] \in Earlier(c, Selected \ known, Legible')
    <3>1. w[j][1] \notin known /\ w[j][1] \in Legible
      BY <1>3 DEF Sound, Complete
    <3>2. w[j][1] \in Selected /\ w[j][1] < c
      BY <1>3, <1>4, DecidedIs
    <3>3. w[j][1] \in Legible'
      BY <1>3, <1>4, <3>1, <3>2, DecidedIs
    <3> QED
      BY <3>1, <3>2, <3>3 DEF Earlier
  <2> QED
    BY <2>1, <2>2
<1>7. /\ Sound(Append(w, row), Selected, known, Legible')
      /\ \A i \in ParsesOf(Append(w, row)) :
           i \in ParsesOf(w) \/ (i = n + 1 /\ row[2] \in {"parsed", "malformed"})
  <2>1. \A i \in 1 .. Len(w) : w[i][1] # row[1]
    BY <1>4
  <2>2. row[2] \in {"parsed", "malformed"} =>
          /\ row[1] \notin known /\ row[1] \in Legible'
          /\ Earlier(row[1], Selected \ known, Legible') = {w[j][1] : j \in ParsesOf(w)}
    BY <1>6
  <2> HIDE DEF w
  <2>3. /\ Sound(Append(w, row), Selected, known, Legible')
        /\ \A i \in ParsesOf(Append(w, row)) :
             i \in ParsesOf(w) \/ (i = Len(w) + 1 /\ row[2] \in {"parsed", "malformed"})
    BY <1>1, <1>5, <2>1, <2>2, SoundAppend
  <2> QED
    BY <2>3 DEF w
<1>8. Sounding'
  BY <1>1, <1>2, <1>7 DEF Sounding
<1>9. /\ Len(Written') = n + 1 /\ n \in Nat
      /\ \A i \in 1 .. n : Written'[i] = w[i]
      /\ Written'[n + 1] = row
      /\ \A i \in 1 .. n + 1 : i \in 1 .. n \/ i = n + 1
      /\ n + 1 \in 1 .. n + 1 /\ \A i \in 1 .. n : i \in 1 .. n + 1
  BY <1>1, Appended
<1>10. Decided' = Decided \cup {c}
  BY <1>9 DEF Decided
<1>11. Accounted'
  BY <1>2, <1>3, <1>10 DEF Accounted
<1>12. Behind'
  <2>1. Parses' = ParsesOf(Append(w, row))
    BY <1>1, DecidedIs DEF Parses, ParsesOf
  <2>2. ASSUME NEW i \in Parses', NEW d \in Undecided' PROVE Written'[i][1] < d
    <3>1. d \in Undecided /\ d # c
      OBVIOUS
    <3>2. CASE i \in ParsesOf(w)
      BY <1>3, <1>4, <1>9, <3>1, <3>2, DecidedIs
    <3>3. CASE i = n + 1 /\ row[2] \in {"parsed", "malformed"}
      BY <1>9, <3>1, <3>3
    <3> QED
      BY <1>7, <2>1, <3>2, <3>3
  <2> QED
    BY <2>2 DEF Behind
<1> QED
  BY <1>1, <1>8, <1>11, <1>12

-----------------------------------------------------------------------------
LEMMA Costs ==
  /\ ReadCost \in [Captures -> Nat] /\ ParseCost \in [Captures -> Nat]
  /\ \A c \in Captures : ReadCost[c] = ReadReservation(c) /\ ParseCost[c] = ParseReservation(c)
<1>1. ASSUME NEW c \in Captures PROVE ReadReservation(c) \in Nat
      /\ ParseReservation(c) \in Nat
  BY FeedAssumption DEF ReadReservation, ParseReservation, Largest
<1> QED
  BY <1>1 DEF ReadCost, ParseCost

LEMMA TailReserved ==
  ASSUME NEW s \in Seq(Captures), s # <<>>, Ascending(s), NEW cost \in [Captures -> Nat]
  PROVE  /\ Reserved(cost, Tail(s)) = Reserved(cost, s) - cost[Head(s)]
         /\ Reserved(cost, Tail(s)) \in Nat /\ cost[Head(s)] \in Nat
<1> DEFINE C == Range(Tail(s))
           h == Head(s)
<1>1. h \in Captures /\ C \subseteq Captures /\ h \notin C /\ Range(s) = C \cup {h}
  BY TailQueue
<1> HIDE DEF C, h
<1>2. IsFiniteSet(Slots(cost, C)) /\ Cardinality(Slots(cost, C)) \in Nat
  BY <1>1, SlotsFinite
<1>3. cost[h] \in Nat
  BY <1>1
<1>4. Cardinality(Slots(cost, C \cup {h})) = Cardinality(Slots(cost, C)) + cost[h]
  BY <1>1, <1>2, <1>3, SlotsGrow
<1> QED
  BY <1>1, <1>2, <1>3, <1>4 DEF Reserved, Slots, C, h

LEMMA AppendReserved ==
  ASSUME NEW s \in Seq(Captures), Ascending(s), NEW c \in Captures, \A d \in Range(s) : d < c,
         NEW cost \in [Captures -> Nat]
  PROVE  /\ Reserved(cost, Append(s, c)) = Reserved(cost, s) + cost[c]
         /\ Reserved(cost, s) \in Nat
<1> DEFINE C == Range(s)
<1>1. C \subseteq Captures /\ c \notin C /\ Range(Append(s, c)) = C \cup {c}
  BY AppendQueue
<1> HIDE DEF C
<1>2. IsFiniteSet(Slots(cost, C)) /\ Cardinality(Slots(cost, C)) \in Nat
  BY <1>1, SlotsFinite
<1>3. cost[c] \in Nat
  OBVIOUS
<1>4. Cardinality(Slots(cost, C \cup {c})) = Cardinality(Slots(cost, C)) + cost[c]
  BY <1>1, <1>2, <1>3, SlotsGrow
<1> QED
  BY <1>1, <1>2, <1>4 DEF Reserved, Slots, C

LEMMA NoneReserved ==
  \A cost : Reserved(cost, <<>>) = 0
<1> TAKE cost
<1>1. UNION {{c} \X (1 .. cost[c]) : c \in Range(<<>>)} = {}
  BY EmptyQueue
<1> QED
  BY <1>1, FS_EmptySet DEF Reserved

(* A step that writes no row and moves captures among the undecided.       *)
LEMMA QuietStep ==
  ASSUME FeedInv, pc \in Live, pc' \in Live, UNCHANGED world, Written' = Written,
         Undecided' = Undecided,
         \A c \in Captures \ Undecided : c \in Legible' <=> c \in Legible
  PROVE  Sounding' /\ Accounted' /\ Behind'
<1> DEFINE w == Written
<1>1. Selected' = Selected /\ known' = known
  BY DEF world, Selected
<1>2. Decided' = Decided /\ Parses' = Parses
  BY DEF Decided, Parses
<1>3. /\ Accounted /\ Behind /\ Sound(w, Selected, known, Legible)
      /\ Selected \subseteq Captures /\ Captures \subseteq Nat
  BY FeedAssumption DEF FeedInv, FeedTyped, Sounding
<1>4. Accounted' /\ Behind'
  BY <1>1, <1>2, <1>3 DEF Accounted, Behind
<1>5. \A i \in 1 .. Len(w) : w[i][1] \in Captures \ Undecided
  BY <1>3, DecidedIs DEF Accounted
<1>6. ASSUME NEW i \in ParsesOf(w), NEW c \in Selected, c < w[i][1]
      PROVE  c \in Legible' <=> c \in Legible
  <2>1. i \in Parses /\ i \in 1 .. Len(w) /\ w[i][1] \in Nat /\ c \in Nat
    BY <1>3, <1>5, DecidedIs
  <2>2. \A d \in Undecided : w[i][1] < d
    BY <1>3, <2>1 DEF Behind
  <2>3. c \notin Undecided
    BY <1>6, <2>1, <2>2
  <2> QED
    BY <1>3, <2>3
<1>7. Sound(w, Selected, known, Legible')
  <2>1. \A i \in 1 .. Len(w) : w[i][1] \in Legible' <=> w[i][1] \in Legible
    BY <1>5
  <2> HIDE DEF w
  <2> QED
    BY <1>3, <1>6, <2>1, SoundKept
<1> QED
  BY <1>1, <1>4, <1>7 DEF Sounding

(* A step of an ingest that fails, with the open transaction or without.   *)
LEMMA FailingStep ==
  ASSUME FeedInv, pc' \notin Live, UNCHANGED world, UNCHANGED rows,
         UNCHANGED batch \/ batch' = <<>>, Legible' = Legible
  PROVE  Sounding' /\ Accounted' /\ Behind'
<1>1. Selected' = Selected /\ known' = known
  BY DEF world, Selected
<1>2. /\ Decided \subseteq Selected /\ Sound(rows \o batch, Selected, known, Legible)
      /\ rows \in Seq(Row) /\ batch \in Seq(Row)
  BY DEF FeedInv, FeedTyped, Accounted, Sounding, Written
<1>3. CASE UNCHANGED batch
  <2>1. Written' = Written
    BY <1>3 DEF Written
  <2>2. Decided' = Decided
    BY <2>1 DEF Decided
  <2> QED
    BY <1>1, <1>2, <2>1, <2>2 DEF Sounding, Accounted, Behind, Written
<1>4. CASE batch' = <<>>
  <2>1. Written' = rows
    BY <1>2, <1>4 DEF Written
  <2>2. Sound(rows, Selected, known, Legible)
    BY <1>2, SoundPrefix
  <2>3. \A i \in 1 .. Len(rows) : i \in 1 .. Len(Written) /\ Written[i] = rows[i]
    BY <1>2 DEF Written
  <2>4. Decided' \subseteq Decided
    BY <2>1, <2>3 DEF Decided
  <2> QED
    BY <1>1, <1>2, <2>1, <2>2, <2>4 DEF Sounding, Accounted, Behind
<1> QED
  BY <1>3, <1>4

LEMMA FeedStarts == Init => FeedInv
<1> SUFFICES ASSUME Init PROVE FeedInv
  OBVIOUS
<1>1. /\ pc = "list" /\ captures = <<>> /\ deferred = None /\ window = <<>> /\ windowBytes = 0
      /\ hand = None /\ queue = <<>> /\ queueBytes = 0 /\ batch = <<>> /\ rows = <<>>
      /\ read = [c \in Captures |-> "none"] /\ parse = [c \in Captures |-> "none"]
  BY DEF Init
<1>2. Written = <<>> /\ Len(Written) = 0
  BY <1>1 DEF Written
<1>3. FeedTyped
  <2>1. Selected \subseteq Captures
    <3>1. listing \in Seq(Captures \cup {Marker})
      BY FeedAssumption DEF Init
    <3> QED
      BY <3>1 DEF Selected, Range
  <2>2. <<>> \in Seq(Row)
    OBVIOUS
  <2> QED
    BY <1>1, <2>1, <2>2, FeedAssumption, EmptyQueue DEF Init, FeedTyped
<1>4. InLine
  BY <1>1, EmptyQueue DEF InLine, Ahead, Handed, Untaken, Kept
<1>5. Accounted
  BY <1>1, <1>2 DEF Accounted, Decided, Live
<1>6. Sounding
  BY <1>2 DEF Sounding, Sound, Distinct, Truthful, Complete, ParsesOf
<1>7. Behind
  BY <1>1 DEF Behind, Live
<1>8. Tasks
  BY <1>1, EmptyQueue DEF Tasks, Live, Handed
<1>9. Control
  BY <1>1 DEF Control
<1>10. Budgets
  BY <1>1, EmptyQueue, NoneReserved, FeedAssumption DEF Budgets
<1> QED
  BY <1>3, <1>4, <1>5, <1>6, <1>7, <1>8, <1>9, <1>10 DEF FeedInv
-----------------------------------------------------------------------------
LEMMA ListStep == FeedInv /\ List => FeedInv'
<1> SUFFICES ASSUME FeedInv, List PROVE FeedInv'
  OBVIOUS
<1>1. /\ FeedTyped /\ InLine /\ Accounted /\ Sounding /\ Behind /\ Tasks /\ Control /\ Budgets
      /\ pc = "list" /\ UNCHANGED <<listing, known, bucket, parsers>>
      /\ deferred' = deferred /\ window' = window /\ windowBytes' = windowBytes
      /\ read' = read
      /\ hand' = hand /\ queue' = queue /\ queueBytes' = queueBytes /\ parse' = parse
      /\ batch' = batch /\ rows' = rows
  BY DEF FeedInv, List, world, parsing, tables
<1>2. /\ captures = <<>> /\ deferred = None /\ window = <<>> /\ hand = None /\ queue = <<>>
      /\ rows = <<>> /\ batch = <<>>
  BY <1>1 DEF Control
<1>3. Written = <<>> /\ Len(Written) = 0 /\ Written' = <<>>
  BY <1>1, <1>2 DEF Written
<1>4. Selected' = Selected /\ known' = known /\ bucket' = bucket /\ Legible' = Legible
  BY <1>1 DEF Selected, Legible, Readable
<1>5. Sounding'
  BY <1>1, <1>3, <1>4 DEF Sounding
<1>6. Decided' = {}
  BY <1>3 DEF Decided
<1>7. CASE IsInjective(listing)
  <2>1. PICK ordered \in [1 .. Cardinality(Selected) -> Selected] :
          Ascending(ordered) /\ captures' = ordered
    BY <1>7 DEF List
  <2>2. pc' = (IF bucket THEN "fill" ELSE "next")
    BY <1>7 DEF List
  <2>3. IsFiniteSet(Selected) /\ Cardinality(Selected) \in Nat
    BY <1>1, FeedAssumption, FS_Subset, FS_CardinalityType DEF FeedTyped
  <2>4. /\ captures' \in Seq(Captures) /\ Len(captures') = Cardinality(Selected)
        /\ DOMAIN captures' = 1 .. Cardinality(Selected)
    <3>1. ordered \in Seq(Selected)
      BY <2>3
    <3>2. ordered \in Seq(Captures)
      BY <1>1, <3>1 DEF FeedTyped
    <3> QED
      BY <2>1, <2>3, <3>2
  <2>5. Range(captures') = Selected
    <3>1. captures' \in Injection(1 .. Cardinality(Selected), Selected)
      <4>1. ASSUME NEW i \in 1 .. Cardinality(Selected), NEW j \in 1 .. Cardinality(Selected),
                   captures'[i] = captures'[j]
            PROVE  i = j
        <5>1. captures'[i] \in Nat /\ captures'[j] \in Nat
          BY <1>1, <2>1, FeedAssumption DEF FeedTyped
        <5>2. i < j => captures'[i] < captures'[j]
          BY <2>1, <2>4 DEF Ascending
        <5>3. j < i => captures'[j] < captures'[i]
          BY <2>1, <2>4 DEF Ascending
        <5> QED
          BY <2>3, <4>1, <5>1, <5>2, <5>3
      <4> QED
        BY <2>1, <4>1 DEF Injection, IsInjective
    <3>2. IsFiniteSet(1 .. Cardinality(Selected))
          /\ Cardinality(1 .. Cardinality(Selected)) = Cardinality(Selected)
      BY <2>3, FS_Interval
    <3> DEFINE I == 1 .. Cardinality(Selected)
    <3> HIDE DEF I
    <3>3. captures' \in Surjection(I, Selected)
      BY <2>3, <3>1, <3>2, FS_Injection DEF I
    <3> QED
      BY <2>1, <2>4, <3>3 DEF I, Surjection, Range
  <2>6. /\ Range(queue') = {} /\ Handed' = {} /\ Range(window') = {} /\ Kept' = {}
    BY <1>1, <1>2, EmptyQueue DEF Handed, Kept
  <2>7. Undecided' = Selected
    BY <2>5, <2>6 DEF Undecided, Ahead, Untaken
  <2>8. FeedTyped'
    BY <1>1, <1>4, <2>2, <2>4 DEF FeedTyped, Live
  <2>9. InLine'
    BY <1>1, <1>2, <2>1, <2>6, EmptyQueue DEF InLine
  <2>10. Accounted'
    BY <1>4, <1>6, <2>7 DEF Accounted
  <2>11. Behind'
    BY <1>3 DEF Behind, Parses
  <2>12. Tasks'
    BY <1>1, <1>2, <1>4, <2>2, <2>6, EmptyQueue DEF Tasks, Live
  <2>13. Control'
    BY <1>1, <1>2, <2>2 DEF Control
  <2>14. Budgets'
    <3>1. queueBytes = 0 /\ Len(queue) = 0
      BY <1>1, <1>2, NoneReserved DEF Budgets
    <3>2. ~Overfull'
      BY <1>1, <3>1, FeedAssumption DEF Overfull
    <3> QED
      BY <1>1, <3>2 DEF Budgets
  <2> QED
    BY <1>5, <2>8, <2>9, <2>10, <2>11, <2>12, <2>13, <2>14 DEF FeedInv
<1>8. CASE ~IsInjective(listing)
  <2>1. pc' = "failed" /\ captures' = captures
    BY <1>8 DEF List
  <2>2. FeedTyped'
    BY <1>1, <1>4, <2>1 DEF FeedTyped, Live
  <2>3. InLine'
    BY <1>1, <2>1 DEF InLine, Ahead, Handed, Untaken, Kept
  <2>4. Accounted'
    BY <1>6, <2>1 DEF Accounted, Live
  <2>5. Behind'
    BY <2>1 DEF Behind, Live
  <2>6. Tasks'
    <3>1. \A c \in Captures : read[c] \notin {"queued", "reading"} /\ parse[c] # "submitted"
      BY <1>1, <1>2, EmptyQueue DEF Tasks
    <3>2. ~Busy'
      BY <1>1, <3>1 DEF Busy
    <3>3. \A c \in Captures : Readable(c)' = Readable(c)
      BY <1>1 DEF Readable
    <3>4. Handed' = Handed
      BY <1>1 DEF Handed
    <3>5. /\ ~bucket' => /\ window' = <<>> /\ deferred' = None /\ pc' # "fill"
                          /\ \A c \in Captures : read'[c] \in {"none", "whole", "error"}
      BY <1>1, <1>2, <2>1 DEF Tasks
    <3>6. /\ Range(queue') = {} /\ Handed' = {}
      BY <1>1, <1>2, EmptyQueue DEF Handed
    <3> QED
      BY <1>1, <1>2, <2>1, <3>1, <3>2, <3>5, <3>6 DEF Tasks, Live
  <2>7. Control'
    BY <2>1 DEF Control
  <2>8. Budgets'
    BY <1>1, <2>1 DEF Budgets
  <2> QED
    BY <1>5, <2>2, <2>3, <2>4, <2>5, <2>6, <2>7, <2>8 DEF FeedInv
<1> QED
  BY <1>7, <1>8

-----------------------------------------------------------------------------
(* The next capture of the listing is the first of those to be taken.      *)
LEMMA TakeNext ==
  ASSUME FeedInv, TakeUpcoming
  PROVE  /\ Upcoming = None => /\ captures = <<>> /\ captures' = <<>>
                               /\ deferred = None /\ Untaken = {}
         /\ Upcoming # None => /\ Upcoming \in Captures /\ Upcoming \in Untaken
                               /\ Range(captures') = Untaken \ {Upcoming}
                               /\ \A d \in Range(captures') : Upcoming < d
         /\ captures' \in Seq(Captures) /\ Ascending(captures')
<1>1. /\ captures \in Seq(Captures) /\ Ascending(captures)
      /\ deferred \in Captures \cup {None}
      /\ \A c \in Kept, d \in Range(captures) : c < d
      /\ Captures \subseteq Nat /\ None \notin Captures
  BY FeedAssumption DEF FeedInv, FeedTyped, InLine
<1>2. CASE deferred # None
  <2>1. /\ Upcoming = deferred /\ captures' = captures /\ Kept = {deferred}
        /\ Untaken = {deferred} \cup Range(captures) /\ deferred \in Captures
    BY <1>1, <1>2 DEF Upcoming, TakeUpcoming, Kept, Untaken
  <2>2. deferred \notin Range(captures)
    BY <1>1, <2>1
  <2> QED
    BY <1>1, <1>2, <2>1, <2>2
<1>3. CASE deferred = None /\ captures = <<>>
  BY <1>1, <1>3, EmptyQueue DEF Upcoming, TakeUpcoming, Kept, Untaken
<1>4. CASE deferred = None /\ captures # <<>>
  <2>1. /\ Upcoming = Head(captures) /\ captures' = Tail(captures) /\ Kept = {}
        /\ Untaken = Range(captures)
    BY <1>1, <1>4 DEF Upcoming, TakeUpcoming, Kept, Untaken
  <2>2. /\ Head(captures) \in Captures /\ Tail(captures) \in Seq(Captures)
        /\ Ascending(Tail(captures)) /\ Head(captures) \in Range(captures)
        /\ Range(Tail(captures)) = Range(captures) \ {Head(captures)}
        /\ \A c \in Range(Tail(captures)) : Head(captures) < c
    BY <1>1, <1>4, TailQueue
  <2> QED
    BY <1>1, <2>1, <2>2
<1> QED
  BY <1>2, <1>3, <1>4

LEMMA SubmitStep == FeedInv /\ Submit => FeedInv'
<1> SUFFICES ASSUME FeedInv, Submit PROVE FeedInv'
  OBVIOUS
<1> DEFINE u == Upcoming
<1>1. /\ FeedTyped /\ InLine /\ Accounted /\ Sounding /\ Behind /\ Tasks /\ Control /\ Budgets
      /\ pc = "fill" /\ Len(window) < ReadPrefetch /\ u # None /\ Fits(u)
      /\ TakeUpcoming /\ deferred' = None
      /\ window' = Append(window, u) /\ windowBytes' = windowBytes + ReadReservation(u)
      /\ read' = [read EXCEPT ![u] = "queued"]
      /\ UNCHANGED <<listing, known, bucket, parsers>> /\ pc' = pc /\ hand' = hand
      /\ queue' = queue /\ queueBytes' = queueBytes /\ parse' = parse
      /\ batch' = batch /\ rows' = rows
  BY DEF FeedInv, Submit, world, parsing, tables
<1>2. /\ u \in Captures /\ u \in Untaken
      /\ Range(captures') = Untaken \ {u} /\ \A d \in Range(captures') : u < d
      /\ captures' \in Seq(Captures) /\ Ascending(captures')
  BY <1>1, TakeNext
<1>3. Handed' = Handed /\ Kept' = {} /\ Untaken' = Untaken \ {u}
  BY <1>1, <1>2 DEF Handed, Kept, Untaken
<1>4. /\ window \in Seq(Captures) /\ Ascending(window) /\ \A d \in Range(window) : d < u
  BY <1>1, <1>2 DEF FeedTyped, InLine
<1> HIDE DEF u
<1>5. /\ window' \in Seq(Captures) /\ Ascending(window')
      /\ Range(window') = Range(window) \cup {u}
      /\ Len(window') = Len(window) + 1 /\ Len(window) \in Nat
  BY <1>1, <1>2, <1>4, AppendQueue
<1>6. Undecided' = Undecided /\ Ahead' = Ahead
  BY <1>1, <1>2, <1>3, <1>5 DEF Undecided, Ahead
<1>7. bucket' /\ bucket /\ Legible' = Legible
  BY <1>1 DEF Tasks, FeedTyped, Legible, Readable
<1>8. Sounding' /\ Accounted' /\ Behind'
  <2>1. Written' = Written /\ UNCHANGED world
    BY <1>1 DEF Written, world
  <2> QED
    BY <1>1, <1>6, <1>7, <2>1, QuietStep DEF Live
<1>9. FeedTyped'
  <2>1. Selected' = Selected
    BY <1>1 DEF Selected
  <2> QED
    BY <1>1, <1>2, <1>5, <2>1 DEF FeedTyped
<1>10. InLine'
  BY <1>1, <1>2, <1>3, <1>5, <1>6 DEF InLine, Ahead
<1>11. Tasks'
  <2>1. \A c \in Captures : Readable(c)'
    BY <1>7 DEF Readable
  <2>2. Range(queue') \cup Handed' \subseteq Captures
    BY <1>1, <1>3, EmptyQueue DEF FeedTyped, Handed, Range
  <2>3. \A c \in Captures : c # u => read'[c] = read[c]
    BY <1>1 DEF FeedTyped
  <2> QED
    BY <1>1, <1>2, <1>5, <1>7, <2>1, <2>2, <2>3 DEF Tasks, Live
<1>12. Control'
  BY <1>1 DEF Control
<1>13. Budgets'
  <2>1. /\ Reserved(ReadCost, window') = Reserved(ReadCost, window) + ReadReservation(u)
        /\ Reserved(ReadCost, window) \in Nat /\ ReadReservation(u) \in Nat
    <3>1. /\ ReadCost \in [Captures -> Nat] /\ ReadCost[u] = ReadReservation(u)
          /\ ReadReservation(u) \in Nat
      BY <1>2, Costs
    <3>2. /\ Reserved(ReadCost, Append(window, u)) = Reserved(ReadCost, window) + ReadCost[u]
          /\ Reserved(ReadCost, window) \in Nat
      BY <1>2, <1>4, <3>1, AppendReserved
    <3> QED
      BY <1>1, <3>1, <3>2
  <2>2. windowBytes' = Reserved(ReadCost, window')
    BY <1>1, <2>1 DEF Budgets
  <2>3. Len(window') <= ReadPrefetch
    BY <1>1, <1>5, FeedAssumption
  <2>4. windowBytes' <= ReadBytes \/ Len(window') = 1
    BY <1>1, <1>5 DEF Fits
  <2>5. Overfull' = Overfull
    BY <1>1 DEF Overfull
  <2> QED
    BY <1>1, <2>2, <2>3, <2>4, <2>5 DEF Budgets
<1> QED
  BY <1>8, <1>9, <1>10, <1>11, <1>12, <1>13 DEF FeedInv

LEMMA EndFillStep == FeedInv /\ EndFill => FeedInv'
<1> SUFFICES ASSUME FeedInv, EndFill PROVE FeedInv'
  OBVIOUS
<1>1. /\ FeedTyped /\ InLine /\ Accounted /\ Sounding /\ Behind /\ Tasks /\ Control /\ Budgets
      /\ pc = "fill" /\ Filled /\ pc' = (IF hand = None THEN "next" ELSE "consume")
      /\ window' = window /\ windowBytes' = windowBytes /\ read' = read
      /\ UNCHANGED <<listing, known, bucket, parsers>> /\ hand' = hand
      /\ queue' = queue /\ queueBytes' = queueBytes /\ parse' = parse
      /\ batch' = batch /\ rows' = rows
  BY DEF FeedInv, EndFill, world, parsing, tables
<1>2. /\ captures' \in Seq(Captures) /\ Ascending(captures')
      /\ deferred' \in Captures \cup {None}
      /\ Untaken' = Untaken /\ \A c \in Kept', d \in Range(captures') : c < d
      /\ window = <<>> => captures' = <<>> /\ deferred' = None
  <2>1. CASE Len(window) < ReadPrefetch
    <3>1. TakeUpcoming /\ deferred' = Upcoming
      BY <2>1 DEF EndFill
    <3>2. CASE Upcoming = None
      <4>1. captures = <<>> /\ captures' = <<>> /\ deferred' = None /\ Untaken = {}
        BY <3>1, <3>2, TakeNext
      <4> QED
        BY <4>1, EmptyQueue DEF Untaken, Kept
    <3>3. CASE Upcoming # None
      <4>1. /\ Upcoming \in Captures /\ Upcoming \in Untaken
            /\ Range(captures') = Untaken \ {Upcoming}
            /\ \A d \in Range(captures') : Upcoming < d
            /\ captures' \in Seq(Captures) /\ Ascending(captures')
        BY <3>1, <3>3, TakeNext
      <4>2. Kept' = {Upcoming}
        BY <3>1, <3>3 DEF Kept
      <4>3. window # <<>>
        BY <1>1, <2>1, <3>3 DEF Filled, Fits
      <4> QED
        BY <3>1, <4>1, <4>2, <4>3 DEF Untaken
    <3> QED
      BY <3>2, <3>3
  <2>2. CASE ~(Len(window) < ReadPrefetch)
    <3>1. captures' = captures /\ deferred' = deferred
      BY <2>2 DEF EndFill
    <3>2. window # <<>>
      BY <2>2, FeedAssumption, EmptyQueue
    <3> QED
      BY <1>1, <3>1, <3>2 DEF FeedTyped, InLine, Untaken, Kept
  <2> QED
    BY <2>1, <2>2
<1>3. Handed' = Handed /\ Ahead' = Ahead /\ Undecided' = Undecided
  BY <1>1, <1>2 DEF Handed, Ahead, Undecided
<1>4. Legible' = Legible /\ bucket' /\ Selected' = Selected
  BY <1>1 DEF Tasks, Legible, Readable, Selected
<1>5. Sounding' /\ Accounted' /\ Behind'
  <2>1. Written' = Written /\ UNCHANGED world
    BY <1>1 DEF Written, world
  <2> QED
    BY <1>1, <1>3, <1>4, <2>1, QuietStep DEF Live
<1>6. FeedTyped'
  BY <1>1, <1>2, <1>4 DEF FeedTyped, Live
<1>7. InLine'
  BY <1>1, <1>2, <1>3 DEF InLine
<1>8. Tasks'
  <2>1. \A c \in Captures : Readable(c)'
    BY <1>4 DEF Readable
  <2>2. Range(queue') \cup Handed' \subseteq Captures
    BY <1>1, <1>3 DEF FeedTyped, Handed, Range
  <2> QED
    BY <1>1, <1>4, <2>1, <2>2 DEF Tasks, Live
<1>9. Control'
  BY <1>1, <1>2 DEF Control
<1>10. Budgets'
  <2>1. Overfull' = Overfull
    BY <1>1 DEF Overfull
  <2> QED
    BY <1>1, <2>1 DEF Budgets
<1> QED
  BY <1>5, <1>6, <1>7, <1>8, <1>9, <1>10 DEF FeedInv

-----------------------------------------------------------------------------
(* Threads and parsers                                                     *)
LEMMA WorkerStep ==
  ASSUME FeedInv, NEW c \in Captures, StartRead(c) \/ EndRead(c) \/ EndParse(c)
  PROVE  FeedInv'
<1>1. /\ FeedTyped /\ InLine /\ Accounted /\ Sounding /\ Behind /\ Tasks /\ Control /\ Budgets
      /\ UNCHANGED <<listing, known, bucket, parsers>> /\ pc' = pc /\ hand' = hand
      /\ captures' = captures /\ deferred' = deferred /\ window' = window
      /\ windowBytes' = windowBytes /\ queue' = queue /\ queueBytes' = queueBytes
      /\ batch' = batch /\ rows' = rows
  BY DEF FeedInv, StartRead, EndRead, EndParse, world, reader, parsing, tables
<1>2. \/ /\ read[c] \in {"queued", "reading"} /\ parse' = parse
         /\ read' \in {[read EXCEPT ![c] = v] : v \in {"reading", "whole", "error"}}
         /\ read[c] = "reading" => read'[c] # "reading"
      \/ /\ parse[c] = "submitted" /\ read' = read
         /\ parse' \in {[parse EXCEPT ![c] = v] : v \in {"done", "broken"}}
  <2>1. CASE StartRead(c)
    BY <1>1, <2>1 DEF StartRead, FeedTyped
  <2>2. CASE EndRead(c)
    <3>1. \A r \in Responses : Outcome(r) \in {"whole", "error"}
      BY DEF Outcome, Accepted, Intact
    <3> QED
      BY <1>1, <2>2, <3>1 DEF EndRead, FeedTyped
  <2>3. CASE EndParse(c)
    BY <2>3 DEF EndParse
  <2> QED
    BY <2>1, <2>2, <2>3
<1>3. /\ read' \in [Captures -> {"none", "queued", "reading", "whole", "error", "cancelled"}]
      /\ parse' \in [Captures -> {"none", "submitted", "done", "broken"}]
      /\ \A d \in Captures : d # c => read'[d] = read[d] /\ parse'[d] = parse[d]
      /\ read'[c] # "queued" \/ read'[c] = read[c]
      /\ read'[c] \in {"queued", "reading"} => read[c] \in {"queued", "reading"}
      /\ parse'[c] = "submitted" => parse[c] = "submitted"
      /\ \/ read[c] \in {"queued", "reading"}
         \/ read' = read /\ parse[c] = "submitted"
  BY <1>1, <1>2 DEF FeedTyped
<1>4. Legible' = Legible /\ \A d \in Captures : Readable(d)' = Readable(d)
  <2>1. CASE bucket
    BY <1>1, <2>1 DEF Legible, Readable
  <2>2. CASE ~bucket
    <3>1. read[c] \notin {"queued", "reading"}
      BY <1>1, <2>2 DEF Tasks
    <3>2. read' = read
      BY <1>3, <3>1
    <3> QED
      BY <1>1, <3>2 DEF Legible, Readable
  <2> QED
    BY <2>1, <2>2
<1>5. /\ Handed' = Handed /\ Kept' = Kept /\ Untaken' = Untaken /\ Ahead' = Ahead
      /\ Undecided' = Undecided /\ Written' = Written /\ Selected' = Selected
  BY <1>1 DEF Handed, Kept, Untaken, Ahead, Undecided, Written, Selected
<1>6. Sounding' /\ Accounted' /\ Behind'
  <2>1. CASE pc \in Live
    BY <1>1, <1>4, <1>5, <2>1, QuietStep DEF world
  <2>2. CASE pc \notin Live
    BY <1>1, <1>4, <2>2, FailingStep DEF world
  <2> QED
    BY <2>1, <2>2
<1>7. FeedTyped'
  BY <1>1, <1>3, <1>5 DEF FeedTyped
<1>8. InLine'
  BY <1>1, <1>5 DEF InLine
<1>9. Tasks'
  <2>1. /\ ~bucket' => /\ window' = <<>> /\ deferred' = None /\ pc' # "fill"
                       /\ \A d \in Captures : read'[d] \in {"none", "whole", "error"}
    <3>1. CASE ~bucket
      BY <1>1, <1>3, <3>1 DEF Tasks
    <3> QED
      BY <1>1, <3>1
  <2>2. \A d \in Range(queue') \cup Handed' : Readable(d)'
    <3>1. Range(queue) \cup Handed \subseteq Captures
      BY <1>1 DEF FeedTyped, Handed, Range
    <3> QED
      BY <1>1, <1>4, <1>5, <3>1 DEF Tasks
  <2>3. pc' \in Live \cup {"list"} =>
          \A d \in Captures : /\ read'[d] \in {"queued", "reading"} => d \in Range(window')
                              /\ parse'[d] = "submitted" => d \in Range(queue')
    BY <1>1, <1>3 DEF Tasks
  <2>4. pc' \in {"closing", "failed"} => \A d \in Captures : read'[d] # "queued"
    BY <1>1, <1>3 DEF Tasks
  <2>5. pc' # "failed"
    BY <1>1, <1>3 DEF Tasks, Busy
  <2> QED
    BY <1>1, <2>1, <2>2, <2>3, <2>4, <2>5 DEF Tasks
<1>10. Control'
  BY <1>1 DEF Control
<1>11. Budgets'
  <2>1. Overfull' = Overfull
    BY <1>1 DEF Overfull
  <2> QED
    BY <1>1, <2>1 DEF Budgets
<1> QED
  BY <1>6, <1>7, <1>8, <1>9, <1>10, <1>11 DEF FeedInv

-----------------------------------------------------------------------------
(* The consumer                                                            *)
LEMMA TakeReadStep == FeedInv /\ TakeRead => FeedInv'
<1> SUFFICES ASSUME FeedInv, TakeRead PROVE FeedInv'
  OBVIOUS
<1> DEFINE h == Head(window)
<1>1. /\ FeedTyped /\ InLine /\ Accounted /\ Sounding /\ Behind /\ Tasks /\ Control /\ Budgets
      /\ pc = "next" /\ bucket /\ window # <<>>
      /\ window' = Tail(window) /\ windowBytes' = windowBytes - ReadReservation(h)
      /\ UNCHANGED <<listing, known, bucket, parsers>> /\ rows' = rows
      /\ captures' = captures /\ deferred' = deferred
      /\ queue' = queue /\ queueBytes' = queueBytes /\ parse' = parse
  BY DEF FeedInv, TakeRead, world, parsing, tables
<1>2. /\ h \in Captures /\ window' \in Seq(Captures) /\ Ascending(window')
      /\ h \in Range(window) /\ Range(window') = Range(window) \ {h}
      /\ \A d \in Range(window') : h < d
      /\ Len(window') = Len(window) - 1 /\ Len(window) \in Nat \ {0}
  BY <1>1, TailQueue DEF FeedTyped, InLine
<1>3. /\ bucket' /\ Legible' = Legible /\ Selected' = Selected /\ UNCHANGED world
      /\ \A d \in Captures : Readable(d)'
      /\ Handed = {} /\ Kept' = Kept /\ Untaken' = Untaken
  BY <1>1 DEF Legible, Readable, Selected, world, Control, Handed, Kept, Untaken
<1>4. /\ windowBytes' = Reserved(ReadCost, window')
      /\ Len(window') <= ReadPrefetch /\ windowBytes' <= ReadBytes
  <2>1. /\ Reserved(ReadCost, Tail(window)) = Reserved(ReadCost, window) - ReadCost[h]
        /\ Reserved(ReadCost, Tail(window)) \in Nat /\ ReadCost[h] \in Nat
    BY <1>1, <1>2, Costs, TailReserved DEF FeedTyped, InLine
  <2>2. ReadCost[h] = ReadReservation(h)
    BY <1>2, Costs
  <2>3. windowBytes' = Reserved(ReadCost, window') /\ windowBytes' <= windowBytes
        /\ windowBytes' \in Nat
    <3>1. windowBytes = Reserved(ReadCost, window)
      BY <1>1 DEF Budgets
    <3>2. windowBytes = windowBytes' + ReadCost[h]
      <4>1. windowBytes \in Nat
        BY <1>1, <3>1, SlotsFinite, Costs, TailQueue DEF Reserved, Slots, FeedTyped, InLine
      <4> QED
        BY <1>1, <2>1, <2>2, <4>1
    <3> QED
      BY <1>1, <2>1, <2>2, <3>1, <3>2
  <2>4. Len(window) = 1 => windowBytes' = 0
    <3>1. Len(window) = 1 => window' = <<>>
      BY <1>2
    <3> QED
      BY <2>3, <3>1, NoneReserved
  <2>5. ReadBytes \in Nat /\ ReadPrefetch \in Nat /\ windowBytes \in Nat
    <3>1. windowBytes = windowBytes' + ReadCost[h]
      BY <1>1, <2>1, <2>2, <2>3 DEF Budgets
    <3> QED
      BY <2>1, <2>3, <3>1, FeedAssumption
  <2> QED
    BY <1>1, <1>2, <2>3, <2>4, <2>5 DEF Budgets
<1>5. Overfull' = Overfull
  BY <1>1 DEF Overfull
<1> HIDE DEF h
<1>6. CASE read[h] = "error"
  <2>1. Raise /\ hand' = hand
    BY <1>6 DEF TakeRead, h
  <2>2. /\ pc' = "closing" /\ batch' = <<>>
        /\ read' \in [Captures -> {"none", "reading", "whole", "error", "cancelled"}]
    BY <1>1, <2>1 DEF Raise, FeedTyped
  <2>3. Sounding' /\ Accounted' /\ Behind'
    BY <1>1, <1>3, <2>2, FailingStep DEF Live
  <2>4. FeedTyped'
    <3>1. batch' \in Seq(Row)
      BY <2>2
    <3> QED
      BY <1>1, <1>2, <1>3, <2>1, <2>2, <3>1 DEF FeedTyped
  <2>5. Handed' = {} /\ Ahead' \subseteq Ahead
    BY <1>2, <1>3, <2>1 DEF Ahead, Handed
  <2>6. InLine'
    BY <1>1, <1>2, <1>3, <2>5 DEF InLine
  <2>7. Tasks'
    <3>1. Range(queue') \cup Handed' \subseteq Captures
      BY <1>1, <2>5, EmptyQueue DEF FeedTyped, Range
    <3> QED
      BY <1>1, <1>3, <2>2, <2>5, <3>1 DEF Tasks, Live
  <2>8. Control'
    BY <2>2 DEF Control
  <2>9. Budgets'
    BY <1>1, <1>4, <2>2 DEF Budgets
  <2> QED
    BY <2>3, <2>4, <2>6, <2>7, <2>8, <2>9 DEF FeedInv
<1>7. CASE read[h] # "error"
  <2>1. /\ hand' = h /\ pc' = "fill" /\ read' = read /\ batch' = batch
    BY <1>7 DEF TakeRead, h, tables
  <2>2. read[h] = "whole" /\ h # None
    BY <1>1, <1>2, <1>7, FeedAssumption DEF TakeRead, FeedTyped, h
  <2>3. Handed' = {h} /\ Ahead' = Ahead /\ Undecided' = Undecided
    BY <1>1, <1>2, <1>3, <2>1, <2>2 DEF Ahead, Handed, Undecided
  <2>4. Sounding' /\ Accounted' /\ Behind'
    <3>1. Written' = Written
      BY <1>1, <2>1 DEF Written
    <3> QED
      BY <1>1, <1>3, <2>1, <2>3, <3>1, QuietStep DEF Live
  <2>5. FeedTyped'
    BY <1>1, <1>2, <1>3, <2>1 DEF FeedTyped, Live
  <2>6. InLine'
    BY <1>1, <1>2, <1>3, <2>3 DEF InLine
  <2>7. Tasks'
    <3>1. Range(queue') \cup Handed' \subseteq Captures
      BY <1>1, <1>2, <2>3 DEF FeedTyped, Range
    <3>2. \A d \in Captures : read'[d] \in {"queued", "reading"} => d \in Range(window')
      BY <1>1, <1>2, <2>1, <2>2 DEF Tasks, Live
    <3> QED
      BY <1>1, <1>3, <2>1, <3>1, <3>2 DEF Tasks, Live
  <2>8. Control'
    BY <2>1 DEF Control
  <2>9. Budgets'
    BY <1>1, <1>4, <1>5, <2>1 DEF Budgets
  <2> QED
    BY <2>4, <2>5, <2>6, <2>7, <2>8, <2>9 DEF FeedInv
<1> QED
  BY <1>6, <1>7

LEMMA ReadLocalStep == FeedInv /\ ReadLocal => FeedInv'
<1> SUFFICES ASSUME FeedInv, ReadLocal PROVE FeedInv'
  OBVIOUS
<1> DEFINE h == Head(captures)
<1>1. /\ FeedTyped /\ InLine /\ Accounted /\ Sounding /\ Behind /\ Tasks /\ Control /\ Budgets
      /\ pc = "next" /\ ~bucket /\ captures # <<>> /\ captures' = Tail(captures)
      /\ UNCHANGED <<listing, known, bucket, parsers>> /\ deferred' = deferred
      /\ window' = window /\ windowBytes' = windowBytes
      /\ queue' = queue /\ queueBytes' = queueBytes /\ parse' = parse
  BY DEF FeedInv, ReadLocal, world, parsing, tables
<1>2. /\ h \in Captures /\ captures' \in Seq(Captures) /\ Ascending(captures')
      /\ h \in Range(captures) /\ Range(captures') = Range(captures) \ {h}
      /\ \A d \in Range(captures') : h < d
  BY <1>1, TailQueue DEF FeedTyped, InLine
<1>3. /\ window = <<>> /\ deferred = None /\ hand = None /\ Selected' = Selected
      /\ UNCHANGED world
      /\ Handed = {} /\ Kept = {} /\ Kept' = {} /\ Untaken = Range(captures)
      /\ Untaken' = Untaken \ {h} /\ Range(window) = {} /\ Range(window') = {}
      /\ Ahead = Range(captures) /\ Undecided = Range(queue) \cup Range(captures)
  BY <1>1, <1>2, EmptyQueue DEF Tasks, Control, Selected, world, Handed, Kept,
        Untaken, Ahead, Undecided
<1>4. Overfull' = Overfull
  BY <1>1 DEF Overfull
<1>5. h \notin Range(queue) /\ h # None /\ h \in Undecided
  <2>1. \A c \in Range(queue) : c < h
    BY <1>1, <1>2, <1>3 DEF InLine
  <2>2. h \in Nat
    BY <1>2, FeedAssumption
  <2> QED
    BY <1>2, <1>3, <2>1, <2>2, FeedAssumption
<1> HIDE DEF h
<1>6. \/ /\ read' = [read EXCEPT ![h] = "whole"] /\ hand' = h /\ pc' = "consume"
         /\ rows' = rows /\ batch' = batch
      \/ /\ read' = [read EXCEPT ![h] = "error"] /\ Enter(<<h, "unreadable">>)
         /\ hand' = hand /\ pc' = pc
  BY DEF ReadLocal, tables, h
<1>7. /\ \A d \in Captures : d # h => read'[d] = read[d]
      /\ read' \in [Captures -> {"none", "queued", "reading", "whole", "error", "cancelled"}]
      /\ read'[h] \in {"whole", "error"}
      /\ \A d \in Captures : read'[d] \in {"none", "whole", "error"}
  BY <1>1, <1>2, <1>6 DEF FeedTyped, Tasks
<1>8. \A d \in Captures \ {h} : Readable(d)' = Readable(d)
      /\ (d \in Legible' <=> d \in Legible)
  BY <1>1, <1>7 DEF Legible, Readable
<1>9. CASE /\ read' = [read EXCEPT ![h] = "whole"] /\ hand' = h /\ pc' = "consume"
           /\ rows' = rows /\ batch' = batch
  <2>1. Handed' = {h} /\ Ahead' = Ahead /\ Undecided' = Undecided
    BY <1>1, <1>2, <1>3, <1>5, <1>9 DEF Ahead, Handed, Undecided
  <2>2. Sounding' /\ Accounted' /\ Behind'
    <3>1. Written' = Written
      BY <1>9 DEF Written
    <3>2. \A c \in Captures \ Undecided : c \in Legible' <=> c \in Legible
      BY <1>5, <1>8
    <3> QED
      BY <1>1, <1>3, <1>9, <2>1, <3>1, <3>2, QuietStep DEF Live
  <2>3. FeedTyped'
    BY <1>1, <1>2, <1>3, <1>7, <1>9 DEF FeedTyped, Live
  <2>4. InLine'
    BY <1>1, <1>2, <1>3, <2>1 DEF InLine
  <2>5. Tasks'
    <3>1. Range(queue') \subseteq Captures /\ h \notin Range(queue')
      BY <1>1, <1>5 DEF FeedTyped, Range
    <3>2. \A d \in Handed' : Readable(d)'
      <4>1. read'[h] # "error"
        BY <1>1, <1>2, <1>9 DEF FeedTyped
      <4> QED
        BY <2>1, <4>1 DEF Readable
    <3>3. \A d \in Range(queue') \cup Handed' : Readable(d)'
      BY <1>1, <1>8, <3>1, <3>2 DEF Tasks
    <3> QED
      BY <1>1, <1>3, <1>7, <1>9, <3>3 DEF Tasks, Live
  <2>6. Control'
    BY <1>1, <1>5, <1>9 DEF Control
  <2>7. Budgets'
    BY <1>1, <1>4, <1>9 DEF Budgets
  <2> QED
    BY <2>2, <2>3, <2>4, <2>5, <2>6, <2>7 DEF FeedInv
<1>10. CASE /\ read' = [read EXCEPT ![h] = "error"] /\ Enter(<<h, "unreadable">>)
            /\ hand' = hand /\ pc' = pc
  <2>1. Handed' = {} /\ Ahead' = Ahead \ {h} /\ Undecided' = Undecided \ {h}
    BY <1>1, <1>2, <1>3, <1>5, <1>10 DEF Ahead, Handed, Undecided
  <2>2. rows' \in Seq(Row) /\ batch' \in Seq(Row) /\ Sounding' /\ Accounted' /\ Behind'
    <3>1. /\ <<h, "unreadable">> \in Row /\ <<h, "unreadable">>[1] = h
          /\ <<h, "unreadable">>[2] = "unreadable"
      BY <1>2 DEF Row
    <3>2. h \notin Legible'
      BY <1>1, <1>2, <1>10 DEF Legible, Readable, FeedTyped
    <3> DEFINE row == <<h, "unreadable">>
    <3>3. /\ row \in Row /\ row[1] = h /\ row[2] = "unreadable" /\ Enter(row)
      BY <1>10, <3>1
    <3> HIDE DEF row
    <3> QED
      BY <1>1, <1>3, <1>5, <1>8, <1>10, <2>1, <3>2, <3>3, RowStep DEF Live
  <2>3. FeedTyped'
    BY <1>1, <1>2, <1>3, <1>7, <1>10, <2>2 DEF FeedTyped, Live
  <2>4. InLine'
    BY <1>1, <1>2, <1>3, <2>1 DEF InLine
  <2>5. Tasks'
    <3>1. Range(queue') \subseteq Captures /\ h \notin Range(queue')
      BY <1>1, <1>5 DEF FeedTyped, Range
    <3>3. \A d \in Range(queue') \cup Handed' : Readable(d)'
      BY <1>1, <1>8, <2>1, <3>1 DEF Tasks
    <3> QED
      BY <1>1, <1>3, <1>7, <1>10, <3>3 DEF Tasks, Live
  <2>6. Control'
    BY <1>1, <1>3, <1>10 DEF Control
  <2>7. Budgets'
    BY <1>1, <1>4, <1>10 DEF Budgets
  <2> QED
    BY <2>2, <2>3, <2>4, <2>5, <2>6, <2>7 DEF FeedInv
<1> QED
  BY <1>6, <1>9, <1>10

(* The operations that only move the main thread on.                       *)
LEMMA TurnStep ==
  ASSUME FeedInv, EndCaptures \/ EndDrain \/ Close \/ EndRaise
  PROVE  FeedInv'
<1>1. /\ FeedTyped /\ InLine /\ Accounted /\ Sounding /\ Behind /\ Tasks /\ Control /\ Budgets
      /\ UNCHANGED <<listing, known, bucket, parsers>> /\ hand' = hand /\ read' = read
      /\ captures' = captures /\ deferred' = deferred /\ window' = window
      /\ windowBytes' = windowBytes /\ queue' = queue /\ queueBytes' = queueBytes
      /\ parse' = parse
  BY DEF FeedInv, EndCaptures, EndDrain, Close, EndRaise, world, reader, parsing, tables
<1>2. /\ Handed' = Handed /\ Kept' = Kept /\ Untaken' = Untaken /\ Ahead' = Ahead
      /\ Undecided' = Undecided /\ Selected' = Selected /\ Legible' = Legible
      /\ UNCHANGED world
      /\ Overfull' = Overfull /\ Busy' = Busy
      /\ \A d \in Captures : Readable(d)' = Readable(d)
  BY <1>1 DEF Handed, Kept, Untaken, Ahead, Undecided, Selected, Legible, Readable,
        world, Overfull, Busy
<1>3. /\ \/ rows' = rows /\ batch' = batch
         \/ rows' = rows \o batch /\ batch' = <<>>
      /\ pc \in Live \/ (rows' = rows /\ batch' = batch)
      /\ pc' # "finished" \/ batch' = <<>>
      /\ rows' \in Seq(Row) /\ batch' \in Seq(Row)
  <2>1. /\ \/ rows' = rows /\ batch' = batch
           \/ rows' = rows \o batch /\ batch' = <<>>
        /\ pc \in Live \/ (rows' = rows /\ batch' = batch)
        /\ pc' # "finished" \/ batch' = <<>>
    BY DEF EndCaptures, EndDrain, Close, EndRaise, tables, Live
  <2>2. rows \in Seq(Row) /\ batch \in Seq(Row)
    BY <1>1 DEF FeedTyped
  <2>3. rows \o batch \in Seq(Row) /\ <<>> \in Seq(Row)
    BY <2>2
  <2> QED
    BY <2>1, <2>2, <2>3
<1>4. Written' = Written
  <2>1. (rows \o batch) \o <<>> = rows \o batch
    BY <1>1 DEF FeedTyped
  <2> QED
    BY <1>3, <2>1 DEF Written
<1>5. \/ /\ pc = "next" /\ pc' = "flush" /\ captures = <<>> /\ deferred = None /\ window = <<>>
      \/ pc = "drain" /\ ~Overfull /\ pc' = "next"
      \/ pc = "flush" /\ queue = <<>> /\ pc' = "finished"
      \/ pc = "closing" /\ ~Busy /\ pc' = "failed"
  <2>1. EndCaptures => pc = "next" /\ pc' = "flush" /\ captures = <<>>
        /\ deferred = None /\ window = <<>>
    BY <1>1 DEF EndCaptures, Control, Tasks
  <2> QED
    BY <2>1 DEF EndDrain, Close, EndRaise
<1>6. Sounding' /\ Accounted' /\ Behind'
  <2>1. CASE pc \in Live
    BY <1>2, <1>4, <1>5, <2>1, QuietStep DEF Live
  <2>2. CASE pc \notin Live
    BY <1>2, <1>3, <1>5, <2>2, FailingStep DEF Live
  <2> QED
    BY <2>1, <2>2
<1>7. FeedTyped'
  BY <1>1, <1>2, <1>3, <1>5 DEF FeedTyped, Live
<1>8. InLine'
  BY <1>1, <1>2 DEF InLine
<1>9. Tasks'
  <2>1. Range(queue') \cup Handed' \subseteq Captures
    BY <1>1, <1>2 DEF FeedTyped, Handed, Range
  <2>2. \A c \in Range(queue') \cup Handed' : Readable(c)'
    BY <1>1, <1>2, <2>1 DEF Tasks
  <2>3. /\ ~bucket' => /\ window' = <<>> /\ deferred' = None /\ pc' # "fill"
                       /\ \A c \in Captures : read'[c] \in {"none", "whole", "error"}
        /\ \A c \in Range(queue') : c \notin known'
        /\ parsers' = 1 => queue' = <<>>
    BY <1>1, <1>5 DEF Tasks
  <2>4. pc' \in Live \cup {"list"} =>
          \A c \in Captures : /\ read'[c] \in {"queued", "reading"} => c \in Range(window')
                              /\ parse'[c] = "submitted" => c \in Range(queue')
    BY <1>1, <1>5 DEF Tasks, Live
  <2>5. /\ pc' \in {"closing", "failed"} => \A c \in Captures : read'[c] # "queued"
        /\ pc' = "failed" => ~Busy'
    BY <1>1, <1>2, <1>5 DEF Tasks
  <2> QED
    BY <2>2, <2>3, <2>4, <2>5 DEF Tasks
<1>10. Control'
  BY <1>1, <1>3, <1>5 DEF Control
<1>11. Budgets'
  BY <1>1, <1>2, <1>5 DEF Budgets
<1> QED
  BY <1>6, <1>7, <1>8, <1>9, <1>10, <1>11 DEF FeedInv

(* A row of the payload in hand.                                           *)
LEMMA HandStep ==
  ASSUME FeedInv, Reuse \/ ParseInline
  PROVE  FeedInv'
<1>1. /\ FeedTyped /\ InLine /\ Accounted /\ Sounding /\ Behind /\ Tasks /\ Control /\ Budgets
      /\ pc = "consume" /\ pc' = "next" /\ hand' = None
      /\ UNCHANGED <<listing, known, bucket, parsers>> /\ read' = read
      /\ captures' = captures /\ deferred' = deferred /\ window' = window
      /\ windowBytes' = windowBytes /\ queue' = queue /\ queueBytes' = queueBytes
      /\ parse' = parse
  BY DEF FeedInv, Reuse, ParseInline, world, reader, parsing
<1>2. hand \in Captures /\ Handed = {hand} /\ Handed' = {}
  BY <1>1 DEF FeedTyped, Control, Handed
<1>3. /\ Kept' = Kept /\ Untaken' = Untaken /\ Selected' = Selected /\ Legible' = Legible
      /\ UNCHANGED world /\ Overfull' = Overfull
      /\ \A d \in Captures : Readable(d)' = Readable(d)
  BY <1>1 DEF Kept, Untaken, Selected, Legible, Readable, world, Overfull
<1>4. /\ hand \in Undecided /\ Ahead' = Ahead \ {hand} /\ Undecided' = Undecided \ {hand}
  <2>1. hand \notin Range(window) /\ hand \notin Untaken /\ hand \notin Range(queue)
    <3>1. ~(hand < hand)
      BY <1>2, FeedAssumption
    <3> QED
      BY <1>1, <1>2, <3>1 DEF InLine, Ahead
  <2> QED
    BY <1>1, <1>2, <1>3, <2>1 DEF Undecided, Ahead
<1>5. PICK row \in Row : /\ Enter(row) /\ row[1] = hand /\ row[2] # "unreadable"
                         /\ row[2] = "reused" => hand \in known
                         /\ row[2] \in {"parsed", "malformed"} => hand \notin known /\ queue = <<>>
  <2>1. CASE Reuse
    <3> DEFINE row == <<hand, "reused">>
    <3>1. row \in Row /\ row[1] = hand /\ row[2] = "reused"
      BY <1>2 DEF Row
    <3>2. Enter(row) /\ hand \in known
      BY <2>1 DEF Reuse
    <3> HIDE DEF row
    <3> QED
      BY <3>1, <3>2
  <2>2. CASE ParseInline
    <3> DEFINE row == Parsed(hand)
    <3>1. read[hand] # "torn"
      BY <1>1, <1>2 DEF FeedTyped
    <3>2. row \in Row /\ row[1] = hand /\ row[2] \in {"parsed", "malformed"}
      BY <1>2, <3>1 DEF Row, Parsed
    <3>3. Enter(row) /\ hand \notin known /\ queue = <<>>
      BY <1>1, <2>2 DEF ParseInline, Tasks
    <3> HIDE DEF row
    <3> QED
      BY <3>2, <3>3
  <2> QED
    BY <2>1, <2>2
<1>6. rows' \in Seq(Row) /\ batch' \in Seq(Row) /\ Sounding' /\ Accounted' /\ Behind'
  <2>1. row[2] \in {"parsed", "malformed"} =>
          /\ row[1] \notin known /\ row[1] \in Legible'
          /\ \A c \in Undecided : c = row[1] \/ row[1] < c
    <3>1. hand \in Legible
      BY <1>1, <1>2 DEF Tasks, Legible
    <3>2. queue = <<>> => \A c \in Undecided : c = hand \/ hand < c
      BY <1>1, <1>2, EmptyQueue DEF InLine, Undecided, Ahead
    <3> QED
      BY <1>3, <1>5, <3>1, <3>2
  <2> QED
    BY <1>1, <1>3, <1>4, <1>5, <2>1, RowStep DEF Live
<1>7. FeedTyped'
  BY <1>1, <1>3, <1>6 DEF FeedTyped, Live
<1>8. InLine'
  BY <1>1, <1>2, <1>3, <1>4 DEF InLine
<1>9. Tasks'
  <2>1. Range(queue') \cup Handed' \subseteq Captures
    BY <1>1, <1>2 DEF FeedTyped, Range
  <2>2. \A c \in Range(queue') \cup Handed' : Readable(c)'
    BY <1>1, <1>2, <1>3, <2>1 DEF Tasks
  <2> QED
    BY <1>1, <2>2 DEF Tasks, Live
<1>10. Control'
  BY <1>1 DEF Control
<1>11. Budgets'
  BY <1>1, <1>3 DEF Budgets
<1> QED
  BY <1>6, <1>7, <1>8, <1>9, <1>10, <1>11 DEF FeedInv

LEMMA EnqueueStep == FeedInv /\ Enqueue => FeedInv'
<1> SUFFICES ASSUME FeedInv, Enqueue PROVE FeedInv'
  OBVIOUS
<1>1. /\ FeedTyped /\ InLine /\ Accounted /\ Sounding /\ Behind /\ Tasks /\ Control /\ Budgets
      /\ pc = "consume" /\ hand \notin known /\ parsers > 1 /\ pc' = "drain" /\ hand' = None
      /\ queue' = Append(queue, hand) /\ queueBytes' = queueBytes + ParseReservation(hand)
      /\ parse' = [parse EXCEPT ![hand] = "submitted"]
      /\ UNCHANGED <<listing, known, bucket, parsers>> /\ read' = read
      /\ captures' = captures /\ deferred' = deferred /\ window' = window
      /\ windowBytes' = windowBytes /\ rows' = rows /\ batch' = batch
  BY DEF FeedInv, Enqueue, world, reader, tables
<1>2. hand \in Captures /\ Handed = {hand} /\ Handed' = {}
  BY <1>1 DEF FeedTyped, Control, Handed
<1>3. /\ Kept' = Kept /\ Untaken' = Untaken /\ Selected' = Selected /\ Legible' = Legible
      /\ UNCHANGED world /\ Written' = Written
      /\ \A d \in Captures : Readable(d)' = Readable(d)
  BY <1>1 DEF Kept, Untaken, Selected, Legible, Readable, world, Written
<1>4. /\ queue \in Seq(Captures) /\ Ascending(queue) /\ \A d \in Range(queue) : d < hand
      /\ \A d \in Ahead \ {hand} : hand < d
  BY <1>1, <1>2 DEF FeedTyped, InLine, Ahead
<1>5. /\ queue' \in Seq(Captures) /\ Ascending(queue')
      /\ Range(queue') = Range(queue) \cup {hand}
  BY <1>1, <1>2, <1>4, AppendQueue
<1>6. Ahead' = Ahead \ {hand} /\ Undecided' = Undecided
  <2>1. hand \notin Range(window) /\ hand \notin Untaken
    <3>1. ~(hand < hand)
      BY <1>2, FeedAssumption
    <3> QED
      BY <1>1, <1>2, <3>1 DEF InLine
  <2> QED
    BY <1>1, <1>2, <1>3, <1>5, <2>1 DEF Ahead, Undecided
<1>7. Sounding' /\ Accounted' /\ Behind'
  BY <1>1, <1>3, <1>6, QuietStep DEF Live
<1>8. FeedTyped'
  BY <1>1, <1>3, <1>5 DEF FeedTyped, Live
<1>9. InLine'
  BY <1>1, <1>2, <1>3, <1>4, <1>5, <1>6 DEF InLine
<1>10. Tasks'
  <2>1. Range(queue') \cup Handed' \subseteq Captures
    BY <1>2, <1>5, EmptyQueue DEF Range
  <2>2. \A c \in Range(queue') \cup Handed' : Readable(c)'
    <3>1. Range(queue) \subseteq Captures
      BY <1>1 DEF FeedTyped, Range
    <3> QED
      BY <1>1, <1>2, <1>3, <1>5, <3>1 DEF Tasks
  <2>3. \A c \in Captures : parse'[c] = "submitted" => c \in Range(queue')
    BY <1>1, <1>5 DEF Tasks, Live, FeedTyped
  <2>4. parsers' # 1
    BY <1>1 DEF FeedTyped
  <2> QED
    BY <1>1, <1>5, <2>2, <2>3, <2>4 DEF Tasks, Live
<1>11. Control'
  BY <1>1 DEF Control
<1>12. Budgets'
  <2>1. /\ ParseCost \in [Captures -> Nat] /\ ParseCost[hand] = ParseReservation(hand)
    BY <1>2, Costs
  <2>2. Reserved(ParseCost, Append(queue, hand)) = Reserved(ParseCost, queue) + ParseCost[hand]
    BY <1>2, <1>4, <2>1, AppendReserved
  <2> QED
    BY <1>1, <2>1, <2>2 DEF Budgets
<1> QED
  BY <1>7, <1>8, <1>9, <1>10, <1>11, <1>12 DEF FeedInv

LEMMA DrainStep == FeedInv /\ Drain => FeedInv'
<1> SUFFICES ASSUME FeedInv, Drain PROVE FeedInv'
  OBVIOUS
<1> DEFINE h == Head(queue)
<1>1. /\ FeedTyped /\ InLine /\ Accounted /\ Sounding /\ Behind /\ Tasks /\ Control /\ Budgets
      /\ queue # <<>> /\ pc \in {"flush", "drain"} /\ parse[h] \in {"done", "broken"}
      /\ queue' = Tail(queue) /\ queueBytes' = queueBytes - ParseReservation(h)
      /\ UNCHANGED <<listing, known, bucket, parsers>> /\ hand' = hand /\ parse' = parse
      /\ captures' = captures /\ deferred' = deferred /\ window' = window
      /\ windowBytes' = windowBytes
  BY DEF FeedInv, Drain, world, reader, tables
<1>2. /\ h \in Captures /\ queue' \in Seq(Captures) /\ Ascending(queue')
      /\ h \in Range(queue) /\ Range(queue') = Range(queue) \ {h}
      /\ \A d \in Range(queue') : h < d
  BY <1>1, TailQueue DEF FeedTyped, InLine
<1>3. /\ Handed' = Handed /\ Handed = {} /\ Kept' = Kept /\ Untaken' = Untaken
      /\ Ahead' = Ahead
      /\ Selected' = Selected /\ UNCHANGED world
  BY <1>1 DEF Handed, Kept, Untaken, Ahead, Selected, world, Control
<1>4. queueBytes' = Reserved(ParseCost, queue')
  <2>1. /\ ParseCost \in [Captures -> Nat] /\ ParseCost[h] = ParseReservation(h)
    BY <1>2, Costs
  <2>2. Reserved(ParseCost, Tail(queue)) = Reserved(ParseCost, queue) - ParseCost[h]
    BY <1>1, <2>1, TailReserved DEF FeedTyped, InLine
  <2> QED
    BY <1>1, <2>1, <2>2 DEF Budgets
<1> HIDE DEF h
<1>5. \/ /\ parse[h] = "done" /\ Enter(Parsed(h)) /\ pc' = pc /\ read' = read
      \/ /\ pc' = "closing" /\ batch' = <<>> /\ rows' = rows
         /\ read' = [c \in Captures |-> IF read[c] = "queued" THEN "cancelled" ELSE read[c]]
  BY DEF Drain, Raise, h
<1>6. Legible' = Legible /\ \A d \in Captures : Readable(d)' = Readable(d)
  BY <1>1, <1>5 DEF FeedTyped, Legible, Readable
<1>7. InLine'
  BY <1>1, <1>2, <1>3 DEF InLine
<1>8. Range(queue') \cup Handed' \subseteq Captures
      /\ \A c \in Range(queue') \cup Handed' : Readable(c)'
  <2>1. Range(queue') \cup Handed' \subseteq Captures
    BY <1>2, <1>3 DEF Range
  <2> QED
    BY <1>1, <1>2, <1>3, <1>6, <2>1 DEF Tasks
<1>9. parsers' = 1 => queue' = <<>>
  BY <1>1 DEF Tasks
<1>10. CASE /\ parse[h] = "done" /\ Enter(Parsed(h)) /\ pc' = pc /\ read' = read
  <2>1. /\ h \in Undecided /\ Undecided' = Undecided \ {h} /\ h \notin known
        /\ \A c \in Undecided : c = h \/ h < c
    <3>1. h \notin Ahead
      <4>1. ~(h < h)
        BY <1>2, FeedAssumption
      <4> QED
        BY <1>1, <1>2, <4>1 DEF InLine
    <3> QED
      BY <1>1, <1>2, <1>3, <3>1 DEF Undecided, InLine, Tasks
  <2>2. rows' \in Seq(Row) /\ batch' \in Seq(Row) /\ Sounding' /\ Accounted' /\ Behind'
    <3> DEFINE row == Parsed(h)
    <3>1. read[h] # "torn"
      BY <1>1, <1>2 DEF FeedTyped
    <3>2. row \in Row /\ row[1] = h /\ row[2] \in {"parsed", "malformed"} /\ Enter(row)
      BY <1>2, <1>10, <3>1 DEF Row, Parsed
    <3>3. h \in Legible'
      BY <1>1, <1>2, <1>6 DEF Tasks, Legible
    <3> HIDE DEF row
    <3>4. row[2] \notin {"unreadable", "reused"}
      BY <3>2
    <3> QED
      BY <1>1, <1>3, <1>6, <1>10, <2>1, <3>2, <3>3, <3>4, RowStep DEF Live
  <2>3. FeedTyped'
    BY <1>1, <1>2, <1>3, <1>10, <2>2 DEF FeedTyped
  <2>4. Tasks'
    <3>1. \A c \in Captures : parse'[c] = "submitted" => c \in Range(queue')
      BY <1>1, <1>2, <1>10 DEF Tasks, Live
    <3> QED
      BY <1>1, <1>2, <1>8, <1>9, <1>10, <3>1 DEF Tasks, Live
  <2>5. Control'
    BY <1>1, <1>10 DEF Control
  <2>6. Budgets'
    BY <1>1, <1>4, <1>10 DEF Budgets
  <2> QED
    BY <1>7, <2>2, <2>3, <2>4, <2>5, <2>6 DEF FeedInv
<1>11. CASE /\ pc' = "closing" /\ batch' = <<>> /\ rows' = rows
            /\ read' = [c \in Captures |-> IF read[c] = "queued" THEN "cancelled" ELSE read[c]]
  <2>1. Sounding' /\ Accounted' /\ Behind'
    BY <1>3, <1>6, <1>11, FailingStep DEF Live
  <2>2. FeedTyped'
    <3>1. read' \in [Captures -> {"none", "queued", "reading", "whole", "error", "cancelled"}]
      BY <1>1, <1>11 DEF FeedTyped
    <3>2. rows' \in Seq(Row) /\ batch' \in Seq(Row)
      BY <1>1, <1>11 DEF FeedTyped
    <3> QED
      BY <1>1, <1>2, <1>3, <1>11, <3>1, <3>2 DEF FeedTyped
  <2>3. Tasks'
    BY <1>1, <1>2, <1>8, <1>9, <1>11 DEF Tasks, Live
  <2>4. Control'
    BY <1>11 DEF Control
  <2>5. Budgets'
    BY <1>1, <1>4, <1>11 DEF Budgets
  <2> QED
    BY <1>7, <2>1, <2>2, <2>3, <2>4, <2>5 DEF FeedInv
<1> QED
  BY <1>5, <1>10, <1>11

-----------------------------------------------------------------------------
LEMMA FeedStep == FeedInv /\ [Next]_vars => FeedInv'
<1> SUFFICES ASSUME FeedInv, [Next]_vars PROVE FeedInv'
  OBVIOUS
<1>1. CASE MainStep
  BY <1>1, ListStep, SubmitStep, EndFillStep, TakeReadStep, ReadLocalStep, TurnStep, HandStep,
     EnqueueStep, DrainStep DEF MainStep
<1>2. ASSUME NEW c \in Captures, StartRead(c) \/ EndRead(c) \/ EndParse(c) PROVE FeedInv'
  BY <1>2, WorkerStep
<1>3. CASE UNCHANGED vars
  <2>1. /\ UNCHANGED <<listing, known, bucket, parsers>> /\ pc' = pc /\ hand' = hand
        /\ captures' = captures /\ deferred' = deferred /\ window' = window
        /\ windowBytes' = windowBytes /\ queue' = queue /\ queueBytes' = queueBytes
        /\ batch' = batch /\ rows' = rows /\ read' = read /\ parse' = parse
    BY <1>3 DEF vars, world, reader, parsing, tables
  <2>2. /\ Handed' = Handed /\ Kept' = Kept /\ Untaken' = Untaken /\ Ahead' = Ahead
        /\ Undecided' = Undecided /\ Written' = Written /\ Selected' = Selected
        /\ Legible' = Legible /\ Overfull' = Overfull /\ Busy' = Busy
        /\ Decided' = Decided /\ Parses' = Parses
        /\ \A d : Readable(d)' = Readable(d)
    BY <2>1 DEF Handed, Kept, Untaken, Ahead, Undecided, Written, Selected, Legible, Readable,
       Overfull, Busy, Decided, Parses
  <2>3. FeedTyped' /\ InLine' /\ Control' /\ Budgets'
    BY <2>1, <2>2 DEF FeedInv, FeedTyped, InLine, Control, Budgets
  <2>4. Accounted' /\ Sounding' /\ Behind'
    BY <2>1, <2>2 DEF FeedInv, Accounted, Sounding, Behind
  <2>5. Tasks'
    BY <2>1, <2>2 DEF FeedInv, Tasks
  <2> QED
    BY <2>3, <2>4, <2>5 DEF FeedInv
<1> QED
  BY <1>1, <1>2, <1>3 DEF Next

LEMMA ExactFeed == FeedInv => IngestExact
<1> SUFFICES ASSUME FeedInv PROVE IngestExact
  OBVIOUS
<1>1. /\ FeedTyped /\ Accounted /\ Control /\ Sound(Written, Selected, known, Legible)
      /\ rows \in Seq(Row) /\ batch \in Seq(Row) /\ Selected \subseteq Captures
  BY DEF FeedInv, Sounding, FeedTyped
<1>2. Written \in Seq(Row)
  BY <1>1 DEF Written
<1>3. Cardinality(Decided) = Len(Written)
  <2> DEFINE n == Len(Written)
             f == [i \in 1 .. n |-> Written[i][1]]
  <2>1. f \in Injection(1 .. n, Decided)
    <3>1. f \in [1 .. n -> Decided]
      BY DecidedIs
    <3>2. \A i, j \in 1 .. n : f[i] = f[j] => i = j
      BY <1>1 DEF Sound, Distinct
    <3> QED
      BY <3>1, <3>2 DEF Injection, IsInjective
  <2>2. f \in Surjection(1 .. n, Decided)
    <3>1. f \in [1 .. n -> Decided] /\ \A c \in Decided : \E i \in 1 .. n : f[i] = c
      BY DecidedIs
    <3> QED
      BY <3>1 DEF Surjection
  <2>3. n \in Nat
    BY <1>2
  <2> HIDE DEF f, n
  <2>4. IsFiniteSet(1 .. n) /\ Cardinality(1 .. n) = n
    BY <2>3, FS_Interval
  <2> DEFINE I == 1 .. n
  <2>5. Cardinality(Decided) = Cardinality(I)
    <3> HIDE DEF I
    <3>1. f \in Injection(I, Decided) /\ f \in Surjection(I, Decided) /\ IsFiniteSet(I)
      BY <2>1, <2>2, <2>4 DEF I
    <3> QED
      BY <3>1, FS_Surjection
  <2> QED
    BY <2>4, <2>5 DEF n
<1>4. \A i \in 1 .. Len(Written) : Written[i][2] # "torn"
  BY <1>2 DEF Row
<1>5. ASSUME NEW i \in Parses
      PROVE  {c \in Selected \ known : c < Written[i][1] /\ Readable(c)}
               = {Written[j][1] : j \in {k \in Parses : k < i}}
  <2>1. Earlier(Written[i][1], Selected \ known, Legible)
          = {Written[j][1] : j \in {k \in Parses : k < i}}
    BY <1>1, DecidedIs DEF Sound, Complete
  <2>2. {c \in Selected \ known : c < Written[i][1] /\ Readable(c)}
          = Earlier(Written[i][1], Selected \ known, Legible)
    BY <1>1 DEF Earlier, Legible
  <2> QED
    BY <2>1, <2>2
<1>6. pc = "finished" => batch = <<>> /\ Decided = Selected
  <2> SUFFICES ASSUME pc = "finished" PROVE batch = <<>> /\ Decided = Selected
    OBVIOUS
  <2>1. /\ batch = <<>> /\ queue = <<>> /\ captures = <<>> /\ window = <<>> /\ deferred = None
        /\ hand = None
    BY <1>1 DEF Control
  <2>2. Undecided = {}
    BY <2>1, EmptyQueue DEF Undecided, Ahead, Handed, Untaken, Kept
  <2> QED
    BY <1>1, <2>1, <2>2 DEF Accounted, Live
<1> QED
  BY <1>1, <1>3, <1>4, <1>5, <1>6 DEF IngestExact, Accounted

LEMMA QuietEnd ==
  FeedInv /\ pc \in Ended => ~Busy /\ \A c \in Captures : read[c] # "queued"
<1> SUFFICES ASSUME FeedInv, pc \in Ended PROVE ~Busy
      /\ \A c \in Captures : read[c] # "queued"
  OBVIOUS
<1>1. CASE pc = "failed"
  BY <1>1 DEF FeedInv, Tasks
<1>2. CASE pc = "finished"
  BY <1>2, EmptyQueue DEF FeedInv, Tasks, Control, Busy, Live
<1> QED
  BY <1>1, <1>2 DEF Ended

LEMMA BoundedFeed == FeedInv => FeedBounded
<1> SUFFICES ASSUME FeedInv PROVE FeedBounded
  OBVIOUS
<1>1. FeedTyped /\ Budgets /\ InLine
  BY DEF FeedInv
<1>2. \A s \in Seq(Captures), cost \in [Captures -> Nat] : Reserved(cost, s) \in Nat
  <2> TAKE s \in Seq(Captures), cost \in [Captures -> Nat]
  <2>1. Range(s) \subseteq Captures
    BY DEF Range
  <2> QED
    BY <2>1, SlotsFinite DEF Reserved, Slots
<1>3. TypeOK
  <2>1. windowBytes \in Nat /\ queueBytes \in Nat
    BY <1>1, <1>2, Costs DEF FeedTyped, Budgets
  <2>2. Range(captures) \subseteq Captures /\ Range(window) \subseteq Captures
        /\ Range(queue) \subseteq Captures
    BY <1>1 DEF FeedTyped, Range
  <2> QED
    BY <1>1, <2>1, <2>2 DEF TypeOK, FeedTyped
<1> QED
  BY <1>1, <1>3, QuietEnd DEF FeedBounded, Budgets, ReadCost, ParseCost

-----------------------------------------------------------------------------
(* The output set of the run, which it shares no variable with but         *)
(* through the instance.  The module's own Cardinality is the library's.   *)
LEMMA SameCardinality ==
  ASSUME NEW S
  PROVE  Output!Cardinality(S) = Cardinality(S)
BY DEF Output!Cardinality, Cardinality

-----------------------------------------------------------------------------
Pending(n) == task[n] \in {"queued"} \cup Output!Active

(* A trajectory has a temporary file while its upload is pending, an       *)
(* object once it is done, and a multipart upload at the store only while  *)
(* its writer has not been asked, as often as the code asks, to abort it.  *)
SoundTask(n) ==
  /\ n \in spools <=> Pending(n)
  /\ task[n] = "done" => n \in store
  /\ task[n] \in {"none", "queued", "begun", "done", "cancelled"} => n \notin uploads
  /\ n \in uploads => /\ task[n] = "abort again" => refused[n] >= 1
                      /\ task[n] = "failed" => refused[n] >= 2
SoundTasks == \A n \in Output!Trajectories : SoundTask(n)

(* Until something fails, objects and futures are the trajectories         *)
(* submitted so far, in their order.                                       *)
Writing == {"row", "submit", "throttle"}
Working == Writing \cup {"resolve", "lineage"}
Submitted == IF outputPc = "throttle" THEN next ELSE next - 1

QueueInOrder ==
  /\ Len(objects) + Len(futures) = Submitted
  /\ \A i \in 1 .. Len(objects) : objects[i] = i
  /\ \A i \in 1 .. Len(futures) : futures[i] = Len(objects) + i
TasksInOrder ==
  \A n \in Output!Trajectories : /\ n <= Len(objects) => task[n] = "done"
                                 /\ n > Submitted => task[n] = "none"
MainInOrder ==
  /\ lineageRows = IF outputPc = "row" THEN next - 1 ELSE IF outputPc \in Writing THEN next ELSE Count
  /\ outputPc \in Writing <=> next <= Count
  /\ outputPc \in {"row", "submit"} => Len(futures) < MaxPending
  /\ outputPc = "lineage" => futures = <<>>
InOrder == QueueInOrder /\ TasksInOrder /\ MainInOrder

Limited == Len(futures) <= MaxPending /\ Cardinality(spools) <= MaxPending

(* Once the threads have been waited for, nothing is pending.              *)
Waited == {"release", "release again"} \cup Output!Ended
Quiet == outputPc \in Waited => \A n \in Output!Trajectories : ~Pending(n)

(* What became of the lineage.                                             *)
LineageReleased ==
  /\ outputPc = "closed" => Output!Lineage \notin uploads
  /\ outputPc = "aborted" /\ Output!Lineage \in uploads => refused[Output!Lineage] >= 1

OutputInv ==
  /\ Output!TypeOK /\ SoundTasks /\ (outputPc \in Working => InOrder) /\ Limited
  /\ Quiet /\ LineageReleased /\ Output!ManifestExact

-----------------------------------------------------------------------------
(* The names of the objects.                                               *)
LEMMA ObjectNames ==
  ASSUME Output!OutputConstants
  PROVE  /\ Output!Trajectories \subseteq Output!Objects /\ Output!Trajectories \subseteq Nat
         /\ Output!Lineage \in Output!Objects /\ Output!Lineage \notin Output!Trajectories
         /\ \A n \in Output!Objects : n = Output!Lineage \/ n \in Output!Trajectories
         /\ \A n \in Output!Trajectories : Parts[n] \in Nat
BY DEF Output!Objects, Output!Lineage, Output!Trajectories, Output!OutputConstants

(* The types of what the writers own.                                      *)
States == {"none", "queued"} \cup Output!Active \cup Output!Settled
LEMMA WriterTypes ==
  ASSUME Output!TypeOK
  PROVE  task \in [Output!Objects -> States] /\ refused \in [Output!Objects -> Nat]
BY DEF Output!TypeOK, States

(* A step that does not touch a trajectory leaves it sound.                *)
LEMMA TaskFrame ==
  ASSUME SoundTasks, NEW k \in Output!Trajectories,
         task'[k] = task[k], refused'[k] = refused[k],
         k \in spools' <=> k \in spools, k \in uploads' <=> k \in uploads,
         k \in store => k \in store'
  PROVE  SoundTask(k)'
BY DEF SoundTasks, SoundTask, Pending

(* Every step keeps what is known of the tasks.                            *)
LEMMA TaskStep ==
  ASSUME Output!OutputConstants, Output!TypeOK, SoundTasks, outputPc \in Working
        => InOrder, [Output!Next]_(Output!vars)
  PROVE  SoundTasks'
<1> USE ObjectNames, WriterTypes
<1> SUFFICES ASSUME NEW k \in Output!Trajectories
             PROVE  SoundTask(k)'
  BY DEF SoundTasks
<1>1. CASE UNCHANGED <<task, spools, store, uploads, refused>>
  BY <1>1, TaskFrame
<1>2. CASE Output!WriteRow \/ Output!CloseLineage \/ Output!ReleaseLineage
  <2>1. task'[k] = task[k] /\ refused'[k] = refused[k] /\ spools' = spools
    BY <1>2 DEF Output!WriteRow, Output!CloseLineage, Output!ReleaseLineage,
       Output!Writers, Output!Becomes, Output!CreateUpload, Output!SendPart,
       Output!PutOrComplete, Output!AbortUpload
  <2>2. (k \in uploads' <=> k \in uploads) /\ (k \in store => k \in store')
    BY <1>2 DEF Output!WriteRow, Output!CloseLineage, Output!ReleaseLineage,
       Output!Writers, Output!CreateUpload, Output!SendPart, Output!PutOrComplete,
       Output!AbortUpload
  <2> QED
    BY <2>1, <2>2, TaskFrame
<1>3. CASE Output!Submit
  <2>1. CASE k # next
    BY <1>3, <2>1, TaskFrame DEF Output!Submit, Output!Becomes
  <2>2. CASE k = next
    <3>1. task[k] = "none"
      BY <1>3, <2>2 DEF Output!Submit, Working, Writing, InOrder, TasksInOrder,
         MainInOrder, Submitted, Output!TypeOK
    <3>2. task'[k] = "queued" /\ k \in spools' /\ uploads' = uploads
      BY <1>3, <2>2 DEF Output!Submit, Output!Becomes
    <3> QED
      BY <3>1, <3>2 DEF SoundTasks, SoundTask, Pending
  <2> QED
    BY <2>1, <2>2
<1>4. ASSUME NEW n \in Output!Trajectories, Output!Take(n) \/ Output!Cancel(n)
      PROVE SoundTask(k)'
  <2>1. CASE k # n
    BY <1>4, <2>1, TaskFrame DEF Output!Take, Output!Cancel, Output!Becomes
  <2>2. CASE k = n
    BY <1>4, <2>2 DEF Output!Take, Output!Cancel, Output!Oldest, Output!Queued,
       Output!Becomes, SoundTasks, SoundTask, Pending, Output!Active,
       Output!Uploading, Output!Failing
  <2> QED
    BY <2>1, <2>2
<1>5. ASSUME NEW n \in Output!Trajectories, Output!Upload(n) PROVE SoundTask(k)'
  <2>1. CASE k # n
    BY <1>5, <2>1, TaskFrame DEF Output!Upload, Output!Becomes, Output!CreateUpload,
       Output!SendPart, Output!PutOrComplete, Output!RequestFails
  <2>2. CASE k = n
    BY <1>5, <2>2 DEF Output!Upload, Output!Becomes, Output!CreateUpload,
       Output!SendPart, Output!PutOrComplete, Output!RequestFails, SoundTasks,
       SoundTask, Pending, Output!Active, Output!Uploading, Output!Failing
  <2> QED
    BY <2>1, <2>2
<1>6. ASSUME NEW n \in Output!Trajectories, Output!CleanUp(n) PROVE SoundTask(k)'
  <2>1. CASE k # n
    BY <1>6, <2>1, TaskFrame DEF Output!CleanUp, Output!Becomes, Output!AbortUpload
  <2>2. CASE k = n
    <3>1. SoundTask(n) /\ refused[n] \in Nat /\ Output!AbortUpload(n)
      BY <1>6 DEF Output!CleanUp, SoundTasks
    <3>2. n \in uploads' => n \in uploads /\ refused'[n] = refused[n] + 1
      BY <3>1 DEF Output!AbortUpload
    <3>3. CASE task[n] = "abort"
      <4>1. task'[n] = "abort again" /\ spools' = spools
        BY <1>6, <3>3 DEF Output!CleanUp, Output!Becomes
      <4>2. n \in spools
        BY <3>1, <3>3 DEF SoundTask, Pending, Output!Active, Output!Failing
      <4>3. n \in uploads' => refused'[n] >= 1
        BY <3>1, <3>2
      <4>4. SoundTask(n)'
        BY <4>1, <4>2, <4>3 DEF SoundTask, Pending, Output!Active, Output!Failing
      <4> QED
        BY <2>2, <4>4
    <3>4. CASE task[n] = "abort again"
      <4>1. task'[n] = "failed" /\ n \notin spools'
        BY <1>6, <3>4 DEF Output!CleanUp, Output!Becomes
      <4>2. n \in uploads' => refused'[n] >= 2
        <5>1. n \in uploads => refused[n] >= 1
          BY <3>1, <3>4 DEF SoundTask
        <5> QED
          BY <5>1, <3>1, <3>2
      <4>3. SoundTask(n)'
        BY <4>1, <4>2 DEF SoundTask, Pending, Output!Active, Output!Uploading,
           Output!Failing
      <4> QED
        BY <2>2, <4>3
    <3> QED
      BY <1>6, <3>3, <3>4 DEF Output!CleanUp, Output!Failing
  <2> QED
    BY <2>1, <2>2
<1>7. Output!Reject \/ Output!Throttle \/ Output!Written \/ Output!Resolve
      \/ Output!Shutdown \/ Output!Drain \/ UNCHANGED Output!vars
        => UNCHANGED <<task, spools, store, uploads, refused>>
  BY DEF Output!Reject, Output!Throttle, Output!Written, Output!Resolve,
     Output!Shutdown, Output!Drain, Output!ResolveOldest, Output!Writers,
     Output!vars
<1> QED
  BY <1>1, <1>2, <1>3, <1>4, <1>5, <1>6, <1>7 DEF Output!Next, Output!MainStep,
     Output!ThreadStep

(* What is at the end of a queue of trajectories, and what is added to it. *)
LEMMA QueueTail ==
  ASSUME NEW S, NEW s \in Seq(S), s # <<>>
  PROVE  /\ Tail(s) \in Seq(S) /\ Len(s) >= 1 /\ Head(s) = s[1] /\ Head(s) \in S
         /\ Len(Tail(s)) = Len(s) - 1
         /\ \A i \in 1 .. Len(Tail(s)) : Tail(s)[i] = s[i + 1]
BY HeadTailProperties, EmptySeq

LEMMA QueueAppend ==
  ASSUME NEW S, NEW s \in Seq(S), NEW n \in S
  PROVE  /\ Append(s, n) \in Seq(S)
         /\ Len(Append(s, n)) = Len(s) + 1
         /\ \A i \in 1 .. Len(s) : Append(s, n)[i] = s[i]
         /\ Append(s, n)[Len(s) + 1] = n
BY AppendProperties

(* Every step keeps the types.                                             *)
LEMMA TypeStep ==
  ASSUME Output!OutputConstants, Output!TypeOK, outputPc \in Working => InOrder,
        [Output!Next]_(Output!vars)
  PROVE  Output!TypeOK'
<1> USE ObjectNames
<1> DEFINE Main == /\ outputPc \in {"row", "submit", "throttle", "resolve", "shutdown",
                                   "lineage", "cancel", "drain", "release",
                                   "release again"} \cup Output!Ended
                   /\ next \in 1..Count + 1 /\ lineageRows \in 0..Count
                   /\ futures \in Seq(Output!Trajectories)
                   /\ objects \in Seq(Output!Trajectories)
                   /\ manifest \subseteq Output!Objects
           Writer == /\ task \in [Output!Objects -> States]
                     /\ sent \in [Output!Objects -> Nat]
                     /\ \A n \in Output!Trajectories : sent[n] <= Parts[n]
                     /\ spools \subseteq Output!Trajectories
                     /\ store \subseteq Output!Objects /\ uploads \subseteq Output!Objects
                     /\ refused \in [Output!Objects -> Nat]
<1>1. Main /\ Writer
  BY DEF Output!TypeOK, States
<1>2. Main'
  <2>1. CASE UNCHANGED Output!main
    BY <1>1, <2>1 DEF Output!main
  <2>2. CASE Output!WriteRow \/ Output!Reject \/ Output!Written
    <3>1. outputPc' \in {"row", "submit", "resolve", "cancel"}
      BY <2>2 DEF Output!WriteRow, Output!Reject, Output!Written, Output!Raise
    <3>2. UNCHANGED <<futures, objects, manifest>>
      BY <2>2 DEF Output!WriteRow, Output!Reject, Output!Written
    <3>3. outputPc \in Writing /\ next \in 1..Count
      <4>1. outputPc \in Writing
        BY <2>2 DEF Output!WriteRow, Output!Reject, Output!Written, Writing
      <4>2. next <= Count
        BY <4>1 DEF InOrder, MainInOrder, Working
      <4>3. Count \in Nat /\ next \in 1..Count + 1
        BY <1>1 DEF Output!OutputConstants
      <4> QED
        BY <4>1, <4>2, <4>3
    <3>4. outputPc = "row" => lineageRows = next - 1
      BY DEF InOrder, MainInOrder, Working, Writing
    <3>5. next' = next \/ next' = next + 1
      BY <2>2 DEF Output!WriteRow, Output!Reject, Output!Written
    <3>6. lineageRows' = lineageRows \/ (outputPc = "row" /\ lineageRows' = lineageRows + 1)
      BY <2>2 DEF Output!WriteRow, Output!Reject, Output!Written
    <3>7. next' \in 1..Count + 1 /\ lineageRows' \in 0..Count
      <4>1. Count \in Nat /\ lineageRows \in 0..Count
        BY <1>1 DEF Output!OutputConstants
      <4> QED
        BY <3>3, <3>4, <3>5, <3>6, <4>1
    <3> QED
      BY <1>1, <3>1, <3>2, <3>7
  <2>3. CASE Output!Submit
    <3>1. next \in Output!Trajectories
      BY <1>1, <2>3 DEF Output!Submit, InOrder, MainInOrder, Working, Writing,
         Output!Trajectories
    <3> QED
      BY <1>1, <2>3, <3>1, QueueAppend DEF Output!Submit
  <2>4. CASE Output!Throttle \/ Output!Resolve
    <3>1. Output!ResolveOldest
      BY <2>4 DEF Output!Throttle, Output!Resolve
    <3>2. futures' \in Seq(Output!Trajectories) /\ Head(futures) \in Output!Trajectories
      BY <1>1, <3>1, QueueTail DEF Output!ResolveOldest
    <3>3. objects' = objects \/ objects' = Append(objects, Head(futures))
      BY <3>1 DEF Output!ResolveOldest
    <3>4. objects' \in Seq(Output!Trajectories)
      <4>1. objects \in Seq(Output!Trajectories)
        BY <1>1
      <4>2. Append(objects, Head(futures)) \in Seq(Output!Trajectories)
        BY <3>2, <4>1, QueueAppend
      <4> QED
        BY <3>3, <4>1, <4>2
    <3> QED
      BY <1>1, <3>1, <3>2, <3>4 DEF Output!ResolveOldest, Output!Raise
  <2>5. CASE Output!Shutdown \/ Output!Drain \/ Output!ReleaseLineage
    BY <1>1, <2>5, EmptySeq DEF Output!Shutdown, Output!Drain,
       Output!ReleaseLineage, Output!Ended
  <2>6. CASE Output!CloseLineage
    <3>1. {objects[i] : i \in DOMAIN objects} \subseteq Output!Trajectories
      <4> SUFFICES ASSUME NEW i \in DOMAIN objects PROVE objects[i] \in Output!Trajectories
        OBVIOUS
      <4>1. objects \in Seq(Output!Trajectories)
        BY <1>1
      <4> QED
        BY <4>1, LenProperties, ElementOfSeq
    <3>2. manifest' \subseteq Output!Objects
      BY <1>1, <2>6, <3>1 DEF Output!CloseLineage
    <3> QED
      BY <1>1, <2>6, <3>2 DEF Output!CloseLineage, Output!Raise, Output!Ended
  <2>7. (\E n \in Output!Trajectories : Output!Cancel(n) \/ Output!ThreadStep(n))
        \/ UNCHANGED Output!vars
          => UNCHANGED Output!main
    BY DEF Output!Cancel, Output!ThreadStep, Output!Take, Output!Upload,
       Output!CleanUp, Output!vars
  <2> QED
    BY <2>1, <2>2, <2>3, <2>4, <2>5, <2>6, <2>7 DEF Output!Next, Output!MainStep
<1>3. Writer'
  <2>1. CASE UNCHANGED <<task, sent, spools, store, uploads, refused>>
    BY <1>1, <2>1
  <2>2. CASE Output!WriteRow \/ Output!CloseLineage \/ Output!ReleaseLineage
    <3>1. spools' = spools /\ (store' = store \/ store' = store \cup {Output!Lineage})
      BY <2>2 DEF Output!WriteRow, Output!CloseLineage, Output!ReleaseLineage,
         Output!Writers, Output!CreateUpload, Output!SendPart, Output!PutOrComplete
    <3>2. \/ uploads' = uploads
          \/ uploads' = uploads \cup {Output!Lineage}
          \/ uploads' = uploads \ {Output!Lineage}
      BY <2>2 DEF Output!WriteRow, Output!CloseLineage, Output!ReleaseLineage,
         Output!Writers, Output!CreateUpload, Output!SendPart, Output!PutOrComplete,
         Output!AbortUpload
    <3>3. task' = task \/ \E s \in States : Output!Becomes(Output!Lineage, s)
      BY <2>2 DEF Output!WriteRow, Output!CloseLineage, Output!ReleaseLineage,
         Output!Writers, Output!CreateUpload, Output!SendPart, Output!PutOrComplete,
         States, Output!Active, Output!Uploading, Output!Failing, Output!Settled
    <3>4. sent' = sent \/ sent' = [sent EXCEPT ![Output!Lineage] = @ + 1]
      BY <2>2 DEF Output!WriteRow, Output!CloseLineage, Output!ReleaseLineage,
         Output!Writers, Output!CreateUpload, Output!SendPart, Output!PutOrComplete
    <3>5. refused' = refused \/ refused' = [refused EXCEPT ![Output!Lineage] = @ + 1]
      BY <2>2 DEF Output!WriteRow, Output!CloseLineage, Output!ReleaseLineage,
         Output!Writers, Output!CreateUpload, Output!SendPart, Output!PutOrComplete,
         Output!AbortUpload
    <3>6. task' \in [Output!Objects -> States]
      BY <1>1, <3>3 DEF Output!Becomes
    <3>7. sent' \in [Output!Objects -> Nat] /\ refused' \in [Output!Objects -> Nat]
      <4>1. sent \in [Output!Objects -> Nat] /\ refused \in [Output!Objects -> Nat]
        BY <1>1
      <4> QED
        BY <3>4, <3>5, <4>1
    <3>8. \A n \in Output!Trajectories : sent'[n] <= Parts[n]
      BY <1>1, <3>4
    <3> QED
      BY <1>1, <3>1, <3>2, <3>6, <3>7, <3>8
  <2>3. CASE Output!Submit
    <3>1. next \in Output!Trajectories
      BY <1>1, <2>3 DEF Output!Submit, InOrder, MainInOrder, Working, Writing,
         Output!Trajectories
    <3> QED
      BY <1>1, <2>3, <3>1 DEF Output!Submit, Output!Becomes, States
  <2>4. ASSUME NEW n \in Output!Trajectories, Output!Cancel(n) \/ Output!Take(n)
        \/ Output!CleanUp(n) PROVE Writer'
    <3>1. sent' = sent /\ store' = store /\ (spools' = spools \/ spools' = spools \ {n})
      BY <2>4 DEF Output!Cancel, Output!Take, Output!CleanUp
    <3>2. uploads' = uploads \/ uploads' = uploads \ {n}
      BY <2>4 DEF Output!Cancel, Output!Take, Output!CleanUp, Output!AbortUpload
    <3>3. \E s \in States : Output!Becomes(n, s)
      BY <2>4 DEF Output!Cancel, Output!Take, Output!CleanUp, States, Output!Active,
         Output!Uploading, Output!Failing, Output!Settled
    <3>4. refused' = refused \/ refused' = [refused EXCEPT ![n] = @ + 1]
      BY <2>4 DEF Output!Cancel, Output!Take, Output!CleanUp, Output!AbortUpload
    <3>5. task' \in [Output!Objects -> States]
      BY <1>1, <3>3 DEF Output!Becomes
    <3>6. refused' \in [Output!Objects -> Nat]
      <4>1. refused \in [Output!Objects -> Nat] /\ n \in Output!Objects
        BY <1>1
      <4> QED
        BY <3>4, <4>1
    <3> QED
      BY <1>1, <3>1, <3>2, <3>5, <3>6
  <2>5. ASSUME NEW n \in Output!Trajectories, Output!Upload(n) PROVE Writer'
    <3>1. refused' = refused /\ (store' = store \/ store' = store \cup {n})
      BY <2>5 DEF Output!Upload, Output!CreateUpload, Output!SendPart,
         Output!PutOrComplete, Output!RequestFails
    <3>2. spools' = spools \/ spools' = spools \ {n}
      BY <2>5 DEF Output!Upload
    <3>3. uploads' = uploads \/ uploads' = uploads \cup {n} \/ uploads' = uploads \ {n}
      BY <2>5 DEF Output!Upload, Output!CreateUpload, Output!SendPart,
         Output!PutOrComplete, Output!RequestFails
    <3>4. task' = task \/ \E s \in States : Output!Becomes(n, s)
      BY <2>5 DEF Output!Upload, Output!CreateUpload, Output!SendPart,
         Output!PutOrComplete, Output!RequestFails, States, Output!Active,
         Output!Uploading, Output!Failing, Output!Settled
    <3>5. task' \in [Output!Objects -> States]
      BY <1>1, <3>4 DEF Output!Becomes
    <3>6. \/ sent' = sent
          \/ sent' = [sent EXCEPT ![n] = @ + 1] /\ sent[n] # Parts[n]
      BY <2>5 DEF Output!Upload, Output!LastRequest, Output!CreateUpload,
         Output!SendPart, Output!PutOrComplete, Output!RequestFails
    <3>7. sent' \in [Output!Objects -> Nat]
          /\ \A m \in Output!Trajectories : sent'[m] <= Parts[m]
      <4>1. CASE sent' = sent
        BY <1>1, <4>1
      <4>2. CASE sent' = [sent EXCEPT ![n] = @ + 1] /\ sent[n] # Parts[n]
        <5>1. n \in Output!Objects /\ sent \in [Output!Objects -> Nat] /\ sent[n] \in Nat
          BY <1>1
        <5>2. sent' \in [Output!Objects -> Nat]
          BY <4>2, <5>1
        <5>3. ASSUME NEW m \in Output!Trajectories PROVE sent'[m] <= Parts[m]
          <6>1. sent[m] <= Parts[m] /\ sent[m] \in Nat /\ Parts[m] \in Nat
            BY <1>1
          <6>2. sent'[m] = IF m = n THEN sent[m] + 1 ELSE sent[m]
            BY <4>2, <5>1
          <6> QED
            BY <4>2, <6>1, <6>2
        <5> QED
          BY <5>2, <5>3
      <4> QED
        BY <3>6, <4>1, <4>2
    <3> QED
      BY <1>1, <3>1, <3>2, <3>3, <3>5, <3>7
  <2>6. Output!Reject \/ Output!Throttle \/ Output!Written \/ Output!Resolve
        \/ Output!Shutdown \/ Output!Drain \/ UNCHANGED Output!vars
          => UNCHANGED <<task, sent, spools, store, uploads, refused>>
    BY DEF Output!Reject, Output!Throttle, Output!Written, Output!Resolve,
       Output!Shutdown, Output!Drain, Output!ResolveOldest, Output!Writers,
       Output!vars
  <2> QED
    BY <2>1, <2>2, <2>3, <2>4, <2>5, <2>6 DEF Output!Next, Output!MainStep,
       Output!ThreadStep
<1> QED
  BY <1>2, <1>3 DEF Output!TypeOK, States

(* What a thread does leaves a task alone that has not begun or is done.   *)
LEMMA ThreadFrame ==
  ASSUME Output!OutputConstants, Output!TypeOK, NEW n \in Output!Trajectories,
        Output!ThreadStep(n),
         NEW k \in Output!Trajectories, task[k] \in {"none", "done"}
  PROVE  task'[k] = task[k]
<1>1. task[n] \notin {"none", "done"}
  BY DEF Output!ThreadStep, Output!Take, Output!Upload, Output!CleanUp,
     Output!Oldest, Output!Queued, Output!Uploading, Output!Failing
<1>2. k # n /\ k \in Output!Objects /\ n \in Output!Objects
      /\ task \in [Output!Objects -> States]
  BY <1>1, ObjectNames, WriterTypes
<1> QED
  BY <1>2 DEF Output!ThreadStep, Output!Take, Output!Upload, Output!CleanUp,
     Output!Becomes, Output!CreateUpload, Output!SendPart, Output!PutOrComplete,
     Output!RequestFails

(* Every step keeps the order, until something fails.                      *)
LEMMA OrderStep ==
  ASSUME Output!OutputConstants, Output!TypeOK, outputPc \in Working => InOrder,
        [Output!Next]_(Output!vars)
  PROVE  (outputPc \in Working => InOrder)'
<1> SUFFICES ASSUME outputPc' \in Working
             PROVE  InOrder'
  OBVIOUS
<1>1. /\ Count \in Nat /\ next \in 1..Count + 1
      /\ futures \in Seq(Output!Trajectories) /\ objects \in Seq(Output!Trajectories)
      /\ Len(futures) \in Nat /\ Len(objects) \in Nat
      /\ task \in [Output!Objects -> States] /\ Output!Trajectories \subseteq Output!Objects
      /\ Output!Trajectories \subseteq Nat /\ Output!Lineage \notin Output!Trajectories
  BY ObjectNames, WriterTypes, LenProperties DEF Output!OutputConstants,
     Output!TypeOK
<1>2. CASE Output!WriteRow
  <2>1. InOrder /\ outputPc = "row" /\ outputPc' = "submit" /\ lineageRows' = next
    BY <1>1, <1>2 DEF Output!WriteRow, Output!Raise, Working, Writing, InOrder,
       MainInOrder
  <2>2. UNCHANGED <<next, futures, objects>>
    BY <1>2 DEF Output!WriteRow
  <2>3. \A n \in Output!Trajectories : task'[n] = task[n]
    BY <1>1, <1>2 DEF Output!WriteRow, Output!Writers, Output!CreateUpload,
       Output!SendPart, Output!AbortUpload, Output!Becomes
  <2> QED
    BY <2>1, <2>2, <2>3 DEF InOrder, QueueInOrder, TasksInOrder, MainInOrder,
      Submitted, Writing
<1>3. CASE Output!Submit
  <2>1. /\ InOrder /\ outputPc = "submit" /\ outputPc' = "throttle" /\ next <= Count
        /\ UNCHANGED <<next, lineageRows, objects>> /\ futures' = Append(futures, next)
        /\ Output!Becomes(next, "queued") /\ next \in Output!Trajectories
    BY <1>1, <1>3 DEF Output!Submit, Working, Writing, InOrder, MainInOrder,
       Output!Trajectories
  <2>2. Len(objects) + Len(futures) = next - 1
    BY <2>1 DEF InOrder, QueueInOrder, Submitted
  <2>3. /\ Len(futures') = Len(futures) + 1 /\ futures'[Len(futures) + 1] = next
        /\ \A i \in 1 .. Len(futures) : futures'[i] = futures[i]
    BY <1>1, <2>1, QueueAppend
  <2>4. QueueInOrder'
    <3>1. ASSUME NEW i \in 1 .. Len(futures') PROVE futures'[i] = Len(objects) + i
      <4>1. i \in 1 .. Len(futures) \/ i = Len(futures) + 1
        BY <1>1, <2>3
      <4>2. CASE i \in 1 .. Len(futures)
        BY <2>1, <2>3, <4>2 DEF InOrder, QueueInOrder
      <4>3. CASE i = Len(futures) + 1
        BY <1>1, <2>2, <2>3, <4>3
      <4> QED
        BY <4>1, <4>2, <4>3
    <3> QED
      BY <1>1, <2>1, <2>2, <2>3, <3>1 DEF InOrder, QueueInOrder, Submitted
  <2>5. TasksInOrder'
    <3> SUFFICES ASSUME NEW n \in Output!Trajectories
                 PROVE  /\ n <= Len(objects) => task'[n] = "done"
                        /\ n > next => task'[n] = "none"
      BY <2>1 DEF TasksInOrder, Submitted
    <3>1. n # next => task'[n] = task[n]
      BY <1>1, <2>1 DEF Output!Becomes
    <3>2. n <= Len(objects) => task[n] = "done"
      BY <2>1 DEF InOrder, TasksInOrder
    <3>3. n > next - 1 => task[n] = "none"
      BY <2>1 DEF InOrder, TasksInOrder, Submitted
    <3> QED
      BY <1>1, <2>2, <3>1, <3>2, <3>3
  <2>6. MainInOrder'
    BY <2>1 DEF InOrder, MainInOrder, Writing
  <2> QED
    BY <2>4, <2>5, <2>6 DEF InOrder
<1>4. CASE Output!Throttle \/ Output!Resolve
  <2>1. /\ InOrder /\ outputPc' = outputPc /\ outputPc \in {"throttle", "resolve"}
        /\ futures # <<>> /\ task[Head(futures)] = "done"
        /\ futures' = Tail(futures) /\ objects' = Append(objects, Head(futures))
        /\ UNCHANGED <<next, lineageRows, task>>
    BY <1>4 DEF Output!Throttle, Output!Resolve, Output!ResolveOldest, Output!Raise,
       Output!Writers, Working, Writing
  <2>2. /\ Len(futures) >= 1 /\ Head(futures) = futures[1]
        /\ Len(futures') = Len(futures) - 1
        /\ \A i \in 1 .. Len(futures') : futures'[i] = futures[i + 1]
        /\ Head(futures) \in Output!Trajectories
    BY <1>1, <2>1, QueueTail
  <2>3. Head(futures) = Len(objects) + 1
    BY <1>1, <2>1, <2>2 DEF InOrder, QueueInOrder
  <2>4. /\ Len(objects') = Len(objects) + 1
        /\ \A i \in 1 .. Len(objects) : objects'[i] = objects[i]
        /\ objects'[Len(objects) + 1] = Len(objects) + 1
    BY <1>1, <2>1, <2>2, <2>3, QueueAppend
  <2>5. Submitted' = Submitted
    BY <2>1 DEF Submitted
  <2>6. QueueInOrder'
    <3>1. Len(objects') + Len(futures') = Submitted
      BY <1>1, <2>1, <2>2, <2>4 DEF InOrder, QueueInOrder
    <3>2. \A i \in 1 .. Len(objects') : objects'[i] = i
      BY <1>1, <2>1, <2>4 DEF InOrder, QueueInOrder
    <3>3. ASSUME NEW i \in 1 .. Len(futures') PROVE futures'[i] = Len(objects') + i
      <4>1. i + 1 \in 1 .. Len(futures) /\ futures'[i] = futures[i + 1]
        BY <1>1, <2>2
      <4>2. futures[i + 1] = Len(objects) + (i + 1)
        BY <2>1, <4>1 DEF InOrder, QueueInOrder
      <4> QED
        BY <1>1, <2>4, <4>1, <4>2
    <3> QED
      BY <2>5, <3>1, <3>2, <3>3 DEF QueueInOrder
  <2>7. TasksInOrder'
    <3> SUFFICES ASSUME NEW n \in Output!Trajectories
                 PROVE  /\ n <= Len(objects) + 1 => task[n] = "done"
                        /\ n > Submitted => task[n] = "none"
      BY <2>1, <2>4, <2>5 DEF TasksInOrder
    <3>1. n = Len(objects) + 1 => task[n] = "done"
      BY <2>1, <2>3
    <3> QED
      BY <1>1, <2>1, <3>1 DEF InOrder, TasksInOrder
  <2>8. MainInOrder'
    BY <2>1 DEF InOrder, MainInOrder, Writing
  <2> QED
    BY <2>6, <2>7, <2>8 DEF InOrder
<1>5. CASE Output!Written
  <2>1. /\ InOrder /\ outputPc = "throttle" /\ next <= Count /\ next' = next + 1
        /\ outputPc' = IF next = Count THEN "resolve" ELSE "row"
        /\ Len(futures) < MaxPending
        /\ UNCHANGED <<lineageRows, futures, objects, task>>
    BY <1>5 DEF Output!Written, Output!Writers, Working, Writing, InOrder,
       MainInOrder
  <2>2. Submitted' = Submitted
    BY <1>1, <2>1 DEF Submitted
  <2>3. MainInOrder'
    BY <1>1, <2>1 DEF InOrder, MainInOrder, Writing
  <2> QED
    BY <2>1, <2>2, <2>3 DEF InOrder, QueueInOrder, TasksInOrder
<1>6. CASE Output!Shutdown
  <2>1. /\ InOrder /\ outputPc = "resolve" /\ outputPc' = "lineage" /\ futures = <<>>
        /\ UNCHANGED <<next, lineageRows, futures, objects, task>>
    BY <1>6 DEF Output!Shutdown, Output!Writers, Working
  <2> QED
    BY <2>1 DEF InOrder, QueueInOrder, TasksInOrder, MainInOrder, Submitted, Writing
<1>7. ASSUME NEW n \in Output!Trajectories, Output!ThreadStep(n) PROVE InOrder'
  <2>1. InOrder /\ UNCHANGED Output!main
    BY <1>7 DEF Output!ThreadStep, Output!Take, Output!Upload, Output!CleanUp,
       Output!main
  <2>2. \A k \in Output!Trajectories : task[k] \in {"none", "done"} => task'[k] = task[k]
    BY <1>7, ThreadFrame
  <2> QED
    BY <2>1, <2>2 DEF InOrder, QueueInOrder, TasksInOrder, MainInOrder, Submitted,
       Output!main
<1>8. Output!Reject \/ Output!CloseLineage \/ Output!Drain \/ Output!ReleaseLineage
      \/ (\E n \in Output!Trajectories : Output!Cancel(n))
        => outputPc' \notin Working
  BY DEF Output!Reject, Output!CloseLineage, Output!Drain, Output!ReleaseLineage,
     Output!Cancel, Output!Raise, Output!main, Working, Writing
<1>9. CASE UNCHANGED Output!vars
  BY <1>9 DEF Output!vars, Output!main, InOrder, QueueInOrder, TasksInOrder,
     MainInOrder, Submitted
<1> QED
  BY <1>2, <1>3, <1>4, <1>5, <1>6, <1>7, <1>8, <1>9 DEF Output!Next, Output!MainStep

(* Before the lineage is closed every trajectory is an object in the store.*)
LEMMA AtLineage ==
  ASSUME Output!OutputConstants, Output!TypeOK, SoundTasks, InOrder, outputPc = "lineage"
  PROVE  /\ Len(objects) = Count /\ lineageRows = Count
         /\ \A n \in Output!Trajectories : task[n] = "done" /\ n \in store
         /\ {objects[i] : i \in DOMAIN objects} = Output!Trajectories
<1>1. /\ Count \in Nat /\ next \in 1..Count + 1 /\ Len(objects) \in Nat
      /\ DOMAIN objects = 1 .. Len(objects)
  BY LenProperties DEF Output!OutputConstants, Output!TypeOK
<1>2. next > Count /\ lineageRows = Count /\ Len(futures) = 0
  BY <1>1, EmptySeq DEF InOrder, MainInOrder, Writing
<1>3. Len(objects) = Count
  <2>1. Len(objects) + Len(futures) = next - 1
    BY DEF InOrder, QueueInOrder, Submitted
  <2>2. next = Count + 1 /\ Count \in Nat
    BY <1>1, <1>2
  <2>3. Len(objects) \in Nat /\ Len(futures) = 0
    BY <1>1, <1>2
  <2> QED
    BY <2>1, <2>2, <2>3
<1>4. \A n \in Output!Trajectories : task[n] = "done"
  BY <1>3 DEF InOrder, TasksInOrder, Output!Trajectories
<1>5. \A n \in Output!Trajectories : n \in store
  BY <1>4 DEF SoundTasks, SoundTask
<1>6. \A i \in 1 .. Count : objects[i] = i
  BY <1>3 DEF InOrder, QueueInOrder
<1>7. {objects[i] : i \in DOMAIN objects} = Output!Trajectories
  BY <1>1, <1>3, <1>6 DEF Output!Trajectories
<1> QED
  BY <1>2, <1>3, <1>4, <1>5, <1>7

(* A set of temporary files that shrinks stays bounded.                    *)
LEMMA FewerSpools ==
  ASSUME Output!OutputConstants, Output!TypeOK, Limited, spools' \subseteq spools
  PROVE  Cardinality(spools)' <= MaxPending
<1>1. IsFiniteSet(spools)
  <2>1. Count \in Int
    BY DEF Output!OutputConstants
  <2>2. IsFiniteSet(Output!Trajectories)
    BY <2>1, FS_Interval DEF Output!Trajectories
  <2> QED
    BY <2>2, FS_Subset DEF Output!TypeOK
<1>2. /\ Cardinality(spools') <= Cardinality(spools)
      /\ Cardinality(spools') \in Nat /\ Cardinality(spools) \in Nat
  BY <1>1, FS_Subset, FS_CardinalityType
<1>3. Cardinality(spools) <= MaxPending /\ MaxPending \in Nat
  BY DEF Limited, Output!OutputConstants
<1> QED
  BY <1>2, <1>3

(* Every step keeps the queue and the temporary files bounded: a           *)
(* trajectory is spooled once there is room for it in the queue.           *)
LEMMA BoundStep ==
  ASSUME Output!OutputConstants, Output!TypeOK, SoundTasks, outputPc \in Working
        => InOrder, Limited,
         [Output!Next]_(Output!vars)
  PROVE  Limited'
<1>1. /\ Count \in Nat /\ MaxPending \in Nat \ {0} /\ next \in 1..Count + 1
      /\ futures \in Seq(Output!Trajectories)
      /\ Len(futures) \in Nat /\ Len(objects) \in Nat /\ Len(futures) <= MaxPending
      /\ spools \subseteq Output!Trajectories /\ Output!Trajectories \subseteq Nat
  BY ObjectNames, LenProperties DEF Output!OutputConstants, Output!TypeOK, Limited
<1>2. CASE Output!Submit
  <2>1. /\ InOrder /\ outputPc = "submit" /\ next <= Count /\ Len(futures) < MaxPending
        /\ next \in Output!Trajectories
        /\ futures' = Append(futures, next) /\ spools' = spools \cup {next}
    BY <1>1, <1>2 DEF Output!Submit, Working, Writing, InOrder, MainInOrder,
       Output!Trajectories
  <2>2. Len(futures') = Len(futures) + 1
    BY <1>1, <2>1, QueueAppend
  <2>3. Len(objects) + Len(futures) = next - 1
    BY <2>1 DEF InOrder, QueueInOrder, Submitted
  <2>4. ASSUME NEW n \in spools PROVE n \in Len(objects) + 1 .. next
    <3>1. n \in Output!Trajectories /\ n \in Nat /\ task[n] \notin {"none", "done"}
      BY <1>1 DEF SoundTasks, SoundTask, Pending, Output!Active, Output!Uploading,
         Output!Failing
    <3>2. ~(n <= Len(objects)) /\ ~(n > next - 1)
      BY <2>1, <3>1 DEF InOrder, TasksInOrder, Submitted
    <3> QED
      BY <1>1, <3>1, <3>2
  <2>5. spools' \subseteq Len(objects) + 1 .. next
    BY <1>1, <2>1, <2>3, <2>4
  <2>6. /\ IsFiniteSet(Len(objects) + 1 .. next)
        /\ Cardinality(Len(objects) + 1 .. next) = Len(futures) + 1
    <3>1. Len(objects) + 1 \in Int /\ next \in Int
      BY <1>1
    <3>2. /\ IsFiniteSet(Len(objects) + 1 .. next)
          /\ Cardinality(Len(objects) + 1 .. next)
               = IF Len(objects) + 1 > next THEN 0 ELSE next - (Len(objects) + 1) + 1
      BY <3>1, FS_Interval
    <3> QED
      BY <1>1, <2>3, <3>2
  <2>7. Cardinality(spools') <= Len(futures) + 1 /\ Cardinality(spools') \in Nat
    BY <2>5, <2>6, FS_Subset, FS_CardinalityType
  <2> QED
    BY <1>1, <2>1, <2>2, <2>7 DEF Limited
<1>3. CASE Output!Throttle \/ Output!Resolve
  <2>1. futures # <<>> /\ futures' = Tail(futures) /\ spools' \subseteq spools
    BY <1>3 DEF Output!Throttle, Output!Resolve, Output!ResolveOldest
  <2>2. Len(futures') = Len(futures) - 1
    BY <1>1, <2>1, QueueTail
  <2> QED
    BY <1>1, <2>1, <2>2, FewerSpools DEF Limited
<1>4. CASE Output!Drain
  BY <1>1, <1>4, EmptySeq, FewerSpools DEF Output!Drain, Limited
<1>5. Output!WriteRow \/ Output!Reject \/ Output!Written \/ Output!Shutdown
      \/ Output!CloseLineage \/ Output!ReleaseLineage
        \/ (\E n \in Output!Trajectories : Output!Cancel(n) \/ Output!ThreadStep(n))
              \/ UNCHANGED Output!vars
        => futures' = futures /\ spools' \subseteq spools
  BY DEF Output!WriteRow, Output!Reject, Output!Written, Output!Shutdown,
     Output!CloseLineage, Output!ReleaseLineage, Output!Cancel, Output!ThreadStep,
     Output!Take, Output!Upload, Output!CleanUp, Output!main, Output!vars
<1>6. CASE futures' = futures /\ spools' \subseteq spools
  BY <1>1, <1>6, FewerSpools DEF Limited
<1> QED
  BY <1>2, <1>3, <1>4, <1>5, <1>6 DEF Output!Next, Output!MainStep

(* Where nothing is pending no thread takes a step.                        *)
LEMMA NoThread ==
  ASSUME \A n \in Output!Trajectories : ~Pending(n), NEW n \in Output!Trajectories
  PROVE  ~Output!ThreadStep(n) /\ ~Output!Cancel(n)
BY DEF Output!ThreadStep, Output!Take, Output!Upload, Output!CleanUp, Output!Cancel,
   Output!Oldest, Output!Queued, Pending, Output!Active, Output!Uploading,
   Output!Failing

(* Every step keeps the threads quiet once they have been waited for.      *)
LEMMA ThreadsStayQuiet ==
  ASSUME Output!OutputConstants, Output!TypeOK, SoundTasks, outputPc \in Working
        => InOrder, Quiet,
         [Output!Next]_(Output!vars)
  PROVE  Quiet'
<1> SUFFICES ASSUME outputPc' \in Waited
             PROVE  \A n \in Output!Trajectories : ~Pending(n)'
  BY DEF Quiet
<1>1. task \in [Output!Objects -> States] /\ Output!Trajectories \subseteq Output!Objects
      /\ Output!Lineage \notin Output!Trajectories
  BY ObjectNames, WriterTypes
<1>2. CASE Output!CloseLineage
  <2>1. InOrder /\ outputPc = "lineage"
    BY <1>2 DEF Output!CloseLineage, Working
  <2>2. \A n \in Output!Trajectories : task[n] = "done"
    BY <2>1, AtLineage
  <2>3. \A n \in Output!Trajectories : task'[n] = task[n]
    BY <1>1, <1>2 DEF Output!CloseLineage, Output!PutOrComplete, Output!Becomes
  <2> QED
    BY <2>2, <2>3 DEF Pending, Output!Active, Output!Uploading, Output!Failing
<1>3. CASE Output!Drain
  <2>1. task' = task /\ Output!Queued = {} /\ Output!Busy = {}
    BY <1>3 DEF Output!Drain, Output!Writers
  <2> QED
    BY <2>1 DEF Output!Queued, Output!Busy, Pending
<1>4. CASE Output!ReleaseLineage
  BY <1>4 DEF Output!ReleaseLineage, Quiet, Waited, Pending
<1>5. ASSUME NEW n \in Output!Trajectories, Output!ThreadStep(n) \/ Output!Cancel(n)
      PROVE FALSE
  <2>1. outputPc' = outputPc
    BY <1>5 DEF Output!ThreadStep, Output!Take, Output!Upload, Output!CleanUp,
       Output!Cancel, Output!main
  <2> QED
    BY <1>5, <2>1, NoThread DEF Quiet
<1>6. Output!WriteRow \/ Output!Reject \/ Output!Submit \/ Output!Throttle
      \/ Output!Written \/ Output!Resolve \/ Output!Shutdown
        => outputPc' \notin Waited
  BY DEF Output!WriteRow, Output!Reject, Output!Submit, Output!Throttle,
     Output!Written, Output!Resolve, Output!ResolveOldest, Output!Shutdown,
     Output!Raise, Waited, Output!Ended
<1>7. CASE UNCHANGED Output!vars
  BY <1>7 DEF Output!vars, Output!main, Quiet, Pending
<1> QED
  BY <1>2, <1>3, <1>4, <1>5, <1>6, <1>7 DEF Output!Next, Output!MainStep

(* After close or abort has returned nothing happens.                      *)
LEMMA EndStays ==
  ASSUME Quiet, outputPc \in Output!Ended, [Output!Next]_(Output!vars)
  PROVE  UNCHANGED Output!vars
<1>1. \A n \in Output!Trajectories : ~Output!ThreadStep(n) /\ ~Output!Cancel(n)
  BY NoThread DEF Quiet, Waited
<1>2. ~(Output!WriteRow \/ Output!Reject \/ Output!Submit \/ Output!Throttle \/ Output!Written \/ Output!Resolve \/ Output!Shutdown
          \/ Output!CloseLineage \/ Output!Drain \/ Output!ReleaseLineage)
  BY DEF Output!WriteRow, Output!Reject, Output!Submit, Output!Throttle,
     Output!Written, Output!Resolve, Output!Shutdown, Output!CloseLineage,
     Output!Drain, Output!ReleaseLineage, Output!Ended
<1> QED
  BY <1>1, <1>2 DEF Output!Next, Output!MainStep

(* Every step keeps what the end promises.                                 *)
LEMMA EndStep ==
  ASSUME Output!OutputConstants, Output!TypeOK, SoundTasks, outputPc \in Working
        => InOrder, Quiet,
         LineageReleased, Output!ManifestExact, [Output!Next]_(Output!vars)
  PROVE  LineageReleased' /\ Output!ManifestExact'
<1>1. CASE outputPc \in Output!Ended
  <2>1. UNCHANGED Output!vars
    BY <1>1, EndStays
  <2> QED
    BY <2>1 DEF Output!vars, Output!main, LineageReleased, Output!ManifestExact
<1>2. CASE outputPc' \notin Output!Ended
  BY <1>2 DEF LineageReleased, Output!ManifestExact, Output!Ended
<1>3. CASE outputPc \notin Output!Ended /\ Output!CloseLineage
  <2>1. InOrder /\ outputPc = "lineage" /\ objects' = objects /\ lineageRows' = lineageRows
    BY <1>3 DEF Output!CloseLineage, Working
  <2>2. CASE outputPc' = "closed"
    <3>1. /\ store' = store \cup {Output!Lineage} /\ Output!Lineage \notin uploads'
          /\ manifest' = {objects[i] : i \in DOMAIN objects} \cup {Output!Lineage}
      BY <1>3, <2>2 DEF Output!CloseLineage, Output!PutOrComplete, Output!Raise
    <3>2. /\ Len(objects) = Count /\ lineageRows = Count
          /\ \A n \in Output!Trajectories : n \in store
          /\ {objects[i] : i \in DOMAIN objects} = Output!Trajectories
      BY <2>1, AtLineage
    <3>3. manifest' = Output!Objects /\ manifest' \subseteq store'
      BY <3>1, <3>2 DEF Output!Objects
    <3> QED
      BY <2>1, <2>2, <3>1, <3>2, <3>3 DEF LineageReleased, Output!ManifestExact
  <2>3. CASE outputPc' # "closed"
    BY <1>2, <1>3, <2>3 DEF Output!CloseLineage, Output!Raise, Output!Ended
  <2> QED
    BY <2>2, <2>3
<1>4. CASE Output!ReleaseLineage
  <2>1. outputPc' # "closed"
    BY <1>4 DEF Output!ReleaseLineage
  <2>2. Output!Lineage \in uploads' => refused'[Output!Lineage] >= 1
    <3>1. refused \in [Output!Objects -> Nat] /\ Output!Lineage \in Output!Objects
      BY ObjectNames, WriterTypes
    <3>2. Output!AbortUpload(Output!Lineage)
      BY <1>4 DEF Output!ReleaseLineage
    <3> QED
      BY <3>1, <3>2 DEF Output!AbortUpload
  <2> QED
    BY <2>1, <2>2 DEF LineageReleased, Output!ManifestExact
<1>5. Output!WriteRow \/ Output!Reject \/ Output!Submit \/ Output!Throttle
      \/ Output!Written \/ Output!Resolve \/ Output!Shutdown
        \/ Output!Drain
              \/ (\E n \in Output!Trajectories : Output!Cancel(n) \/ Output!ThreadStep(n))
        \/ UNCHANGED Output!vars
        => outputPc' = outputPc \/ outputPc' \notin Output!Ended
  BY DEF Output!WriteRow, Output!Reject, Output!Submit, Output!Throttle,
     Output!Written, Output!Resolve, Output!ResolveOldest, Output!Shutdown,
     Output!Drain, Output!Cancel, Output!ThreadStep, Output!Take, Output!Upload,
     Output!CleanUp, Output!Raise, Output!Ended, Output!main, Output!vars
<1> QED
  BY <1>1, <1>2, <1>3, <1>4, <1>5 DEF Output!Next, Output!MainStep

-----------------------------------------------------------------------------
LEMMA OutputStarts ==
  ASSUME Output!OutputConstants, Output!Init
  PROVE  OutputInv
<1>1. Count \in Nat \ {0} /\ MaxPending \in Nat \ {0}
      /\ Output!Trajectories \subseteq Output!Objects
  BY ObjectNames DEF Output!OutputConstants
<1>2. Cardinality(spools) = 0 /\ Len(futures) = 0 /\ Len(objects) = 0
  BY FS_EmptySet, EmptySeq DEF Output!Init
<1>3. Output!TypeOK
  BY <1>1, EmptySeq, ObjectNames DEF Output!Init, Output!TypeOK
<1>4. SoundTasks /\ Quiet
  BY <1>1 DEF Output!Init, SoundTasks, SoundTask, Pending, Output!Active,
     Output!Uploading, Output!Failing, Quiet, Waited, Output!Ended
<1>5. InOrder
  <2>1. QueueInOrder /\ MainInOrder
    BY <1>1, <1>2 DEF Output!Init, QueueInOrder, MainInOrder, Submitted, Writing
  <2>2. TasksInOrder
    BY <1>1, <1>2 DEF Output!Init, TasksInOrder, Output!Trajectories
  <2> QED
    BY <2>1, <2>2 DEF InOrder
<1>6. Limited /\ LineageReleased /\ Output!ManifestExact
  BY <1>1, <1>2 DEF Output!Init, Limited, LineageReleased, Output!ManifestExact
<1> QED
  BY <1>3, <1>4, <1>5, <1>6 DEF OutputInv

LEMMA OutputInvariant ==
  ASSUME Output!OutputConstants
  PROVE  Output!Spec => []OutputInv
<1>1. Output!Init => OutputInv
  BY OutputStarts
<1>2. OutputInv /\ [Output!Next]_(Output!vars) => OutputInv'
  BY TypeStep, TaskStep, OrderStep, BoundStep, ThreadsStayQuiet, EndStep
     DEF OutputInv
<1> QED
  BY <1>1, <1>2, PTL DEF Output!Spec

(* close() returns only a manifest that lists every trajectory and the     *)
(* lineage, all of them in the store.                                      *)
LEMMA ListsWhatIsThere ==
  ASSUME Output!OutputConstants
  PROVE  Output!Spec => []Output!ManifestExact
<1>1. OutputInv => Output!ManifestExact
  BY DEF OutputInv
<1> QED
  BY <1>1, OutputInvariant, PTL

(* The state is of its type, and neither the queue of uploads nor the      *)
(* temporary files on the disk exceed max_pending.                         *)
LEMMA DiskIsBounded ==
  ASSUME Output!OutputConstants
  PROVE  Output!Spec => []Output!QueueBounded
<1>1. OutputInv => Output!QueueBounded
  BY SameCardinality DEF OutputInv, Limited, Output!QueueBounded
<1> QED
  BY <1>1, OutputInvariant, PTL

(* When the output set has ended no spool is open, and an upload is left   *)
(* at the store only if each of its aborts was refused.                    *)
LEMMA AbortReleases ==
  ASSUME Output!OutputConstants
  PROVE  Output!Spec => []Output!NothingLeaked
<1>1. OutputInv => Output!NothingLeaked
  <2> SUFFICES ASSUME OutputInv, outputPc \in Output!Ended
               PROVE  /\ spools = {}
                      /\ \A n \in uploads : refused[n] >= IF n = Output!Lineage THEN 1 ELSE 2
    BY DEF Output!NothingLeaked
  <2>1. \A n \in Output!Trajectories : SoundTask(n) /\ ~Pending(n)
    BY DEF OutputInv, SoundTasks, Quiet, Waited
  <2>2. spools = {}
    BY <2>1 DEF OutputInv, Output!TypeOK, SoundTask
  <2>3. ASSUME NEW n \in uploads PROVE refused[n] >= IF n = Output!Lineage THEN 1 ELSE 2
    <3>1. CASE n = Output!Lineage
      BY <3>1 DEF OutputInv, LineageReleased, Output!Ended
    <3>2. CASE n # Output!Lineage
      <4>1. n \in Output!Trajectories /\ task[n] \in States
        BY <3>2, ObjectNames, WriterTypes DEF OutputInv, Output!TypeOK
      <4>2. task[n] = "failed"
        BY <2>1, <4>1 DEF SoundTask, Pending, States, Output!Active, Output!Settled
      <4> QED
        BY <2>1, <3>2, <4>1, <4>2 DEF SoundTask
    <3> QED
      BY <3>1, <3>2
  <2> QED
    BY <2>2, <2>3
<1> QED
  BY <1>1, OutputInvariant, PTL

(* The lineage becomes visible last, and once close() or abort() has       *)
(* returned no thread changes the store.                                   *)
LEMMA LineageIsLast ==
  ASSUME Output!OutputConstants
  PROVE  Output!Spec => Output!StoreOrdered
<1>1. OutputInv /\ [Output!Next]_(Output!vars)
        => [/\ Output!Lineage \in store' \ store => Output!Trajectories \subseteq store
            /\ outputPc \in Output!Ended => UNCHANGED <<store, uploads>>]_(Output!vars)
  <2> SUFFICES ASSUME OutputInv, [Output!Next]_(Output!vars)
               PROVE  /\ Output!Lineage \in store' \ store => Output!Trajectories \subseteq store
                      /\ outputPc \in Output!Ended => UNCHANGED <<store, uploads>>
    OBVIOUS
  <2>1. outputPc \in Output!Ended => UNCHANGED <<store, uploads>>
    BY EndStays DEF OutputInv, Output!vars
  <2>2. CASE Output!CloseLineage
    BY <2>1, <2>2, AtLineage DEF OutputInv, Output!CloseLineage, Working
  <2>3. ASSUME NEW n \in Output!Trajectories, Output!ThreadStep(n)
        PROVE  store' = store \/ store' = store \cup {n}
    BY <2>3 DEF Output!ThreadStep, Output!Take, Output!Upload, Output!CleanUp,
       Output!CreateUpload, Output!SendPart, Output!PutOrComplete,
       Output!RequestFails
  <2>4. Output!WriteRow \/ Output!Reject \/ Output!Submit \/ Output!Throttle
        \/ Output!Written \/ Output!Resolve \/ Output!Shutdown
          \/ Output!Drain \/ Output!ReleaseLineage
                \/ (\E n \in Output!Trajectories : Output!Cancel(n))
          \/ UNCHANGED Output!vars
          => store' = store
    BY DEF Output!WriteRow, Output!Reject, Output!Submit, Output!Throttle,
       Output!Written, Output!Resolve, Output!ResolveOldest, Output!Shutdown,
       Output!Drain, Output!ReleaseLineage, Output!Cancel, Output!Writers,
       Output!CreateUpload, Output!SendPart, Output!vars
  <2>5. CASE ~Output!CloseLineage
    <3>1. store' = store \/ \E n \in Output!Trajectories : store' = store \cup {n}
      BY <2>3, <2>4, <2>5 DEF Output!Next, Output!MainStep
    <3>2. Output!Lineage \notin store' \ store
      BY <3>1, ObjectNames
    <3> QED
      BY <2>1, <3>2
  <2> QED
    BY <2>2, <2>5
<1> QED
  BY <1>1, OutputInvariant, PTL DEF Output!Spec, Output!StoreOrdered

-----------------------------------------------------------------------------
(* Every run of the pipeline is an ingest and, on the variables of the     *)
(* output set, a run of an output set that most of the time waits for its  *)
(* first trajectory.                                                       *)
LEMMA RunIngests ==
  TransferSpec => Spec
<1>1. TransferInit => Init
  BY DEF TransferInit
<1>2. [TransferNext]_<<vars, outputSet>> => [Next]_vars
  BY DEF TransferNext, IngestStep, ReaderStep, ExportStep, UploadStep, Next
<1> QED
  BY <1>1, <1>2, PTL DEF TransferSpec, Spec

THEOREM RunsAnOutputSet ==
  TransferSpec => Output!Spec
<1>1. TransferInit => Output!Init
  BY DEF TransferInit
<1>2. [TransferNext]_<<vars, outputSet>> => [Output!Next]_Output!vars
  <2> SUFFICES ASSUME [TransferNext]_<<vars, outputSet>>
               PROVE  Output!Next \/ UNCHANGED Output!vars
    OBVIOUS
  <2>1. CASE ExportStep
    BY <2>1 DEF ExportStep, Output!Next
  <2>2. ASSUME NEW n \in 1 .. Count, UploadStep(n) PROVE Output!Next
    BY <2>2 DEF UploadStep, Output!Next, Output!Trajectories
  <2>3. CASE IngestStep \/ (\E c \in Captures : ReaderStep(c)) \/ UNCHANGED <<vars,
        outputSet>>
    BY <2>3 DEF IngestStep, ReaderStep, outputSet, Output!vars, Output!main
  <2> QED
    BY <2>1, <2>2, <2>3 DEF TransferNext
<1> QED
  BY <1>1, <1>2, PTL DEF TransferSpec, Output!Spec

LEMMA FeedInvariant ==
  TransferSpec => []FeedInv
BY RunIngests, FeedStarts, FeedStep, PTL DEF Spec

(* Every capture gets at most one row, made of the whole listed object;    *)
(* the rows that come from parsing are in source order and skip nothing,   *)
(* whichever thread is ready first; an ingest that ends well has committed *)
(* a row for every capture.                                                *)
THEOREM EveryCaptureOnce ==
  TransferSpec => []IngestExact
BY FeedInvariant, ExactFeed, PTL

(* The window of reads, the queue of parses, the upload queue and the      *)
(* temporary files are within their limits, for every setting of them.     *)
THEOREM QueuesHold ==
  TransferSpec => []QueuesBounded
<1>1. Output!Spec => []Output!QueueBounded
  BY TransferAssumption, DiskIsBounded
<1>2. FeedInv => FeedBounded
  BY BoundedFeed
<1> QED
  BY <1>1, <1>2, RunsAnOutputSet, FeedInvariant, PTL DEF QueuesBounded

(* What a run leaves behind when its output set has ended: no temporary    *)
(* file, and an upload only if each abort of it was refused.               *)
THEOREM NothingLeftBehind ==
  TransferSpec => []NothingLeaked
<1>1. Output!Spec => []Output!NothingLeaked
  BY TransferAssumption, AbortReleases
<1> QED
  BY <1>1, RunsAnOutputSet, PTL DEF NothingLeaked

(* The lineage of a run becomes visible after every trajectory, and no     *)
(* thread changes the store once the output set has ended.                 *)
THEOREM LineageComesLast ==
  TransferSpec => StoreOrdered
<1>1. Output!Spec => Output!StoreOrdered
  BY TransferAssumption, LineageIsLast
<1> QED
  BY <1>1, RunsAnOutputSet, PTL DEF StoreOrdered

(* The output set waits for the ingest.                                    *)
Waiting == store # {} \/ uploads # {} => Exporting

LEMMA WaitingStep ==
  FeedInv /\ Waiting /\ [TransferNext]_<<vars, outputSet>> => Waiting'
<1> SUFFICES ASSUME FeedInv, Waiting, [TransferNext]_<<vars, outputSet>> PROVE Waiting'
  OBVIOUS
<1>1. CASE ExportStep \/ (\E n \in 1 .. Count : UploadStep(n))
  <2>1. Exporting /\ UNCHANGED vars
    BY <1>1 DEF ExportStep, UploadStep
  <2> QED
    BY <2>1 DEF Exporting, Waiting, vars, world
<1>2. CASE IngestStep \/ (\E c \in Captures : ReaderStep(c)) \/ UNCHANGED <<vars, outputSet>>
  <2>1. store' = store /\ uploads' = uploads
    BY <1>2 DEF IngestStep, ReaderStep, outputSet
  <2>2. bucket' = bucket
    BY <1>2 DEF IngestStep, ReaderStep, MainStep, List, Submit, EndFill, TakeRead,
       ReadLocal, EndCaptures, Reuse, ParseInline, Enqueue, Drain, EndDrain, Close,
       EndRaise, StartRead, EndRead, EndParse, vars, world
  <2>3. pc = "finished" => pc' = pc
    BY <1>2 DEF IngestStep, ReaderStep, MainStep, List, Submit, EndFill, TakeRead,
       ReadLocal, EndCaptures, Reuse, ParseInline, Enqueue, Drain, EndDrain, Close,
       EndRaise, StartRead, EndRead, EndParse, vars
  <2> QED
    BY <2>1, <2>2, <2>3 DEF Exporting, Waiting
<1> QED
  BY <1>1, <1>2 DEF TransferNext

(* The manifest of a run lists every trajectory and the lineage, each of   *)
(* them complete in the store; and nothing is in the store before every    *)
(* capture of the listing was ingested and every thread has ended.         *)
THEOREM ManifestOfTheListing ==
  TransferSpec => []ManifestExact
<1>1. Output!Spec => []Output!ManifestExact
  BY TransferAssumption, ListsWhatIsThere
<1>2. TransferInit => Waiting
  BY DEF TransferInit, Output!Init, Waiting
<1>3. TransferSpec => []Waiting
  BY <1>2, WaitingStep, FeedInvariant, PTL DEF TransferSpec
<1>4. FeedInv /\ Exporting => Decided = Selected /\ batch = <<>> /\ ~Busy
  BY ExactFeed, QuietEnd DEF IngestExact, Exporting, Ended
<1>5. FeedInv /\ Waiting /\ Output!ManifestExact => ManifestExact
  BY <1>4 DEF Waiting, ManifestExact
<1> QED
  BY <1>1, <1>3, <1>5, RunsAnOutputSet, FeedInvariant, PTL
=============================================================================
