------------------------ MODULE PrefixAggregation_proofs ------------------------
(***************************************************************************)
(* Proofs about the two prefix aggregations, for any captures, tokens,     *)
(* digests, cache size and bound on the inputs.                            *)
(*                                                                         *)
(* A node of either trie stands for a path: a compatibility key and the    *)
(* messages from its root (Node).  In memory the nodes are these paths;    *)
(* what is kept is that the leaves are the maximal captures and that the   *)
(* counts and postings are theirs (MemoryInv).  On disk nothing says which *)
(* path a row stands for: DiskInv asserts that there are paths P that fit  *)
(* the table (IsTrie), by which the covered bits mark the histories of the *)
(* captures walked (Marks), the rows have the right endpoints (RowsKept)   *)
(* and the capture under way is where its messages lead (Walking).         *)
(***************************************************************************)
EXTENDS PrefixAggregation, FiniteSetTheorems, SequenceTheorems,
        NaturalsInduction, WellFoundedInduction, TLAPS

-----------------------------------------------------------------------------
(* Transcripts                                                             *)

(* The trie node that the first n messages of c lead to, the one that its  *)
(* complete transcript ends at, and those its history runs through.        *)
Node(c, n) == <<Compatibility(c), SubSeq(Full(c), 1, n)>>
End(c) == Node(c, Len(Full(c)))
History(c) == IF Nonempty(c) THEN {Node(c, n) : n \in 0 .. PrefixDepth(c)} ELSE {}

(* The lengths of a transcript: a strict history is shorter than it.       *)
LEMMA Lengths ==
  ASSUME NEW c \in Captures
  PROVE  /\ c.history \in Seq(Tokens) /\ c.response \in Seq(Tokens)
         /\ Full(c) \in Seq(Tokens) /\ Len(Full(c)) \in Nat
         /\ Len(Full(c)) = Len(c.history) + Len(c.response)
         /\ PrefixDepth(c) \in Int /\ PrefixDepth(c) <= Len(c.history)
         /\ PrefixDepth(c) < Len(Full(c))
         /\ Nonempty(c) <=> Len(Full(c)) > 0
         /\ Nonempty(c) => PrefixDepth(c) \in Nat
<1>1. c.history \in Seq(Tokens) /\ c.response \in Seq(Tokens)
  BY CaptureAssumption
<1>2. /\ Full(c) \in Seq(Tokens)
      /\ Len(Full(c)) = Len(c.history) + Len(c.response)
  BY <1>1, ConcatProperties DEF Full
<1>3. /\ Len(c.history) \in Nat /\ Len(c.response) \in Nat /\ Len(Full(c)) \in Nat
      /\ c.response = <<>> <=> Len(c.response) = 0
      /\ Full(c) = <<>> <=> Len(Full(c)) = 0
  BY <1>1, <1>2, EmptySeq, LenProperties
<1>4. PrefixDepth(c) = IF Len(c.response) # 0 THEN Len(c.history) ELSE Len(c.history) - 1
  BY <1>3 DEF PrefixDepth
<1>5. Nonempty(c) <=> Len(Full(c)) # 0
  BY <1>3 DEF Nonempty
<1>6. /\ PrefixDepth(c) \in Int /\ PrefixDepth(c) <= Len(c.history)
      /\ PrefixDepth(c) < Len(Full(c))
      /\ Nonempty(c) <=> Len(Full(c)) > 0
      /\ Nonempty(c) => PrefixDepth(c) \in Nat
  <2> DEFINE h == Len(c.history)
             r == Len(c.response)
             f == Len(Full(c))
             d == PrefixDepth(c)
  <2>1. h \in Nat /\ r \in Nat /\ f = h + r /\ d = IF r # 0 THEN h ELSE h - 1
    BY <1>2, <1>3, <1>4
  <2>2. Nonempty(c) <=> f # 0
    BY <1>5
  <2> HIDE DEF h, r, f, d
  <2>3. d \in Int /\ d <= h /\ d < f /\ (f # 0 => d \in Nat) /\ (f # 0 <=> f > 0)
    BY <2>1
  <2> QED
    BY <2>2, <2>3 DEF h, f, d
<1> QED
  BY <1>1, <1>2, <1>3, <1>6

(* The first messages of a history are those of the whole transcript.      *)
LEMMA HistoryIsPrefix ==
  ASSUME NEW c \in Captures, NEW n \in Nat, n <= Len(c.history)
  PROVE  SubSeq(c.history, 1, n) = SubSeq(Full(c), 1, n)
<1>1. /\ c.history \in Seq(Tokens) /\ c.response \in Seq(Tokens)
      /\ Len(c.history) \in Nat
  BY Lengths, LenProperties
<1>2. SubSeq(c.history \o c.response, 1, n) = SubSeq(c.history, 1, n)
  <2>1. CASE n = 0
    BY <2>1, SubSeqEmpty
  <2>2. CASE n # 0
    <3>1. 1 \in 1 .. Len(c.history) /\ n \in 1 .. Len(c.history)
      BY <1>1, <2>2
    <3> QED
      BY <1>1, <3>1, SubSeqOfConcat1
  <2> QED
    BY <2>1, <2>2
<1> QED
  BY <1>2 DEF Full

(* What the first messages of a transcript are.                            *)
LEMMA FirstMessages ==
  ASSUME NEW c \in Captures, NEW n \in 0 .. Len(Full(c))
  PROVE  /\ SubSeq(Full(c), 1, n) \in Seq(Tokens)
         /\ Len(SubSeq(Full(c), 1, n)) = n
         /\ \A i \in 1 .. n : SubSeq(Full(c), 1, n)[i] = Full(c)[i]
         /\ n < Len(Full(c)) =>
              /\ Full(c)[n + 1] \in Tokens
              /\ SubSeq(Full(c), 1, n + 1) = Append(SubSeq(Full(c), 1, n), Full(c)[n + 1])
<1>1. Full(c) \in Seq(Tokens) /\ Len(Full(c)) \in Nat
  BY Lengths
<1>2. /\ SubSeq(Full(c), 1, n) \in Seq(Tokens)
      /\ Len(SubSeq(Full(c), 1, n)) = n
      /\ \A i \in 1 .. n : SubSeq(Full(c), 1, n)[i] = Full(c)[i]
  BY <1>1
<1>3. ASSUME n < Len(Full(c))
      PROVE  /\ Full(c)[n + 1] \in Tokens
             /\ SubSeq(Full(c), 1, n + 1) = Append(SubSeq(Full(c), 1, n), Full(c)[n + 1])
  <2>1. n + 1 \in 1 .. Len(Full(c))
    BY <1>1, <1>3
  <2>2. Full(c)[n + 1] \in Tokens
    BY <1>1, <2>1, ElementOfSeq
  <2> QED
    BY <1>1, <1>3, <2>1, <2>2
<1> QED
  BY <1>2, <1>3

(* The whole transcript is its own first messages.                         *)
LEMMA WholeTranscript ==
  ASSUME NEW c \in Captures
  PROVE  End(c) = <<Compatibility(c), Full(c)>>
BY Lengths, SubSeqFull DEF End, Node

(* A history continues a complete transcript exactly if it runs through    *)
(* the node that the transcript ends at.                                   *)
LEMMA CoversByNode ==
  ASSUME NEW c \in Captures, NEW d \in Captures
  PROVE  Covers(d, c) <=> End(c) \in History(d)
<1>1. ASSUME Covers(d, c) PROVE End(c) \in History(d)
  <2>a. /\ PrefixDepth(d) \in Int /\ PrefixDepth(d) <= Len(d.history)
        /\ d.history \in Seq(Tokens) /\ Len(Full(c)) \in Nat
    BY Lengths
  <2>b. Len(Full(c)) <= PrefixDepth(d) /\ Len(d.history) \in Nat
    BY <1>1, <2>a, LenProperties DEF Covers
  <2>1. Len(Full(c)) \in 0 .. PrefixDepth(d) /\ Len(Full(c)) <= Len(d.history)
        /\ Len(Full(c)) \in Nat
    BY <2>a, <2>b
  <2>2. Full(c) = SubSeq(Full(d), 1, Len(Full(c)))
    BY <1>1, <2>1, HistoryIsPrefix DEF Covers
  <2>3. End(c) = Node(d, Len(Full(c)))
    BY <1>1, <2>2, WholeTranscript DEF Covers, Node
  <2> QED
    BY <1>1, <2>1, <2>3 DEF Covers, History
<1>2. ASSUME End(c) \in History(d) PROVE Covers(d, c)
  <2>1. PICK n \in 0 .. PrefixDepth(d) : End(c) = Node(d, n)
    BY <1>2 DEF History
  <2>2. Nonempty(d)
    BY <1>2 DEF History
  <2>a. /\ PrefixDepth(d) \in Int /\ PrefixDepth(d) <= Len(d.history)
        /\ d.history \in Seq(Tokens) /\ Len(Full(d)) \in Nat
        /\ PrefixDepth(d) < Len(Full(d))
    BY Lengths
  <2>b. Len(d.history) \in Nat
    BY <2>a, LenProperties
  <2>3. n \in 0 .. Len(Full(d)) /\ n <= Len(d.history) /\ n \in Nat
        /\ n <= PrefixDepth(d)
    BY <2>a, <2>b
  <2>4. Compatibility(c) = Compatibility(d) /\ Full(c) = SubSeq(Full(d), 1, n)
    BY <2>1, WholeTranscript DEF Node
  <2>5. Len(Full(c)) = n
    BY <2>3, <2>4, FirstMessages
  <2> QED
    BY <2>2, <2>3, <2>4, <2>5, HistoryIsPrefix DEF Covers
<1> QED
  BY <1>1, <1>2

(* No transcript continues itself, and continuing is transitive.           *)
LEMMA Irreflexive ==
  ASSUME NEW c \in Captures
  PROVE  ~Covers(c, c)
<1>1. PrefixDepth(c) \in Int /\ Len(Full(c)) \in Nat
      /\ PrefixDepth(c) < Len(Full(c))
  BY Lengths
<1>2. ~(Len(Full(c)) <= PrefixDepth(c))
  BY <1>1
<1> QED
  BY <1>2 DEF Covers

LEMMA Transitive ==
  ASSUME NEW a \in Captures, NEW b \in Captures, NEW c \in Captures,
         Covers(c, b), Covers(b, a)
  PROVE  Covers(c, a)
<1>1. /\ Len(Full(a)) <= PrefixDepth(b) /\ Len(Full(b)) <= PrefixDepth(c)
      /\ Len(Full(a)) <= PrefixDepth(c) /\ Len(Full(a)) <= Len(b.history)
      /\ Len(Full(a)) <= Len(c.history) /\ Len(Full(b)) <= Len(c.history)
      /\ Len(Full(a)) \in 0 .. Len(Full(b)) /\ Len(Full(b)) \in 0 .. Len(Full(c))
      /\ Len(Full(a)) \in 0 .. Len(Full(c))
  <2>1. /\ PrefixDepth(b) \in Int /\ PrefixDepth(b) <= Len(b.history)
        /\ PrefixDepth(c) \in Int /\ PrefixDepth(c) <= Len(c.history)
        /\ b.history \in Seq(Tokens) /\ c.history \in Seq(Tokens)
        /\ Len(Full(a)) \in Nat /\ Len(Full(b)) \in Nat /\ Len(Full(c)) \in Nat
        /\ PrefixDepth(b) < Len(Full(b)) /\ PrefixDepth(c) < Len(Full(c))
    BY Lengths
  <2>2. Len(b.history) \in Nat /\ Len(c.history) \in Nat
    BY <2>1, LenProperties
  <2>3. Len(Full(a)) <= PrefixDepth(b) /\ Len(Full(b)) <= PrefixDepth(c)
    BY DEF Covers
  <2> QED
    BY <2>1, <2>2, <2>3
<1>2. Full(a) = SubSeq(Full(b), 1, Len(Full(a)))
  BY <1>1, HistoryIsPrefix DEF Covers
<1>3. Full(b) = SubSeq(Full(c), 1, Len(Full(b)))
  BY <1>1, HistoryIsPrefix DEF Covers
<1>4. Full(a) = SubSeq(Full(c), 1, Len(Full(a)))
  <2> DEFINE s == SubSeq(Full(c), 1, Len(Full(a)))
  <2>1. s \in Seq(Tokens) /\ Len(s) = Len(Full(a))
        /\ \A i \in 1 .. Len(Full(a)) : s[i] = Full(c)[i]
    BY <1>1, FirstMessages
  <2>2. \A i \in 1 .. Len(Full(a)) : Full(a)[i] = Full(b)[i]
    BY <1>1, <1>2, FirstMessages
  <2>3. \A i \in 1 .. Len(Full(b)) : Full(b)[i] = Full(c)[i]
    BY <1>1, <1>3, FirstMessages
  <2>4. \A i \in 1 .. Len(Full(a)) : Full(a)[i] = s[i]
    BY <1>1, <2>1, <2>2, <2>3
  <2>5. Full(a) \in Seq(Tokens)
    BY Lengths
  <2> HIDE DEF s
  <2> QED
    BY <2>1, <2>4, <2>5, SeqEqual DEF s
<1>5. SubSeq(c.history, 1, Len(Full(a))) = SubSeq(Full(c), 1, Len(Full(a)))
  BY <1>1, Lengths, HistoryIsPrefix
<1> QED
  BY <1>1, <1>4, <1>5 DEF Covers

-----------------------------------------------------------------------------
(* The in-memory aggregation                                               *)

TrieNodes == UNION {{Node(c, n) : n \in 0 .. Len(Full(c))} : c \in Captures}

(* The module's own copies of these operators are the same.                *)
LEMMA MemoryOperators ==
  /\ \A c : /\ Memory!Full(c) = Full(c) /\ Memory!Compatibility(c) = Compatibility(c)
            /\ Memory!Endpoint(c) = End(c) /\ Memory!PrefixNodes(c) = History(c)
  /\ Memory!TrieNodes = TrieNodes
  /\ \A S : Memory!Cardinality(S) = Cardinality(S)
<1>1. \A c : Memory!Full(c) = Full(c)
  BY DEF Memory!Full, Full
<1>2. \A c : Memory!Compatibility(c) = Compatibility(c)
  BY DEF Memory!Compatibility, Compatibility, Memory!Scope, Scope
<1>3. \A c : Memory!Nonempty(c) = Nonempty(c) /\ Memory!PrefixDepth(c) = PrefixDepth(c)
  BY <1>1 DEF Memory!Nonempty, Nonempty, Memory!PrefixDepth, PrefixDepth
<1>4. \A c, n : Memory!PathNode(c, n) = Node(c, n)
  BY <1>1, <1>2 DEF Memory!PathNode, Node
<1>5. \A c : Memory!Endpoint(c) = End(c)
  BY <1>1, <1>4 DEF Memory!Endpoint, End
<1>6. \A c : Memory!PrefixNodes(c) = History(c)
  BY <1>3, <1>4 DEF Memory!PrefixNodes, History
<1>7. Memory!TrieNodes = TrieNodes
  BY <1>1, <1>4 DEF Memory!TrieNodes, TrieNodes
<1>8. \A S : Memory!Cardinality(S) = Cardinality(S)
  BY DEF Memory!Cardinality, Cardinality
<1> QED
  BY <1>1, <1>2, <1>5, <1>6, <1>7, <1>8

(* The nodes of a capture are nodes of the trie.                           *)
LEMMA NodesInTrie ==
  ASSUME NEW c \in Captures
  PROVE  End(c) \in TrieNodes /\ History(c) \subseteq TrieNodes
<1>1. Len(Full(c)) \in Nat /\ PrefixDepth(c) \in Int /\ PrefixDepth(c) < Len(Full(c))
  BY Lengths
<1>2. Len(Full(c)) \in 0 .. Len(Full(c))
      /\ 0 .. PrefixDepth(c) \subseteq 0 .. Len(Full(c))
  BY <1>1
<1> QED
  BY <1>2 DEF End, History, TrieNodes

(* What IndexExact says, in the terms of this module.                      *)
Postings ==
  \A n \in TrieNodes :
    /\ extenders[n] = Cardinality({l \in leaves : n \in History(l)})
    /\ endpointLeaves[n] = {l \in leaves : End(l) = n}
    /\ endingPaths[n] = {c \in paths : End(c) = n}

MemoryTyped ==
  /\ paths \subseteq Captures /\ IsFiniteSet(paths)
  /\ endingPaths \in [TrieNodes -> SUBSET Captures]

(* The leaves are those of the abstract aggregation, and every other path  *)
(* is continued by a leaf and not only by a path: it is why the counts of  *)
(* active leaves decide about a capture.                                   *)
Maximal ==
  /\ leaves = Leaves(paths)
  /\ \A c \in paths \ leaves : \E l \in leaves : Covers(l, c)

MemoryInv == MemoryTyped /\ Maximal /\ Postings

LEMMA MemoryStarts == Memory!Init => MemoryInv
<1> SUFFICES ASSUME Memory!Init PROVE MemoryInv
  OBVIOUS
<1>1. /\ paths = {} /\ leaves = {}
      /\ extenders = [n \in TrieNodes |-> 0]
      /\ endpointLeaves = [n \in TrieNodes |-> {}]
      /\ endingPaths = [n \in TrieNodes |-> {}]
  BY MemoryOperators DEF Memory!Init
<1>2. MemoryTyped
  BY <1>1, FS_EmptySet DEF MemoryTyped
<1>3. Maximal
  BY <1>1 DEF Maximal, Leaves
<1>4. Postings
  <2>1. Cardinality({}) = 0
    BY FS_EmptySet
  <2> QED
    BY <1>1, <2>1 DEF Postings
<1> QED
  BY <1>2, <1>3, <1>4 DEF MemoryInv

(* What Add does, in the terms of this module.                             *)
LEMMA MemoryAdds ==
  ASSUME NEW c \in Captures, Memory!Add(c)
  PROVE  /\ c \notin paths /\ paths' = paths \cup {c} /\ memoryResult' = memoryResult
         /\ endingPaths' = [endingPaths EXCEPT ![End(c)] = @ \cup {c}]
         /\ LET covered == UNION {endpointLeaves[n] : n \in History(c)}
            IN \/ /\ extenders[End(c)] > 0
                  /\ UNCHANGED <<leaves, extenders, endpointLeaves>>
               \/ /\ extenders[End(c)] = 0
                  /\ leaves' = (leaves \ covered) \cup {c}
                  /\ extenders' = [n \in TrieNodes |->
                       extenders[n] - Cardinality({l \in covered : n \in History(l)})
                                    + (IF n \in History(c) THEN 1 ELSE 0)]
                  /\ endpointLeaves' = [n \in TrieNodes |->
                       (endpointLeaves[n] \ covered) \cup (IF n = End(c) THEN {c} ELSE {})]
<1>1. Memory!CoveredLeaves(c) = UNION {endpointLeaves[n] : n \in History(c)}
  BY MemoryOperators DEF Memory!CoveredLeaves
<1>2. /\ c \notin paths /\ paths' = paths \cup {c} /\ memoryResult' = memoryResult
      /\ Memory!AddCovered(c) \/ Memory!AddLeaf(c)
  BY DEF Memory!Add
<1>3. endingPaths' = [endingPaths EXCEPT ![End(c)] = @ \cup {c}]
  BY <1>2, MemoryOperators DEF Memory!AddCovered, Memory!AddLeaf
<1>4. CASE Memory!AddCovered(c)
  BY <1>2, <1>3, <1>4, MemoryOperators DEF Memory!AddCovered
<1>5. CASE Memory!AddLeaf(c)
  BY <1>1, <1>2, <1>3, <1>5, MemoryOperators DEF Memory!AddLeaf
<1> QED
  BY <1>2, <1>4, <1>5

(* The leaves that a capture takes out, and those that keep it out.        *)
Covered(c) == {l \in leaves : Covers(c, l)}
Covering(c) == {l \in leaves : Covers(l, c)}

LEMMA CountedCovers ==
  ASSUME MemoryInv, NEW c \in Captures
  PROVE  /\ UNION {endpointLeaves[n] : n \in History(c)} = Covered(c)
         /\ extenders[End(c)] = Cardinality(Covering(c))
         /\ leaves \subseteq paths /\ leaves \subseteq Captures
         /\ IsFiniteSet(leaves) /\ IsFiniteSet(Covering(c))
<1>1. leaves \subseteq paths /\ leaves \subseteq Captures
  BY DEF MemoryInv, Maximal, MemoryTyped, Leaves
<1>2. IsFiniteSet(leaves) /\ IsFiniteSet(Covering(c))
  <2>1. IsFiniteSet(leaves)
    BY <1>1, FS_Subset DEF MemoryInv, MemoryTyped
  <2>2. Covering(c) \subseteq leaves
    BY DEF Covering
  <2> QED
    BY <2>1, <2>2, FS_Subset
<1>3. UNION {endpointLeaves[n] : n \in History(c)} = Covered(c)
  <2>1. \A n \in History(c) : endpointLeaves[n] = {l \in leaves : End(l) = n}
    BY NodesInTrie DEF MemoryInv, Postings
  <2>2. UNION {endpointLeaves[n] : n \in History(c)} = {l \in leaves : End(l) \in History(c)}
    BY <2>1
  <2>3. \A l \in leaves : End(l) \in History(c) <=> Covers(c, l)
    BY <1>1, CoversByNode
  <2> QED
    BY <2>2, <2>3 DEF Covered
<1>4. extenders[End(c)] = Cardinality(Covering(c))
  <2>1. extenders[End(c)] = Cardinality({l \in leaves : End(c) \in History(l)})
    BY NodesInTrie DEF MemoryInv, Postings
  <2>2. {l \in leaves : End(c) \in History(l)} = Covering(c)
    BY <1>1, CoversByNode DEF Covering
  <2> QED
    BY <2>1, <2>2
<1> QED
  BY <1>1, <1>2, <1>3, <1>4

(* A capture that a leaf continues changes no leaf.                        *)
LEMMA CoveredKept ==
  ASSUME MemoryInv, NEW c \in Captures, c \notin paths, Covering(c) # {}
  PROVE  /\ leaves = Leaves(paths \cup {c})
         /\ \A d \in (paths \cup {c}) \ leaves : \E l \in leaves : Covers(l, d)
<1>1. /\ leaves \subseteq paths /\ leaves \subseteq Captures /\ paths \subseteq Captures
      /\ leaves = Leaves(paths)
      /\ \A d \in paths \ leaves : \E l \in leaves : Covers(l, d)
  BY CountedCovers DEF MemoryInv, MemoryTyped, Maximal
<1>2. PICK k \in leaves : Covers(k, c)
  BY DEF Covering
<1>3. ASSUME NEW l \in leaves PROVE ~Covers(c, l)
  <2>1. Covers(c, l) => Covers(k, l)
    BY <1>1, <1>2, <1>3, Transitive
  <2>2. ~Covers(k, l)
    BY <1>1, <1>2, <1>3 DEF Leaves
  <2> QED
    BY <2>1, <2>2
<1>4. leaves = Leaves(paths \cup {c})
  BY <1>1, <1>2, <1>3 DEF Leaves
<1> QED
  BY <1>1, <1>2, <1>4

(* A capture that no leaf continues, no path continues either: it becomes  *)
(* a leaf in place of those it continues.                                  *)
LEMMA LeafKept ==
  ASSUME MemoryInv, NEW c \in Captures, c \notin paths, Covering(c) = {},
         NEW kept, kept = (leaves \ Covered(c)) \cup {c}
  PROVE  /\ kept = Leaves(paths \cup {c})
         /\ \A d \in (paths \cup {c}) \ kept : \E l \in kept : Covers(l, d)
<1>1. /\ leaves \subseteq paths /\ leaves \subseteq Captures /\ paths \subseteq Captures
      /\ leaves = Leaves(paths)
      /\ \A d \in paths \ leaves : \E l \in leaves : Covers(l, d)
  BY CountedCovers DEF MemoryInv, MemoryTyped, Maximal
<1>2. \A l \in leaves : ~Covers(l, c)
  BY DEF Covering
<1>3. ASSUME NEW d \in paths PROVE ~Covers(d, c)
  <2>1. CASE d \in leaves
    BY <1>2, <2>1
  <2>2. CASE d \notin leaves
    <3>1. PICK l \in leaves : Covers(l, d)
      BY <1>1, <1>3, <2>2
    <3>2. Covers(d, c) => Covers(l, c)
      BY <1>1, <1>3, <3>1, Transitive
    <3> QED
      BY <1>2, <3>2
  <2> QED
    BY <2>1, <2>2
<1>4. ~Covers(c, c)
  BY Irreflexive
<1>5. ASSUME NEW d \in (paths \cup {c}) \ kept PROVE \E l \in kept : Covers(l, d)
  <2>1. d \in paths
    BY <1>5
  <2>2. CASE d \in leaves
    <3>1. Covers(c, d) /\ c \in kept
      BY <1>5, <2>2 DEF Covered
    <3> QED
      BY <3>1
  <2>3. CASE d \notin leaves
    <3>1. PICK l \in leaves : Covers(l, d)
      BY <1>1, <2>1, <2>3
    <3>2. CASE Covers(c, l)
      <4>1. Covers(c, d)
        BY <1>1, <2>1, <3>1, <3>2, Transitive
      <4> QED
        BY <4>1
    <3>3. CASE ~Covers(c, l)
      BY <3>1, <3>3 DEF Covered
    <3> QED
      BY <3>2, <3>3
  <2> QED
    BY <2>2, <2>3
<1>6. \A d \in kept : \A e \in paths \cup {c} : ~Covers(e, d)
  <2>1. ASSUME NEW d \in kept, NEW e \in paths \cup {c} PROVE ~Covers(e, d)
    <3>1. CASE d = c
      BY <1>3, <1>4, <2>1, <3>1
    <3>2. CASE d \in leaves /\ ~Covers(c, d)
      BY <1>1, <2>1, <3>2 DEF Leaves
    <3> QED
      BY <2>1, <3>1, <3>2 DEF Covered
  <2> QED
    BY <2>1
<1>7. kept \subseteq paths \cup {c} /\ kept \subseteq Captures
  BY <1>1
<1>8. kept = Leaves(paths \cup {c})
  BY <1>5, <1>6, <1>7 DEF Leaves
<1> QED
  BY <1>5, <1>8

(* The reference counts after a capture has become a leaf.                 *)
LEMMA CountsKept ==
  ASSUME MemoryInv, NEW c \in Captures, c \notin paths, NEW n \in TrieNodes
  PROVE  Cardinality({l \in (leaves \ Covered(c)) \cup {c} : n \in History(l)})
           = extenders[n] - Cardinality({l \in Covered(c) : n \in History(l)})
                          + (IF n \in History(c) THEN 1 ELSE 0)
<1> DEFINE all  == {l \in leaves : n \in History(l)}
           gone == {l \in Covered(c) : n \in History(l)}
           now  == {l \in (leaves \ Covered(c)) \cup {c} : n \in History(l)}
<1>1. IsFiniteSet(leaves) /\ c \notin leaves
  BY CountedCovers
<1>2. IsFiniteSet(all) /\ IsFiniteSet(gone) /\ gone \subseteq all /\ c \notin all
  <2>1. all \subseteq leaves /\ gone \subseteq leaves /\ gone \subseteq all
    BY DEF Covered
  <2> QED
    BY <1>1, <2>1, FS_Subset
<1>3. extenders[n] = Cardinality(all)
  BY DEF MemoryInv, Postings
<1>4. now = (all \ gone) \cup (IF n \in History(c) THEN {c} ELSE {})
  BY <1>1 DEF Covered
<1> HIDE DEF all, gone, now
<1>5. /\ Cardinality(all \ gone) = Cardinality(all) - Cardinality(gone)
      /\ IsFiniteSet(all \ gone)
  <2>1. all \cap gone = gone
    BY <1>2
  <2> QED
    BY <1>2, <2>1, FS_Difference
<1>6. /\ Cardinality(all) \in Nat /\ Cardinality(gone) \in Nat
      /\ Cardinality(all \ gone) \in Nat
  BY <1>2, <1>5, FS_CardinalityType
<1>7. CASE n \in History(c)
  <2>1. now = (all \ gone) \cup {c} /\ c \notin all \ gone
    BY <1>2, <1>4, <1>7
  <2>2. Cardinality(now) = Cardinality(all \ gone) + 1
    BY <1>5, <2>1, FS_AddElement
  <2>3. Cardinality(now) = extenders[n] - Cardinality(gone) + 1
    BY <1>3, <1>5, <1>6, <2>2
  <2> QED
    BY <1>7, <2>3 DEF now, gone
<1>8. CASE n \notin History(c)
  <2>1. now = all \ gone
    BY <1>4, <1>8
  <2>2. Cardinality(now) = extenders[n] - Cardinality(gone) + 0
    BY <1>3, <1>5, <1>6, <2>1
  <2> QED
    BY <1>8, <2>2 DEF now, gone
<1> QED
  BY <1>7, <1>8

(* The postings after a capture has become a leaf.                         *)
LEMMA PostingsKept ==
  ASSUME MemoryInv, NEW c \in Captures, c \notin paths, NEW n \in TrieNodes
  PROVE  (endpointLeaves[n] \ Covered(c)) \cup (IF n = End(c) THEN {c} ELSE {})
           = {l \in (leaves \ Covered(c)) \cup {c} : End(l) = n}
<1>1. endpointLeaves[n] = {l \in leaves : End(l) = n}
  BY DEF MemoryInv, Postings
<1> QED
  BY <1>1

LEMMA MemoryKept ==
  ASSUME MemoryInv, NEW c \in Captures, Memory!Add(c)
  PROVE  MemoryInv'
<1>1. /\ c \notin paths /\ paths' = paths \cup {c}
      /\ endingPaths' = [endingPaths EXCEPT ![End(c)] = @ \cup {c}]
  BY MemoryAdds
<1>2. \/ /\ extenders[End(c)] > 0
         /\ UNCHANGED <<leaves, extenders, endpointLeaves>>
      \/ /\ extenders[End(c)] = 0
         /\ leaves' = (leaves \ Covered(c)) \cup {c}
         /\ extenders' = [n \in TrieNodes |->
              extenders[n] - Cardinality({l \in Covered(c) : n \in History(l)})
                           + (IF n \in History(c) THEN 1 ELSE 0)]
         /\ endpointLeaves' = [n \in TrieNodes |->
              (endpointLeaves[n] \ Covered(c)) \cup (IF n = End(c) THEN {c} ELSE {})]
  BY MemoryAdds, CountedCovers
<1>3. MemoryTyped'
  <2>1. IsFiniteSet(paths \cup {c})
    BY FS_AddElement DEF MemoryInv, MemoryTyped
  <2> QED
    BY <1>1, <2>1 DEF MemoryInv, MemoryTyped
<1>4. \A n \in TrieNodes : endingPaths'[n] = {d \in paths' : End(d) = n}
  <2>1. endingPaths \in [TrieNodes -> SUBSET Captures] /\ End(c) \in TrieNodes
        /\ \A n \in TrieNodes : endingPaths[n] = {d \in paths : End(d) = n}
    BY NodesInTrie DEF MemoryInv, MemoryTyped, Postings
  <2> QED
    BY <1>1, <2>1
<1>5. CASE extenders[End(c)] > 0
  <2>1. UNCHANGED <<leaves, extenders, endpointLeaves>>
    BY <1>2, <1>5
  <2>2. Covering(c) # {}
    <3>1. Cardinality({}) = 0
      BY FS_EmptySet
    <3>2. extenders[End(c)] = Cardinality(Covering(c))
      BY CountedCovers
    <3> QED
      BY <1>5, <3>1, <3>2
  <2>3. Maximal'
    BY <1>1, <2>1, <2>2, CoveredKept DEF Maximal, Leaves
  <2>4. Postings'
    BY <1>4, <2>1 DEF MemoryInv, Postings
  <2> QED
    BY <1>3, <2>3, <2>4 DEF MemoryInv
<1>6. CASE extenders[End(c)] = 0
  <2>1. /\ leaves' = (leaves \ Covered(c)) \cup {c}
        /\ extenders' = [n \in TrieNodes |->
              extenders[n] - Cardinality({l \in Covered(c) : n \in History(l)})
                           + (IF n \in History(c) THEN 1 ELSE 0)]
        /\ endpointLeaves' = [n \in TrieNodes |->
              (endpointLeaves[n] \ Covered(c)) \cup (IF n = End(c) THEN {c} ELSE {})]
    BY <1>2, <1>6
  <2>2. Covering(c) = {}
    BY <1>6, CountedCovers, FS_EmptySet
  <2>3. Maximal'
    <3> DEFINE kept == (leaves \ Covered(c)) \cup {c}
    <3>1. /\ kept = Leaves(paths \cup {c})
          /\ \A d \in (paths \cup {c}) \ kept : \E l \in kept : Covers(l, d)
      BY <1>1, <2>2, LeafKept
    <3>2. leaves' = kept
      BY <2>1
    <3> HIDE DEF kept
    <3> QED
      BY <1>1, <3>1, <3>2 DEF Maximal, Leaves
  <2>4. \A n \in TrieNodes :
           extenders'[n] = Cardinality({l \in leaves' : n \in History(l)})
    BY <1>1, <2>1, CountsKept
  <2>5. \A n \in TrieNodes : endpointLeaves'[n] = {l \in leaves' : End(l) = n}
    BY <1>1, <2>1, PostingsKept
  <2>6. Postings'
    BY <1>4, <2>4, <2>5 DEF Postings
  <2> QED
    BY <1>3, <2>3, <2>6 DEF MemoryInv
<1> QED
  BY <1>2, <1>5, <1>6

(* What the in-memory aggregation returns.                                 *)
LEMMA MemoryReturns ==
  ASSUME MemoryInv, Memory!Finish
  PROVE  /\ memoryResult = NoResult /\ memoryResult' = Aggregation(paths)
         /\ UNCHANGED <<paths, leaves, extenders, endpointLeaves, endingPaths>>
<1>1. /\ memoryResult = NoResult
      /\ memoryResult' = [ leaves |-> leaves,
                           contributors |-> [l \in leaves |->
                              {l} \cup UNION {endingPaths[n] : n \in History(l)}],
                           intermediate |-> paths \ leaves ]
      /\ UNCHANGED <<paths, leaves, extenders, endpointLeaves, endingPaths>>
  BY MemoryOperators DEF Memory!Finish
<1>2. leaves = Leaves(paths) /\ leaves \subseteq paths /\ paths \subseteq Captures
  BY DEF MemoryInv, MemoryTyped, Maximal, Leaves
<1>3. ASSUME NEW l \in leaves
      PROVE  {l} \cup UNION {endingPaths[n] : n \in History(l)} = Contributors(paths, l)
  <2>1. \A n \in History(l) : endingPaths[n] = {c \in paths : End(c) = n}
    BY <1>2, <1>3, NodesInTrie DEF MemoryInv, Postings
  <2>2. UNION {endingPaths[n] : n \in History(l)} = {c \in paths : End(c) \in History(l)}
    BY <2>1
  <2>3. \A c \in paths : End(c) \in History(l) <=> Covers(l, c)
    BY <1>2, <1>3, CoversByNode
  <2> QED
    BY <2>2, <2>3 DEF Contributors
<1>4. [l \in leaves |-> {l} \cup UNION {endingPaths[n] : n \in History(l)}]
        = [l \in Leaves(paths) |-> Contributors(paths, l)]
  BY <1>2, <1>3
<1> QED
  BY <1>1, <1>2, <1>4 DEF Aggregation

-----------------------------------------------------------------------------
(* The trie in the nodes table                                             *)

Keys == {Compatibility(c) : c \in Captures}
Record == [parent : Nat \cup {Null}, token : Tokens \cup {Null}, covered : BOOLEAN]
Child(path, token) == <<path[1], Append(path[2], token)>>

(* The ghost P gives every row of the table its path: a key with a sequence *)
(* of tokens.  Two rows never have the same path, a parent is older than    *)
(* its child, and the rows without a parent are the roots of the scopes.    *)
RootRow(m, path, roots) ==
  /\ m.parent = Null /\ m.token = Null
  /\ path[1] \in DOMAIN roots /\ path[2] = <<>>

ChildRow(m, i, P) ==
  /\ m.parent \in 1 .. i - 1 /\ m.token \in Tokens
  /\ P[i] = Child(P[m.parent], m.token)

Apart(P, n) == \A i, j \in 1 .. n : P[i] = P[j] => i = j
Fresh(P, n, path) == \A i \in 1 .. n : P[i] # path

IsTrie(t, roots, P) ==
  /\ t \in Seq(Record)
  /\ P \in [1 .. Len(t) -> Keys \X Seq(Tokens)]
  /\ Apart(P, Len(t))
  /\ \A i \in 1 .. Len(t) : RootRow(t[i], P[i], roots) \/ ChildRow(t[i], i, P)
  /\ \A k \in DOMAIN roots : roots[k] \in 1 .. Len(t) /\ P[roots[k]] = <<k, <<>>>>

(* The covered bits: exactly the rows whose path is in C, which all exist. *)
Marks(t, P, C) ==
  /\ C \subseteq {P[i] : i \in 1 .. Len(t)}
  /\ \A i \in 1 .. Len(t) : t[i].covered <=> P[i] \in C

LEMMA ChildPath ==
  ASSUME NEW path, NEW token
  PROVE  Child(path, token)[1] = path[1] /\ Child(path, token)[2] = Append(path[2], token)
BY DEF Child

(* A table with one more row, and its path.                                *)
More(t, P, path) == [i \in 1 .. Len(t) + 1 |-> IF i <= Len(t) THEN P[i] ELSE path]

Extended(t, m, t2, P, path, Q) == t2 = Append(t, m) /\ Q = More(t, P, path)

Longer(t, m, t2, P, path, Q) ==
  /\ Q \in [1 .. Len(t) + 1 -> Keys \X Seq(Tokens)]
  /\ \A i \in 1 .. Len(t) : Q[i] = P[i] /\ t2[i] = t[i]
  /\ Q[Len(t) + 1] = path /\ t2[Len(t) + 1] = m
  /\ t2 \in Seq(Record) /\ Len(t2) = Len(t) + 1 /\ Len(t) \in Nat

LEMMA MorePaths ==
  ASSUME NEW t \in Seq(Record), NEW P \in [1 .. Len(t) -> Keys \X Seq(Tokens)],
         NEW path \in Keys \X Seq(Tokens), NEW m \in Record,
         NEW t2, NEW Q, Extended(t, m, t2, P, path, Q)
  PROVE  Longer(t, m, t2, P, path, Q)
<1>1. Len(t) \in Nat
  BY LenProperties
<1>2. /\ t2 \in Seq(Record) /\ Len(t2) = Len(t) + 1
      /\ \A i \in 1 .. Len(t) : t2[i] = t[i]
      /\ t2[Len(t) + 1] = m
  <2>1. t2 = Append(t, m)
    BY DEF Extended
  <2>2. /\ Append(t, m) \in Seq(Record) /\ Len(Append(t, m)) = Len(t) + 1
        /\ \A i \in 1 .. Len(t) : Append(t, m)[i] = t[i]
        /\ Append(t, m)[Len(t) + 1] = m
    BY AppendProperties
  <2> QED
    BY <2>1, <2>2, Zenon
<1>3. /\ Q \in [1 .. Len(t) + 1 -> Keys \X Seq(Tokens)]
      /\ \A i \in 1 .. Len(t) : Q[i] = P[i]
      /\ Q[Len(t) + 1] = path
  BY <1>1 DEF More, Extended
<1> QED
  BY <1>1, <1>2, <1>3 DEF Longer

(* A row with a new path keeps the paths apart.                            *)
LEMMA MoreApart ==
  ASSUME NEW t, NEW m, NEW t2, NEW P, NEW path, NEW Q, Longer(t, m, t2, P, path, Q),
         Apart(P, Len(t)), Fresh(P, Len(t), path)
  PROVE  Apart(Q, Len(t) + 1)
<1> SUFFICES ASSUME NEW i \in 1 .. Len(t) + 1, NEW j \in 1 .. Len(t) + 1, Q[i] = Q[j]
             PROVE  i = j
  BY DEF Apart
<1>1. /\ \A k \in 1 .. Len(t) : Q[k] = P[k] /\ P[k] # path
      /\ Q[Len(t) + 1] = path /\ Len(t) \in Nat
  BY DEF Longer, Fresh
<1>2. i \in 1 .. Len(t) \/ i = Len(t) + 1
  BY <1>1
<1>3. j \in 1 .. Len(t) \/ j = Len(t) + 1
  BY <1>1
<1> QED
  BY <1>1, <1>2, <1>3 DEF Apart

(* The path of the root of a scope is new as long as the scope is.         *)
LEMMA RootFresh ==
  ASSUME NEW t, NEW roots, NEW P, IsTrie(t, roots, P),
         NEW k, k \notin DOMAIN roots, NEW path, path[1] = k, path[2] = <<>>
  PROVE  Fresh(P, Len(t), path)
<1>1. /\ t \in Seq(Record) /\ P \in [1 .. Len(t) -> Keys \X Seq(Tokens)]
      /\ \A i \in 1 .. Len(t) : RootRow(t[i], P[i], roots) \/ ChildRow(t[i], i, P)
  BY DEF IsTrie
<1>2. Len(t) \in Nat
  BY <1>1, LenProperties
<1> SUFFICES ASSUME NEW i \in 1 .. Len(t), P[i] = path PROVE FALSE
  BY DEF Fresh
<1>4. CASE RootRow(t[i], P[i], roots)
  BY <1>4 DEF RootRow
<1>5. CASE ChildRow(t[i], i, P)
  <2>1. t[i].parent \in 1 .. Len(t) /\ t[i].token \in Tokens
        /\ P[i] = Child(P[t[i].parent], t[i].token)
    BY <1>2, <1>5 DEF ChildRow
  <2>2. P[t[i].parent][2] \in Seq(Tokens)
    BY <1>1, <2>1
  <2>3. Append(P[t[i].parent][2], t[i].token) # <<>>
    BY <2>1, <2>2, AppendProperties
  <2>4. P[i][2] = Append(P[t[i].parent][2], t[i].token)
    <3>1. P[i] = Child(P[t[i].parent], t[i].token)
      BY <2>1
    <3> QED
      BY <3>1, ChildPath
  <2> QED
    BY <2>3, <2>4
<1> QED
  BY <1>1, <1>4, <1>5

LEMMA RootAdded ==
  ASSUME NEW t, NEW roots, NEW P, IsTrie(t, roots, P),
         NEW k \in Keys, k \notin DOMAIN roots, NEW m \in Record,
         m.parent = Null, m.token = Null, NEW path \in Keys \X Seq(Tokens), path[1] = k, path[2] = <<>>,
         NEW more, DOMAIN more = DOMAIN roots \cup {k}, more[k] = Len(t) + 1,
         \A j \in DOMAIN roots : more[j] = roots[j],
         NEW t2, NEW Q, Extended(t, m, t2, P, path, Q)
  PROVE  IsTrie(t2, more, Q)
<1>1. /\ t \in Seq(Record) /\ P \in [1 .. Len(t) -> Keys \X Seq(Tokens)]
      /\ Apart(P, Len(t))
      /\ \A i \in 1 .. Len(t) : RootRow(t[i], P[i], roots) \/ ChildRow(t[i], i, P)
      /\ \A j \in DOMAIN roots : roots[j] \in 1 .. Len(t) /\ P[roots[j]] = <<j, <<>>>>
  BY DEF IsTrie
<1>0. Longer(t, m, t2, P, path, Q)
  BY <1>1, MorePaths
<1>3. /\ Q \in [1 .. Len(t) + 1 -> Keys \X Seq(Tokens)]
      /\ \A i \in 1 .. Len(t) : Q[i] = P[i] /\ t2[i] = t[i]
      /\ Q[Len(t) + 1] = path /\ t2[Len(t) + 1] = m
      /\ t2 \in Seq(Record) /\ Len(t2) = Len(t) + 1 /\ Len(t) \in Nat
  BY <1>0 DEF Longer
<1>4. Fresh(P, Len(t), path)
  BY RootFresh
<1>5. Apart(Q, Len(t) + 1)
  BY <1>0, <1>1, <1>4, MoreApart
<1>6. ASSUME NEW i \in 1 .. Len(t) + 1
      PROVE  RootRow(t2[i], Q[i], more) \/ ChildRow(t2[i], i, Q)
  <2>1. CASE i \in 1 .. Len(t)
    <3>1. CASE RootRow(t[i], P[i], roots)
      BY <1>3, <2>1, <3>1 DEF RootRow
    <3>2. CASE ChildRow(t[i], i, P)
      <4>1. t[i].parent \in 1 .. Len(t)
        BY <1>3, <2>1, <3>2 DEF ChildRow
      <4> QED
        BY <1>3, <2>1, <3>2, <4>1 DEF ChildRow
    <3> QED
      BY <1>1, <2>1, <3>1, <3>2
  <2>2. CASE i = Len(t) + 1
    BY <1>3, <2>2 DEF RootRow
  <2>3. i \in 1 .. Len(t) \/ i = Len(t) + 1
    BY <1>3
  <2> QED
    BY <2>1, <2>2, <2>3, Zenon
<1>7. \A j \in DOMAIN more : more[j] \in 1 .. Len(t) + 1 /\ Q[more[j]] = <<j, <<>>>>
  BY <1>1, <1>3
<1> QED
  BY <1>3, <1>5, <1>6, <1>7 DEF IsTrie

LEMMA ChildAdded ==
  ASSUME NEW t, NEW roots, NEW P, IsTrie(t, roots, P),
         NEW n \in 1 .. Len(t), NEW token \in Tokens, NEW m \in Record,
         m.parent = n, m.token = token, NEW path, path = Child(P[n], token),
         Fresh(P, Len(t), path),
         NEW t2, NEW Q, Extended(t, m, t2, P, path, Q)
  PROVE  IsTrie(t2, roots, Q)
<1>1. /\ t \in Seq(Record) /\ P \in [1 .. Len(t) -> Keys \X Seq(Tokens)]
      /\ Apart(P, Len(t))
      /\ \A i \in 1 .. Len(t) : RootRow(t[i], P[i], roots) \/ ChildRow(t[i], i, P)
      /\ \A j \in DOMAIN roots : roots[j] \in 1 .. Len(t) /\ P[roots[j]] = <<j, <<>>>>
  BY DEF IsTrie
<1>2. path \in Keys \X Seq(Tokens)
  <2>1. P[n][1] \in Keys /\ P[n][2] \in Seq(Tokens)
    BY <1>1
  <2>2. Append(P[n][2], token) \in Seq(Tokens)
    BY <2>1, AppendProperties
  <2> QED
    BY <2>1, <2>2 DEF Child
<1>0. Longer(t, m, t2, P, path, Q)
  BY <1>1, <1>2, MorePaths
<1>3. /\ Q \in [1 .. Len(t) + 1 -> Keys \X Seq(Tokens)]
      /\ \A i \in 1 .. Len(t) : Q[i] = P[i] /\ t2[i] = t[i]
      /\ Q[Len(t) + 1] = path /\ t2[Len(t) + 1] = m
      /\ t2 \in Seq(Record) /\ Len(t2) = Len(t) + 1 /\ Len(t) \in Nat
  BY <1>0 DEF Longer
<1>5. Apart(Q, Len(t) + 1)
  BY <1>0, <1>1, MoreApart
<1>6. ASSUME NEW i \in 1 .. Len(t) + 1
      PROVE  RootRow(t2[i], Q[i], roots) \/ ChildRow(t2[i], i, Q)
  <2>1. CASE i \in 1 .. Len(t)
    <3>1. CASE RootRow(t[i], P[i], roots)
      BY <1>3, <2>1, <3>1 DEF RootRow
    <3>2. CASE ChildRow(t[i], i, P)
      <4>1. t[i].parent \in 1 .. Len(t)
        BY <1>3, <2>1, <3>2 DEF ChildRow
      <4> QED
        BY <1>3, <2>1, <3>2, <4>1 DEF ChildRow
    <3> QED
      BY <1>1, <2>1, <3>1, <3>2
  <2>2. CASE i = Len(t) + 1
    <3>1. n \in 1 .. i - 1 /\ Q[n] = P[n] /\ Q[i] = path /\ t2[i] = m
      BY <1>3, <2>2
    <3>2. Q[i] = Child(Q[n], token)
      BY <3>1, Zenon
    <3> QED
      BY <3>1, <3>2, Zenon DEF ChildRow
  <2>3. i \in 1 .. Len(t) \/ i = Len(t) + 1
    BY <1>3
  <2> QED
    BY <2>1, <2>2, <2>3, Zenon
<1>7. \A j \in DOMAIN roots : roots[j] \in 1 .. Len(t) + 1 /\ Q[roots[j]] = <<j, <<>>>>
  BY <1>1, <1>3
<1> QED
  BY <1>3, <1>5, <1>6, <1>7 DEF IsTrie

BitOn(t, t2, i) ==
  /\ Len(t2) = Len(t)
  /\ \A j \in 1 .. Len(t) : t2[j] = IF j = i THEN [t[j] EXCEPT !.covered = TRUE] ELSE t[j]

(* Setting a bit changes no path.                                          *)
LEMMA BitSet ==
  ASSUME NEW t, NEW roots, NEW P, IsTrie(t, roots, P), NEW C, Marks(t, P, C),
         NEW i \in 1 .. Len(t), NEW t2, t2 = SetCovered(t, i)
  PROVE  IsTrie(t2, roots, P) /\ Marks(t2, P, C \cup {P[i]}) /\ BitOn(t, t2, i)
<1>1. /\ t \in Seq(Record) /\ Apart(P, Len(t)) /\ t[i] \in Record
      /\ \A j \in 1 .. Len(t) : RootRow(t[j], P[j], roots) \/ ChildRow(t[j], j, P)
  BY ElementOfSeq DEF IsTrie
<1> DEFINE m == [t[i] EXCEPT !.covered = TRUE]
<1>2. /\ m \in Record /\ m.parent = t[i].parent /\ m.token = t[i].token /\ m.covered = TRUE
  BY <1>1 DEF Record
<1>3. t2 = [t EXCEPT ![i] = m]
  BY <1>1 DEF SetCovered
<1> HIDE DEF m
<1>4. /\ t2 \in Seq(Record) /\ Len(t2) = Len(t)
      /\ \A j \in 1 .. Len(t) : t2[j] = IF j = i THEN m ELSE t[j]
  BY <1>1, <1>2, <1>3, ExceptSeq
<1>5. \A j \in 1 .. Len(t) : t2[j].parent = t[j].parent /\ t2[j].token = t[j].token
  BY <1>2, <1>4
<1>6. \A j \in 1 .. Len(t) : RootRow(t2[j], P[j], roots) \/ ChildRow(t2[j], j, P)
  BY <1>1, <1>5 DEF RootRow, ChildRow
<1>7. IsTrie(t2, roots, P)
  BY <1>1, <1>4, <1>6 DEF IsTrie
<1>8. Marks(t2, P, C \cup {P[i]})
  <2>1. C \cup {P[i]} \subseteq {P[j] : j \in 1 .. Len(t)}
    BY DEF Marks
  <2>2. ASSUME NEW j \in 1 .. Len(t) PROVE t2[j].covered <=> P[j] \in C \cup {P[i]}
    <3>1. CASE j = i
      BY <1>2, <1>4, <3>1
    <3>2. CASE j # i
      <4>1. t2[j] = t[j] /\ P[j] # P[i]
        BY <1>1, <1>4, <3>2 DEF Apart
      <4> QED
        BY <4>1 DEF Marks
    <3> QED
      BY <3>1, <3>2
  <2> QED
    BY <1>4, <2>1, <2>2 DEF Marks
<1> QED
  BY <1>4, <1>7, <1>8 DEF m, BitOn

(* The bits of a table with one more row, whose path no history runs       *)
(* through yet.                                                            *)
LEMMA MarksExtended ==
  ASSUME NEW t, NEW P, NEW C, Marks(t, P, C), NEW m \in Record, NEW t2, NEW path, NEW Q,
         Longer(t, m, t2, P, path, Q), Fresh(P, Len(t), path)
  PROVE  Marks(t2, Q, IF m.covered THEN C \cup {path} ELSE C)
<1>1. /\ \A i \in 1 .. Len(t) : Q[i] = P[i] /\ t2[i] = t[i] /\ P[i] # path
      /\ Q[Len(t) + 1] = path /\ t2[Len(t) + 1] = m /\ Len(t2) = Len(t) + 1
      /\ Len(t) \in Nat /\ m.covered \in BOOLEAN
  BY DEF Longer, Fresh, Record
<1>2. /\ C \subseteq {P[i] : i \in 1 .. Len(t)} /\ path \notin C
      /\ \A i \in 1 .. Len(t) : t[i].covered <=> P[i] \in C
  BY <1>1 DEF Marks
<1> DEFINE D == IF m.covered THEN C \cup {path} ELSE C
<1>3. D \subseteq {Q[i] : i \in 1 .. Len(t) + 1}
  <2>1. C \subseteq {Q[i] : i \in 1 .. Len(t) + 1}
    <3> SUFFICES ASSUME NEW x \in C PROVE \E i \in 1 .. Len(t) + 1 : x = Q[i]
      OBVIOUS
    <3>1. PICK i \in 1 .. Len(t) : x = P[i]
      BY <1>2
    <3> QED
      BY <1>1, <3>1
  <2>2. path \in {Q[i] : i \in 1 .. Len(t) + 1}
    BY <1>1
  <2> QED
    BY <2>1, <2>2
<1>4. ASSUME NEW i \in 1 .. Len(t) + 1 PROVE t2[i].covered <=> Q[i] \in D
  <2>1. CASE i \in 1 .. Len(t)
    <3>1. t2[i] = t[i] /\ Q[i] = P[i] /\ P[i] # path /\ (t[i].covered <=> P[i] \in C)
      BY <1>1, <1>2, <2>1
    <3> QED
      BY <3>1
  <2>2. CASE i = Len(t) + 1
    <3>1. t2[i] = m /\ Q[i] = path
      BY <1>1, <2>2
    <3> QED
      BY <1>2, <3>1
  <2>3. i \in 1 .. Len(t) \/ i = Len(t) + 1
    BY <1>1
  <2> QED
    BY <2>1, <2>2, <2>3, Zenon
<1> HIDE DEF D
<1>5. Marks(t2, Q, D)
  BY <1>1, <1>3, <1>4 DEF Marks
<1> QED
  BY <1>5 DEF D

(* A row without parent is at an empty path, one with a parent is not.     *)
LEMMA RootsAndChildren ==
  ASSUME NEW t, NEW roots, NEW P, IsTrie(t, roots, P), NEW i \in 1 .. Len(t)
  PROVE  /\ t[i].parent = Null <=> P[i][2] = <<>>
         /\ t[i].parent = Null => RootRow(t[i], P[i], roots)
         /\ t[i].parent # Null => ChildRow(t[i], i, P) /\ t[i].parent \in 1 .. Len(t)
<1>1. /\ t \in Seq(Record) /\ P \in [1 .. Len(t) -> Keys \X Seq(Tokens)]
      /\ RootRow(t[i], P[i], roots) \/ ChildRow(t[i], i, P)
      /\ Len(t) \in Nat
  BY LenProperties DEF IsTrie
<1>2. CASE RootRow(t[i], P[i], roots)
  BY <1>2 DEF RootRow
<1>3. CASE ChildRow(t[i], i, P)
  <2>1. t[i].parent \in 1 .. Len(t) /\ t[i].token \in Tokens
        /\ P[i] = Child(P[t[i].parent], t[i].token)
    BY <1>1, <1>3 DEF ChildRow
  <2>2. P[t[i].parent][2] \in Seq(Tokens)
    BY <1>1, <2>1
  <2>3. Append(P[t[i].parent][2], t[i].token) # <<>>
    BY <2>1, <2>2, AppendProperties
  <2>4. P[i][2] # <<>>
    BY <2>1, <2>3, ChildPath
  <2>5. t[i].parent # Null
    BY <2>1, DiskAssumption
  <2> QED
    BY <1>3, <2>1, <2>4, <2>5
<1> QED
  BY <1>1, <1>2, <1>3

(* A lookup by parent and token finds the row of the path, if there is one. *)
LEMMA LookupIsPath ==
  ASSUME NEW t, NEW roots, NEW P, IsTrie(t, roots, P),
         NEW n \in 1 .. Len(t), NEW token \in Tokens, NEW i \in 1 .. Len(t)
  PROVE  t[i].parent = n /\ t[i].token = token <=> P[i] = Child(P[n], token)
<1>1. /\ t \in Seq(Record) /\ P \in [1 .. Len(t) -> Keys \X Seq(Tokens)]
      /\ Apart(P, Len(t)) /\ Len(t) \in Nat
  BY LenProperties DEF IsTrie
<1>2. n # Null
  BY <1>1, DiskAssumption
<1>3. ASSUME t[i].parent = n, t[i].token = token PROVE P[i] = Child(P[n], token)
  <2>1. ChildRow(t[i], i, P)
    BY <1>2, <1>3, RootsAndChildren
  <2> QED
    BY <1>3, <2>1 DEF ChildRow
<1>4. ASSUME P[i] = Child(P[n], token) PROVE t[i].parent = n /\ t[i].token = token
  <2> DEFINE q == t[i].parent
  <2>1. P[n][2] \in Seq(Tokens) /\ P[n][1] \in Keys
    BY <1>1
  <2>2. P[i][2] = Append(P[n][2], token) /\ P[i][1] = P[n][1]
    BY <1>4, ChildPath
  <2>3. P[i][2] # <<>>
    BY <2>1, <2>2, AppendProperties
  <2>4. ChildRow(t[i], i, P) /\ q \in 1 .. Len(t)
    BY <2>3, RootsAndChildren
  <2>5. P[i] = Child(P[q], t[i].token) /\ t[i].token \in Tokens
    BY <2>4 DEF ChildRow
  <2> HIDE DEF q
  <2>6. P[q][2] \in Seq(Tokens) /\ P[q] \in Keys \X Seq(Tokens) /\ P[n] \in Keys \X Seq(Tokens)
    BY <1>1, <2>4
  <2>7. P[i][2] = Append(P[q][2], t[i].token) /\ P[i][1] = P[q][1]
    BY <2>5, ChildPath
  <2>a. t[i].token \in Tokens
    BY <2>5
  <2>b. Append(P[q][2], t[i].token) = Append(P[n][2], token)
    BY <2>2, <2>7
  <2>8. P[q][2] = P[n][2] /\ t[i].token = token
    BY <2>1, <2>6, <2>a, <2>b, AppendInjective, SMT
  <2>c. P[q][1] = P[n][1]
    BY <2>2, <2>7
  <2>d. P[q] = <<P[q][1], P[q][2]>> /\ P[n] = <<P[n][1], P[n][2]>>
    BY <2>6
  <2>9. P[q] = P[n]
    BY <2>8, <2>c, <2>d, Zenon
  <2> QED
    BY <1>1, <2>4, <2>8, <2>9 DEF Apart, q
<1> QED
  BY <1>3, <1>4

-----------------------------------------------------------------------------
(* The lookup cache                                                        *)

CacheEntry == [parent : Nat, token : Tokens, node : Nat, covered : BOOLEAN]
SameKey(d, e) == d.parent = e.parent /\ d.token = e.token

Coherent(e, t) ==
  /\ e.node \in 1 .. Len(t) /\ e.parent \in 1 .. Len(t)
  /\ t[e.node].covered = e.covered
  /\ t[e.node].parent = e.parent /\ t[e.node].token = e.token

(* The cache is a copy of rows of the table, one entry per key.            *)
CacheOf(s, t) ==
  /\ s \in Seq(CacheEntry) /\ Len(s) <= CacheLimit
  /\ \A i \in 1 .. Len(s) : Coherent(s[i], t)
  /\ \A i, j \in 1 .. Len(s) : SameKey(s[i], s[j]) => i = j

(* The entries of s, in whatever order, are entries of another key than e. *)
Without(s, e) ==
  /\ s \in Seq(CacheEntry)
  /\ \E f \in [1 .. Len(s) -> 1 .. Len(cache)] :
       /\ \A i, j \in 1 .. Len(s) : f[i] = f[j] => i = j
       /\ \A i \in 1 .. Len(s) : s[i] = cache[f[i]] /\ ~SameKey(s[i], e)

LEMMA Removed ==
  ASSUME NEW S, NEW s \in Seq(S), NEW h \in 1 .. Len(s)
  PROVE  /\ RemoveAt(s, h) \in Seq(S) /\ Len(RemoveAt(s, h)) = Len(s) - 1
         /\ \A i \in 1 .. Len(s) - 1 :
              RemoveAt(s, h)[i] = s[IF i < h THEN i ELSE i + 1]
<1>1. Len(s) \in Nat
  BY LenProperties
<1> DEFINE a == SubSeq(s, 1, h - 1)
           b == SubSeq(s, h + 1, Len(s))
<1>2. /\ a \in Seq(S) /\ Len(a) = h - 1 /\ \A i \in 1 .. h - 1 : a[i] = s[i]
  <2>1. \A i \in 1 .. h - 1 : s[i] \in S
    BY <1>1, ElementOfSeq
  <2>2. 1 \in Int /\ h - 1 \in Int
    BY <1>1
  <2>3. /\ a \in Seq(S) /\ Len(a) = IF 1 <= h - 1 THEN h - 1 - 1 + 1 ELSE 0
        /\ \A i \in 1 .. h - 1 - 1 + 1 : a[i] = s[1 + i - 1]
    BY <2>1, <2>2, SubSeqProperties
  <2> HIDE DEF a
  <2> QED
    BY <1>1, <2>3
<1>3. /\ b \in Seq(S) /\ Len(b) = Len(s) - h /\ \A i \in 1 .. Len(s) - h : b[i] = s[h + i]
  <2>1. \A i \in h + 1 .. Len(s) : s[i] \in S
    BY <1>1, ElementOfSeq
  <2>2. h + 1 \in Int /\ Len(s) \in Int
    BY <1>1
  <2>3. /\ b \in Seq(S) /\ Len(b) = IF h + 1 <= Len(s) THEN Len(s) - (h + 1) + 1 ELSE 0
        /\ \A i \in 1 .. Len(s) - (h + 1) + 1 : b[i] = s[h + 1 + i - 1]
    BY <2>1, <2>2, SubSeqProperties
  <2> HIDE DEF b
  <2> QED
    BY <1>1, <2>3
<1> HIDE DEF a, b
<1>4. /\ a \o b \in Seq(S) /\ Len(a \o b) = Len(a) + Len(b)
      /\ \A i \in 1 .. Len(a) + Len(b) :
           (a \o b)[i] = IF i <= Len(a) THEN a[i] ELSE b[i - Len(a)]
  BY <1>2, <1>3, ConcatProperties
<1>5. RemoveAt(s, h) = a \o b
  BY DEF RemoveAt, a, b
<1>6. ASSUME NEW i \in 1 .. Len(s) - 1
      PROVE  (a \o b)[i] = s[IF i < h THEN i ELSE i + 1]
  <2>0. i \in 1 .. Len(a) + Len(b)
    BY <1>1, <1>2, <1>3
  <2>1. CASE i < h
    <3>1. i <= Len(a) /\ i \in 1 .. h - 1
      BY <1>1, <1>2, <2>1
    <3> QED
      BY <1>2, <1>4, <2>0, <2>1, <3>1
  <2>2. CASE ~(i < h)
    <3>1. ~(i <= Len(a)) /\ i - Len(a) \in 1 .. Len(s) - h /\ h + (i - Len(a)) = i + 1
      BY <1>1, <1>2, <2>2
    <3>2. (a \o b)[i] = b[i - Len(a)]
      BY <1>4, <2>0, <3>1
    <3>3. b[i - Len(a)] = s[h + (i - Len(a))]
      BY <1>3, <3>1
    <3> QED
      BY <2>2, <3>1, <3>2, <3>3
  <2> QED
    BY <2>1, <2>2
<1>7. Len(a \o b) = Len(s) - 1
  BY <1>1, <1>2, <1>3, <1>4
<1> QED
  BY <1>4, <1>5, <1>6, <1>7, Zenon

(* Every entry of another key is kept, whatever was there under this one.  *)
LEMMA OthersKept ==
  ASSUME NEW t, CacheOf(cache, t), NEW e \in CacheEntry
  PROVE  Without(Others(e), e) /\ Len(Others(e)) <= CacheLimit
<1>1. /\ cache \in Seq(CacheEntry) /\ Len(cache) <= CacheLimit
      /\ Len(cache) \in Nat /\ CacheLimit \in Nat
      /\ \A i, j \in 1 .. Len(cache) : SameKey(cache[i], cache[j]) => i = j
      /\ DOMAIN cache = 1 .. Len(cache)
  BY LenProperties, DiskAssumption DEF CacheOf
<1> DEFINE hit == Cached(e.parent, e.token)
<1>2. \A i \in 1 .. Len(cache) : i \in hit <=> SameKey(cache[i], e)
  BY <1>1 DEF Cached, SameKey
<1>3. hit \subseteq 1 .. Len(cache)
  BY <1>1 DEF Cached
<1>4. Others(e) = IF hit = {} THEN cache ELSE RemoveAt(cache, CHOOSE i \in hit : TRUE)
  BY DEF Others
<1> HIDE DEF hit
<1>5. CASE hit = {}
  <2> DEFINE f == [i \in 1 .. Len(cache) |-> i]
  <2>1. /\ f \in [1 .. Len(cache) -> 1 .. Len(cache)]
        /\ \A i, j \in 1 .. Len(cache) : f[i] = f[j] => i = j
        /\ \A i \in 1 .. Len(cache) : cache[i] = cache[f[i]] /\ ~SameKey(cache[i], e)
    BY <1>2, <1>5
  <2> HIDE DEF f
  <2>2. Without(cache, e)
    BY <1>1, <2>1 DEF Without
  <2> QED
    BY <1>1, <1>4, <1>5, <2>2
<1>6. CASE hit # {}
  <2> DEFINE h == CHOOSE i \in hit : TRUE
             s == RemoveAt(cache, h)
             f == [i \in 1 .. Len(cache) - 1 |-> IF i < h THEN i ELSE i + 1]
  <2>1. h \in hit /\ h \in 1 .. Len(cache)
    BY <1>3, <1>6
  <2>2. Others(e) = s
    BY <1>4, <1>6
  <2> HIDE DEF h
  <2>3. /\ s \in Seq(CacheEntry) /\ Len(s) = Len(cache) - 1
        /\ \A i \in 1 .. Len(cache) - 1 : s[i] = cache[IF i < h THEN i ELSE i + 1]
    BY <1>1, <2>1, Removed
  <2> HIDE DEF s
  <2>4. /\ f \in [1 .. Len(cache) - 1 -> 1 .. Len(cache)]
        /\ \A i, j \in 1 .. Len(cache) - 1 : f[i] = f[j] => i = j
        /\ \A i \in 1 .. Len(cache) - 1 : f[i] # h /\ f[i] = IF i < h THEN i ELSE i + 1
    BY <1>1, <2>1
  <2> HIDE DEF f
  <2>5. ASSUME NEW i \in 1 .. Len(cache) - 1
        PROVE  s[i] = cache[f[i]] /\ ~SameKey(s[i], e)
    <3>1. s[i] = cache[f[i]] /\ f[i] \in 1 .. Len(cache) /\ f[i] # h
      BY <2>3, <2>4
    <3>2. SameKey(cache[h], e) /\ ~SameKey(cache[f[i]], cache[h])
      BY <1>1, <1>2, <2>1, <3>1
    <3> QED
      BY <3>1, <3>2 DEF SameKey
  <2>6. Without(s, e)
    BY <2>3, <2>4, <2>5 DEF Without
  <2>7. Len(s) <= CacheLimit
    BY <1>1, <2>3
  <2> QED
    BY <2>2, <2>6, <2>7
<1> QED
  BY <1>5, <1>6

(* Dropping the oldest entry.                                              *)
LEMMA OldestDropped ==
  ASSUME NEW e, NEW s, Without(s, e), s # <<>>
  PROVE  Without(Tail(s), e) /\ Len(Tail(s)) = Len(s) - 1
<1>1. s \in Seq(CacheEntry) /\ Len(s) \in Nat \ {0}
  BY EmptySeq, LenProperties DEF Without
<1>2. PICK f \in [1 .. Len(s) -> 1 .. Len(cache)] :
        /\ \A i, j \in 1 .. Len(s) : f[i] = f[j] => i = j
        /\ \A i \in 1 .. Len(s) : s[i] = cache[f[i]] /\ ~SameKey(s[i], e)
  BY DEF Without
<1>3. /\ Tail(s) \in Seq(CacheEntry) /\ Len(Tail(s)) = Len(s) - 1
      /\ \A i \in 1 .. Len(s) - 1 : Tail(s)[i] = s[i + 1]
  BY <1>1, HeadTailProperties
<1> DEFINE g == [i \in 1 .. Len(s) - 1 |-> f[i + 1]]
<1>4. \A i \in 1 .. Len(s) - 1 : i + 1 \in 1 .. Len(s)
  BY <1>1
<1>5. /\ g \in [1 .. Len(s) - 1 -> 1 .. Len(cache)]
      /\ \A i \in 1 .. Len(s) - 1 : g[i] = f[i + 1]
  BY <1>4
<1> HIDE DEF g
<1>6. \A i, j \in 1 .. Len(s) - 1 : g[i] = g[j] => i = j
  <2> SUFFICES ASSUME NEW i \in 1 .. Len(s) - 1, NEW j \in 1 .. Len(s) - 1, g[i] = g[j]
               PROVE  i = j
    OBVIOUS
  <2>1. i + 1 = j + 1
    BY <1>2, <1>4, <1>5
  <2> QED
    BY <2>1
<1>7. \A i \in 1 .. Len(s) - 1 : Tail(s)[i] = cache[g[i]] /\ ~SameKey(Tail(s)[i], e)
  BY <1>2, <1>3, <1>4, <1>5
<1> QED
  BY <1>3, <1>5, <1>6, <1>7 DEF Without

(* An entry appended to entries of other keys.                             *)
LEMMA EntryAppended ==
  ASSUME NEW t, CacheOf(cache, t), NEW t2, NEW e \in CacheEntry, Coherent(e, t2),
         \A i \in 1 .. Len(cache) : ~SameKey(cache[i], e) => Coherent(cache[i], t2),
         NEW s, Without(s, e), Len(s) < CacheLimit
  PROVE  CacheOf(Append(s, e), t2)
<1>1. s \in Seq(CacheEntry) /\ Len(s) \in Nat /\ CacheLimit \in Nat
  BY LenProperties, DiskAssumption DEF Without
<1>2. PICK f \in [1 .. Len(s) -> 1 .. Len(cache)] :
        /\ \A i, j \in 1 .. Len(s) : f[i] = f[j] => i = j
        /\ \A i \in 1 .. Len(s) : s[i] = cache[f[i]] /\ ~SameKey(s[i], e)
  BY DEF Without
<1>3. \A i, j \in 1 .. Len(cache) : SameKey(cache[i], cache[j]) => i = j
  BY DEF CacheOf
<1> DEFINE a == Append(s, e)
           n == Len(s) + 1
<1>4. /\ a \in Seq(CacheEntry) /\ Len(a) = n /\ a[n] = e
      /\ \A i \in 1 .. Len(s) : a[i] = s[i]
  BY <1>1, AppendProperties
<1>5. n <= CacheLimit /\ \A i \in 1 .. n : i \in 1 .. Len(s) \/ i = n
  BY <1>1
<1> HIDE DEF a, n
<1>6. \A i \in 1 .. Len(s) : f[i] \in 1 .. Len(cache)
  BY <1>2
<1>7. \A i \in 1 .. n : Coherent(a[i], t2)
  BY <1>2, <1>4, <1>5, <1>6
<1>8. ASSUME NEW i \in 1 .. n, NEW j \in 1 .. n, SameKey(a[i], a[j]) PROVE i = j
  <2>1. CASE i \in 1 .. Len(s) /\ j \in 1 .. Len(s)
    <3>1. SameKey(cache[f[i]], cache[f[j]])
      BY <1>2, <1>4, <1>8, <2>1
    <3> QED
      BY <1>2, <1>3, <1>6, <2>1, <3>1
  <2>2. CASE i = n /\ j \in 1 .. Len(s)
    BY <1>2, <1>4, <1>8, <2>2 DEF SameKey
  <2>3. CASE i \in 1 .. Len(s) /\ j = n
    BY <1>2, <1>4, <1>8, <2>3 DEF SameKey
  <2>4. CASE i = n /\ j = n
    BY <2>4
  <2> QED
    BY <1>5, <2>1, <2>2, <2>3, <2>4
<1>9. CacheOf(a, t2)
  BY <1>4, <1>5, <1>7, <1>8 DEF CacheOf
<1> QED
  BY <1>9 DEF a

(* Put keeps the cache a copy of the table, when the entries of other keys *)
(* still agree with the table it is a copy of afterwards.                  *)
LEMMA PutKeepsCopy ==
  ASSUME NEW t, CacheOf(cache, t), NEW t2, NEW e \in CacheEntry, Coherent(e, t2),
         \A i \in 1 .. Len(cache) : ~SameKey(cache[i], e) => Coherent(cache[i], t2)
  PROVE  CacheOf(Put(e), t2)
<1> DEFINE o == Others(e)
           kept == IF Len(o) < CacheLimit THEN o ELSE Tail(o)
<1>1. Without(o, e) /\ Len(o) <= CacheLimit
  BY OthersKept
<1>2. Len(o) \in Nat /\ CacheLimit \in Nat /\ (o = <<>> <=> Len(o) = 0)
  BY <1>1, LenProperties, EmptySeq, DiskAssumption DEF Without
<1>3. Put(e) = IF CacheLimit = 0 THEN <<>> ELSE Append(kept, e)
  BY DEF Put
<1>4. CASE CacheLimit = 0
  <2>1. <<>> \in Seq(CacheEntry) /\ Len(<<>>) = 0 /\ 1 .. 0 = {}
    BY EmptySeq
  <2>2. CacheOf(<<>>, t2)
    BY <1>2, <2>1 DEF CacheOf
  <2> QED
    BY <1>3, <1>4, <2>2
<1>5. CASE CacheLimit # 0
  <2>1. CASE Len(o) < CacheLimit
    <3>1. CacheOf(Append(o, e), t2)
      BY <1>1, <2>1, EntryAppended
    <3> QED
      BY <1>3, <1>5, <2>1, <3>1
  <2>2. CASE ~(Len(o) < CacheLimit)
    <3> HIDE DEF o
    <3>1. o # <<>> /\ Len(o) - 1 < CacheLimit
      BY <1>1, <1>2, <1>5, <2>2
    <3>2. Without(Tail(o), e) /\ Len(Tail(o)) < CacheLimit
      BY <1>1, <3>1, OldestDropped
    <3>3. CacheOf(Append(Tail(o), e), t2)
      BY <3>2, EntryAppended
    <3> QED
      BY <1>3, <1>5, <2>2, <3>3
  <2> QED
    BY <2>1, <2>2
<1> QED
  BY <1>4, <1>5

-----------------------------------------------------------------------------
(* The rows of the snapshots table and the walk of a capture               *)

RowRecord == [capture : Captures, endpoint : Nat, prefixEnd : Nat \cup {Null}]

(* A row points at the ends of its capture's transcript and of its history. *)
RowKept(r, P, n) ==
  /\ r.endpoint \in 1 .. n /\ P[r.endpoint] = End(r.capture)
  /\ Nonempty(r.capture) =>
       r.prefixEnd \in 1 .. n /\ P[r.prefixEnd] = Node(r.capture, PrefixDepth(r.capture))
  /\ ~Nonempty(r.capture) => r.prefixEnd = Null

RowsKept(rs, P, n) ==
  /\ rs \in Seq(RowRecord) /\ Len(rs) <= MaxInputs
  /\ \A i \in 1 .. Len(rs) : RowKept(rs[i], P, n)
  /\ \A i, j \in 1 .. Len(rs) : rs[i].capture = rs[j].capture => i = j

RowOf(c, here, end) == [capture |-> c, endpoint |-> here, prefixEnd |-> end]

CapturesOf(rs) == {rs[i].capture : i \in 1 .. Len(rs)}

(* Where a capture is after d of its messages.                             *)
Walking(c, d, here, end, P, n) ==
  /\ d \in 0 .. Len(Full(c))
  /\ here \in 1 .. n /\ P[here] = Node(c, d)
  /\ Nonempty(c) /\ PrefixDepth(c) <= d =>
       end \in 1 .. n /\ P[end] = Node(c, PrefixDepth(c))
  /\ ~(Nonempty(c) /\ PrefixDepth(c) <= d) => end = Null

(* The part of its history that it has walked.                             *)
Partial(c, d) == IF Nonempty(c) THEN {Node(c, n) : n \in {m \in 0 .. PrefixDepth(c) : m <= d}}
                 ELSE {}

(* A table with at least the rows of before, at the same paths.            *)
Grows(P, n, Q, n2) == /\ n \in Nat /\ n2 \in Nat /\ n <= n2
                      /\ \A i \in 1 .. n : i \in 1 .. n2 /\ Q[i] = P[i]

LEMMA RowsStay ==
  ASSUME NEW rs, NEW P, NEW n, RowsKept(rs, P, n), NEW Q, NEW n2, Grows(P, n, Q, n2)
  PROVE  RowsKept(rs, Q, n2)
<1>1. ASSUME NEW i \in 1 .. Len(rs) PROVE RowKept(rs[i], Q, n2)
  <2>1. RowKept(rs[i], P, n)
    BY DEF RowsKept
  <2>2. \A k \in 1 .. n : k \in 1 .. n2 /\ Q[k] = P[k]
    BY DEF Grows
  <2> QED
    BY <2>1, <2>2 DEF RowKept
<1> QED
  BY <1>1 DEF RowsKept

Walked(rs, c, here, end, P, n) ==
  /\ RowsKept(rs, P, n) /\ Len(rs) < MaxInputs /\ n \in Nat
  /\ c \in Captures /\ c \notin CapturesOf(rs)
  /\ Walking(c, Len(Full(c)), here, end, P, n)

Appended(rs, rs2, c, here, end) == rs2 = Append(rs, RowOf(c, here, end))

LEMMA RowAppended ==
  ASSUME NEW rs, NEW P, NEW n, NEW c, NEW here, NEW end, Walked(rs, c, here, end, P, n),
         NEW rs2, Appended(rs, rs2, c, here, end)
  PROVE  RowsKept(rs2, P, n) /\ CapturesOf(rs2) = CapturesOf(rs) \cup {c}
<1> DEFINE r == RowOf(c, here, end)
           m == Len(rs) + 1
<1>0. /\ RowsKept(rs, P, n) /\ Len(rs) < MaxInputs /\ n \in Nat
      /\ c \in Captures /\ c \notin CapturesOf(rs)
      /\ Walking(c, Len(Full(c)), here, end, P, n)
  BY DEF Walked
<1>1. rs \in Seq(RowRecord) /\ Len(rs) \in Nat /\ MaxInputs \in Nat
  BY <1>0, LenProperties, DiskAssumption DEF RowsKept
<1>2. /\ PrefixDepth(c) \in Int /\ PrefixDepth(c) < Len(Full(c)) /\ Len(Full(c)) \in Nat
  BY <1>0, Lengths
<1>3. here \in 1 .. n /\ P[here] = End(c)
  BY <1>0 DEF Walking, End
<1>4. /\ Nonempty(c) => end \in 1 .. n /\ P[end] = Node(c, PrefixDepth(c))
      /\ ~Nonempty(c) => end = Null
  <2>1. PrefixDepth(c) <= Len(Full(c))
    BY <1>0, <1>2
  <2> QED
    BY <1>0, <2>1 DEF Walking
<1>5. r.capture = c /\ r.endpoint = here /\ r.prefixEnd = end
  BY <1>0 DEF RowOf
<1>6. r \in RowRecord
  <2>1. here \in Nat /\ end \in Nat \cup {Null}
    BY <1>0, <1>3, <1>4
  <2> QED
    BY <1>0, <2>1 DEF RowRecord, RowOf
<1>7. rs2 = Append(rs, r)
  BY DEF Appended
<1> HIDE DEF r
<1>8. /\ rs2 \in Seq(RowRecord) /\ Len(rs2) = m /\ rs2[m] = r
      /\ \A i \in 1 .. Len(rs) : rs2[i] = rs[i]
  BY <1>0, <1>1, <1>6, <1>7, AppendProperties
<1>9. /\ m <= MaxInputs /\ m \in 1 .. m
      /\ \A i \in 1 .. Len(rs) : i \in 1 .. m
      /\ \A i \in 1 .. m : i \in 1 .. Len(rs) \/ i = m
  BY <1>0, <1>1
<1> HIDE DEF m
<1>10. RowKept(r, P, n)
  BY <1>0, <1>3, <1>4, <1>5 DEF RowKept
<1>11. \A i \in 1 .. m : RowKept(rs2[i], P, n)
  BY <1>0, <1>8, <1>9, <1>10 DEF RowsKept
<1>12. \A i \in 1 .. Len(rs) : rs2[i].capture # c
  BY <1>0, <1>8 DEF CapturesOf
<1>13. ASSUME NEW i \in 1 .. m, NEW j \in 1 .. m, rs2[i].capture = rs2[j].capture
       PROVE  i = j
  <2>1. CASE i \in 1 .. Len(rs) /\ j \in 1 .. Len(rs)
    BY <1>0, <1>8, <1>13, <2>1 DEF RowsKept
  <2>2. CASE i \in 1 .. Len(rs) /\ j = m
    BY <1>0, <1>5, <1>8, <1>12, <1>13, <2>2
  <2>3. CASE i = m /\ j \in 1 .. Len(rs)
    BY <1>0, <1>5, <1>8, <1>12, <1>13, <2>3
  <2>4. CASE i = m /\ j = m
    BY <1>0, <2>4
  <2> QED
    BY <1>0, <1>9, <2>1, <2>2, <2>3, <2>4
<1>14. RowsKept(rs2, P, n)
  BY <1>0, <1>8, <1>9, <1>11, <1>13 DEF RowsKept
<1>15. CapturesOf(rs2) = CapturesOf(rs) \cup {c}
  <2>1. CapturesOf(rs2) \subseteq CapturesOf(rs) \cup {c}
    BY <1>0, <1>5, <1>8, <1>9 DEF CapturesOf
  <2>2. CapturesOf(rs) \cup {c} \subseteq CapturesOf(rs2)
    BY <1>0, <1>5, <1>8, <1>9 DEF CapturesOf
  <2> QED
    BY <1>0, <2>1, <2>2
<1> QED
  BY <1>0, <1>14, <1>15

(* The walked history, message by message.                                 *)
LEMMA PartialWalk ==
  ASSUME NEW c \in Captures
  PROVE  /\ Partial(c, 0) = IF Nonempty(c) THEN {Node(c, 0)} ELSE {}
         /\ Partial(c, Len(Full(c))) = History(c)
         /\ \A d \in Nat : d < Len(Full(c)) =>
              Partial(c, d + 1) = Partial(c, d) \cup
                 (IF d + 1 <= PrefixDepth(c) THEN {Node(c, d + 1)} ELSE {})
<1>1. /\ PrefixDepth(c) \in Int /\ PrefixDepth(c) < Len(Full(c)) /\ Len(Full(c)) \in Nat
      /\ Nonempty(c) <=> Len(Full(c)) > 0
      /\ Nonempty(c) => PrefixDepth(c) \in Nat
  BY Lengths
<1>2. Partial(c, 0) = IF Nonempty(c) THEN {Node(c, 0)} ELSE {}
  <2>1. Nonempty(c) => {m \in 0 .. PrefixDepth(c) : m <= 0} = {0}
    BY <1>1
  <2> QED
    BY <2>1 DEF Partial
<1>3. Partial(c, Len(Full(c))) = History(c)
  <2>1. {m \in 0 .. PrefixDepth(c) : m <= Len(Full(c))} = 0 .. PrefixDepth(c)
    BY <1>1
  <2> QED
    BY <2>1 DEF Partial, History
<1>4. ASSUME NEW d \in Nat, d < Len(Full(c))
      PROVE  Partial(c, d + 1) = Partial(c, d) \cup
                 (IF d + 1 <= PrefixDepth(c) THEN {Node(c, d + 1)} ELSE {})
  <2>1. Nonempty(c)
    BY <1>1, <1>4
  <2>2. {m \in 0 .. PrefixDepth(c) : m <= d + 1}
          = {m \in 0 .. PrefixDepth(c) : m <= d} \cup
            (IF d + 1 <= PrefixDepth(c) THEN {d + 1} ELSE {})
    BY <1>1
  <2> QED
    BY <2>1, <2>2 DEF Partial
<1> QED
  BY <1>2, <1>3, <1>4

-----------------------------------------------------------------------------
(* One step down the trie                                                  *)

(* t2 is t after a message that leads from one row to a next one, whose bit *)
(* is now bit; C is what the histories run through.                        *)
Stepped(t, t2, roots, P, Q, C, parent, token, next, bit) ==
  /\ IsTrie(t2, roots, Q) /\ Marks(t2, Q, C)
  /\ Grows(P, Len(t), Q, Len(t2))
  /\ next \in 1 .. Len(t2) /\ Q[next] = Child(P[parent], token)
  /\ t2[next].parent = parent /\ t2[next].token = token
  /\ t2[next].covered = bit
  /\ \A j \in 1 .. Len(t) : j # next => t2[j] = t[j]

(* t2 is t with the bit of a row set, if it was not set already.           *)
Touched(t, t2, next) == t2 = IF t[next].covered THEN t ELSE SetCovered(t, next)

LEMMA KnownChildRead ==
  ASSUME NEW t, NEW roots, NEW P, IsTrie(t, roots, P), NEW C, Marks(t, P, C),
         NEW parent \in 1 .. Len(t), NEW token \in Tokens, NEW next \in 1 .. Len(t),
         P[next] = Child(P[parent], token)
  PROVE  Stepped(t, t, roots, P, P, C, parent, token, next, t[next].covered)
<1>1. t[next].parent = parent /\ t[next].token = token
  BY LookupIsPath
<1>2. Len(t) \in Nat
  <2>1. t \in Seq(Record)
    BY DEF IsTrie
  <2> QED
    BY <2>1, LenProperties
<1>3. Grows(P, Len(t), P, Len(t))
  BY <1>2 DEF Grows
<1> QED
  BY <1>1, <1>3 DEF Stepped

LEMMA KnownChildCovered ==
  ASSUME NEW t, NEW roots, NEW P, IsTrie(t, roots, P), NEW C, Marks(t, P, C),
         NEW parent \in 1 .. Len(t), NEW token \in Tokens, NEW next \in 1 .. Len(t),
         P[next] = Child(P[parent], token), NEW t2, Touched(t, t2, next)
  PROVE  Stepped(t, t2, roots, P, P, C \cup {P[next]}, parent, token, next, TRUE)
<1>1. t[next].parent = parent /\ t[next].token = token
  BY LookupIsPath
<1>a. t \in Seq(Record)
  BY DEF IsTrie
<1>b. t[next] \in Record
  BY <1>a, ElementOfSeq
<1>2. t[next].covered \in BOOLEAN /\ Len(t) \in Nat
  BY <1>a, <1>b, LenProperties DEF Record
<1>3. Grows(P, Len(t), P, Len(t))
  BY <1>2 DEF Grows
<1>4. CASE ~t[next].covered
  <2>1. t2 = SetCovered(t, next)
    BY <1>4 DEF Touched
  <2>2. IsTrie(t2, roots, P) /\ Marks(t2, P, C \cup {P[next]}) /\ BitOn(t, t2, next)
    BY <2>1, BitSet
  <2>3. /\ Len(t2) = Len(t) /\ t2[next] = [t[next] EXCEPT !.covered = TRUE]
        /\ \A j \in 1 .. Len(t) : j # next => t2[j] = t[j]
    BY <2>2 DEF BitOn
  <2>4. t2[next].parent = parent /\ t2[next].token = token /\ t2[next].covered = TRUE
    BY <1>1, <1>b, <2>3 DEF Record
  <2> QED
    BY <1>3, <2>2, <2>3, <2>4 DEF Stepped
<1>5. CASE t[next].covered
  <2>1. t2 = t
    BY <1>5 DEF Touched
  <2>2. t[next].covered = TRUE
    BY <1>2, <1>5
  <2>3. C \cup {P[next]} = C
    BY <1>5 DEF Marks
  <2> QED
    BY <1>1, <1>3, <2>1, <2>2, <2>3, Zenon DEF Stepped
<1> QED
  BY <1>4, <1>5

LEMMA NewChild ==
  ASSUME NEW t, NEW roots, NEW P, IsTrie(t, roots, P), NEW C, Marks(t, P, C),
         NEW parent \in 1 .. Len(t), NEW token \in Tokens, NEW covered \in BOOLEAN,
         Fresh(P, Len(t), Child(P[parent], token)),
         NEW t2, t2 = Append(t, [parent |-> parent, token |-> token, covered |-> covered])
  PROVE  \E Q : Stepped(t, t2, roots, P, Q,
                        IF covered THEN C \cup {Child(P[parent], token)} ELSE C,
                        parent, token, Len(t) + 1, covered)
<1> DEFINE m == [parent |-> parent, token |-> token, covered |-> covered]
           path == Child(P[parent], token)
           Q == More(t, P, path)
<1>1. t \in Seq(Record) /\ P \in [1 .. Len(t) -> Keys \X Seq(Tokens)] /\ Len(t) \in Nat
  BY LenProperties DEF IsTrie
<1>2. m \in Record /\ m.parent = parent /\ m.token = token /\ m.covered = covered
  BY <1>1 DEF Record
<1>3. path \in Keys \X Seq(Tokens)
  <2>1. P[parent][1] \in Keys /\ P[parent][2] \in Seq(Tokens)
    BY <1>1
  <2>2. Append(P[parent][2], token) \in Seq(Tokens)
    BY <2>1, AppendProperties
  <2> QED
    BY <2>1, <2>2 DEF Child
<1>4. Extended(t, m, t2, P, path, Q)
  BY DEF Extended
<1>5. path = Child(P[parent], token)
  OBVIOUS
<1> HIDE DEF m, path, Q
<1>6. Longer(t, m, t2, P, path, Q)
  BY <1>1, <1>2, <1>3, <1>4, MorePaths
<1>7. Fresh(P, Len(t), path)
  BY <1>5
<1>8. IsTrie(t2, roots, Q)
  BY <1>2, <1>4, <1>5, <1>7, ChildAdded
<1>9. Marks(t2, Q, IF covered THEN C \cup {path} ELSE C)
  <2>1. Marks(t2, Q, IF m.covered THEN C \cup {path} ELSE C)
    BY <1>2, <1>6, <1>7, MarksExtended
  <2> QED
    BY <1>2, <2>1
<1>10. /\ \A i \in 1 .. Len(t) : Q[i] = P[i] /\ t2[i] = t[i]
       /\ Q[Len(t) + 1] = path /\ t2[Len(t) + 1] = m /\ Len(t2) = Len(t) + 1
  BY <1>6 DEF Longer
<1>11. Grows(P, Len(t), Q, Len(t2)) /\ Len(t) + 1 \in 1 .. Len(t2)
  BY <1>1, <1>10 DEF Grows
<1>12. Stepped(t, t2, roots, P, Q, IF covered THEN C \cup {path} ELSE C,
               parent, token, Len(t) + 1, covered)
  BY <1>2, <1>5, <1>8, <1>9, <1>10, <1>11 DEF Stepped
<1> QED
  BY <1>5, <1>12

-----------------------------------------------------------------------------
(* The invariant of the disk-backed aggregation                            *)

(* What the transcripts so far run through: those of the rows, and the     *)
(* walked part of the one that is being added.                             *)
WalkedBy(rs, c, d) ==
  (UNION {History(e) : e \in CapturesOf(rs)}) \cup (IF c = Null THEN {} ELSE Partial(c, d))

DiskAt(P) ==
  /\ IsTrie(nodes, scopes, P)
  /\ Marks(nodes, P, WalkedBy(rows, current, depth))
  /\ RowsKept(rows, P, Len(nodes))
  /\ current # Null => Walking(current, depth, node, prefixEnd, P, Len(nodes))

Idle == current = Null /\ depth = 0 /\ node = Null /\ prefixEnd = Null

Busy == /\ current \in Captures /\ current # Null /\ current \notin CapturesOf(rows)
        /\ Len(rows) < MaxInputs /\ result = NoResult

ScopesAre(roots, rs, c) ==
  /\ roots = [k \in DOMAIN roots |-> roots[k]]
  /\ DOMAIN roots = {Compatibility(e) : e \in CapturesOf(rs) \cup ({c} \ {Null})}

Outcome == result = NoResult \/ (Idle /\ result = Aggregation(CapturesOf(rows)))

DiskInv ==
  /\ Idle \/ Busy
  /\ ScopesAre(scopes, rows, current)
  /\ Outcome
  /\ CacheOf(cache, nodes)
  /\ \E P : DiskAt(P)

LEMMA DiskStarts == Init => DiskInv
<1> SUFFICES ASSUME Init PROVE DiskInv
  OBVIOUS
<1>1. /\ nodes = <<>> /\ scopes = <<>> /\ cache = <<>> /\ rows = <<>>
      /\ Idle /\ result = NoResult
  BY DEF Init, Idle
<1>2. /\ Len(<<>>) = 0 /\ 1 .. 0 = {} /\ DOMAIN <<>> = {}
      /\ <<>> \in Seq(Record) /\ <<>> \in Seq(CacheEntry) /\ <<>> \in Seq(RowRecord)
      /\ MaxInputs \in Nat /\ CacheLimit \in Nat
  BY EmptySeq, DiskAssumption
<1>3. CapturesOf(rows) = {} /\ WalkedBy(rows, current, depth) = {}
  BY <1>1, <1>2 DEF CapturesOf, WalkedBy, Idle
<1>4. ScopesAre(scopes, rows, current)
  <2>1. DOMAIN scopes = {} /\ current = Null
    BY <1>1, <1>2 DEF Idle
  <2>2. scopes = [k \in DOMAIN scopes |-> scopes[k]]
    BY <1>1
  <2> QED
    BY <1>3, <2>1, <2>2 DEF ScopesAre
<1>5. CacheOf(cache, nodes)
  BY <1>1, <1>2 DEF CacheOf
<1>6. DiskAt(<<>>)
  <2>0. <<>> \in [1 .. 0 -> Keys \X Seq(Tokens)]
    BY <1>2
  <2>1. IsTrie(nodes, scopes, <<>>)
    BY <1>1, <1>2, <2>0 DEF IsTrie, Apart
  <2>2. Marks(nodes, <<>>, WalkedBy(rows, current, depth))
    BY <1>1, <1>2, <1>3 DEF Marks
  <2>3. RowsKept(rows, <<>>, Len(nodes))
    BY <1>1, <1>2 DEF RowsKept
  <2> QED
    BY <1>1, <2>1, <2>2, <2>3 DEF DiskAt, Idle
<1> QED
  BY <1>1, <1>4, <1>5, <1>6 DEF DiskInv, Outcome

(* The captures read are those of the rows.                                *)
LEMMA RowsAre == DiskInv => /\ Rows = CapturesOf(rows) /\ CapturesOf(rows) \subseteq Captures
                            /\ rows \in Seq(RowRecord) /\ DOMAIN rows = 1 .. Len(rows)
<1> SUFFICES ASSUME DiskInv PROVE /\ Rows = CapturesOf(rows) /\ CapturesOf(rows) \subseteq Captures
                                  /\ rows \in Seq(RowRecord) /\ DOMAIN rows = 1 .. Len(rows)
  OBVIOUS
<1>1. rows \in Seq(RowRecord)
  BY DEF DiskInv, DiskAt, RowsKept
<1>2. DOMAIN rows = 1 .. Len(rows) /\ \A i \in 1 .. Len(rows) : rows[i] \in RowRecord
  BY <1>1, LenProperties, ElementOfSeq
<1> QED
  BY <1>1, <1>2 DEF Rows, CapturesOf, RowRecord

RootOf(key, root, table, more) ==
  /\ root = IF key \in DOMAIN scopes THEN scopes[key] ELSE Len(nodes) + 1
  /\ table = IF key \in DOMAIN scopes THEN nodes
             ELSE Append(nodes, [parent |-> Null, token |-> Null, covered |-> FALSE])
  /\ more = [k \in DOMAIN scopes \cup {key} |-> IF k = key THEN root ELSE scopes[k]]

RootedAt(P, Q, key, root, table, more) ==
  /\ IsTrie(table, more, Q) /\ Marks(table, Q, WalkedBy(rows, Null, 0))
  /\ Grows(P, Len(nodes), Q, Len(table))
  /\ root \in 1 .. Len(table) /\ Q[root] = <<key, <<>>>>
  /\ \A j \in 1 .. Len(nodes) : table[j] = nodes[j]

(* Finding or creating the root of a scope.                                *)
LEMMA Rooted ==
  ASSUME NEW P, DiskAt(P), ScopesAre(scopes, rows, current), current = Null,
         NEW key \in Keys, NEW root, NEW table, NEW more, RootOf(key, root, table, more)
  PROVE  \E Q : RootedAt(P, Q, key, root, table, more)
<1>0. /\ root = IF key \in DOMAIN scopes THEN scopes[key] ELSE Len(nodes) + 1
      /\ table = IF key \in DOMAIN scopes THEN nodes
                 ELSE Append(nodes, [parent |-> Null, token |-> Null, covered |-> FALSE])
      /\ more = [k \in DOMAIN scopes \cup {key} |-> IF k = key THEN root ELSE scopes[k]]
  BY DEF RootOf
<1>1. /\ IsTrie(nodes, scopes, P) /\ Marks(nodes, P, WalkedBy(rows, Null, 0))
  BY DEF DiskAt, WalkedBy
<1>2. Len(nodes) \in Nat /\ nodes \in Seq(Record) /\ P \in [1 .. Len(nodes) -> Keys \X Seq(Tokens)]
  BY <1>1, LenProperties DEF IsTrie
<1>3. CASE key \in DOMAIN scopes
  <2>1. table = nodes /\ root = scopes[key]
    BY <1>0, <1>3
  <2>2. more = scopes
    <3>1. DOMAIN scopes \cup {key} = DOMAIN scopes
      BY <1>3
    <3>2. scopes = [k \in DOMAIN scopes |-> scopes[k]]
      BY DEF ScopesAre
    <3> QED
      BY <1>0, <1>3, <2>1, <3>1, <3>2
  <2>3. root \in 1 .. Len(nodes) /\ P[root] = <<key, <<>>>>
    BY <1>1, <1>3, <2>1 DEF IsTrie
  <2>4. Grows(P, Len(nodes), P, Len(nodes))
    BY <1>2 DEF Grows
  <2> QED
    BY <1>1, <2>1, <2>2, <2>3, <2>4 DEF RootedAt
<1>4. CASE key \notin DOMAIN scopes
  <2> DEFINE m == [parent |-> Null, token |-> Null, covered |-> FALSE]
             path == <<key, <<>>>>
             Q == More(nodes, P, path)
  <2>1. table = Append(nodes, m) /\ root = Len(nodes) + 1
    BY <1>0, <1>4
  <2>2. m \in Record /\ m.parent = Null /\ m.token = Null /\ m.covered = FALSE
    BY DEF Record
  <2>3. path \in Keys \X Seq(Tokens) /\ path[1] = key /\ path[2] = <<>>
    BY EmptySeq
  <2>4. Extended(nodes, m, table, P, path, Q)
    BY <2>1 DEF Extended
  <2>5. /\ DOMAIN more = DOMAIN scopes \cup {key} /\ more[key] = Len(nodes) + 1
        /\ \A j \in DOMAIN scopes : more[j] = scopes[j]
    BY <1>0, <1>4, <2>1
  <2>6. path = <<key, <<>>>>
    OBVIOUS
  <2> HIDE DEF m, path, Q
  <2>7. Fresh(P, Len(nodes), path)
    BY <1>1, <1>4, <2>3, RootFresh
  <2>8. IsTrie(table, more, Q)
    <3>1. key \in Keys /\ IsTrie(nodes, scopes, P)
      BY <1>1
    <3> QED
      BY ONLY <1>4, <2>2, <2>3, <2>4, <2>5, <3>1, RootAdded
  <2>9. Longer(nodes, m, table, P, path, Q)
    BY <1>2, <2>2, <2>3, <2>4, MorePaths
  <2>10. Marks(table, Q, WalkedBy(rows, Null, 0))
    <3>1. Marks(table, Q, IF m.covered THEN WalkedBy(rows, Null, 0) \cup {path}
                          ELSE WalkedBy(rows, Null, 0))
      BY <1>1, <2>2, <2>7, <2>9, MarksExtended
    <3> QED
      BY <2>2, <3>1
  <2>11. /\ \A i \in 1 .. Len(nodes) : Q[i] = P[i] /\ table[i] = nodes[i]
         /\ Q[root] = path /\ Len(table) = Len(nodes) + 1
    BY <2>1, <2>9 DEF Longer
  <2>12. Grows(P, Len(nodes), Q, Len(table)) /\ root \in 1 .. Len(table)
    BY <1>2, <2>1, <2>11 DEF Grows
  <2> QED
    BY <2>6, <2>8, <2>10, <2>11, <2>12 DEF RootedAt
<1> QED
  BY <1>3, <1>4

LEMMA BeginKeeps ==
  ASSUME DiskInv, NEW c \in Captures, Begin(c)
  PROVE  DiskInv'
<1> DEFINE key == Compatibility(c)
           root == IF key \in DOMAIN scopes THEN scopes[key] ELSE Len(nodes) + 1
           table == IF key \in DOMAIN scopes THEN nodes
                    ELSE Append(nodes, [parent |-> Null, token |-> Null, covered |-> FALSE])
           more == [k \in DOMAIN scopes \cup {key} |-> IF k = key THEN root ELSE scopes[k]]
<1>1. /\ result = NoResult /\ current = Null /\ c \notin Rows /\ Len(rows) < MaxInputs
      /\ scopes' = more
      /\ nodes' = IF Nonempty(c) THEN SetCovered(table, root) ELSE table
      /\ prefixEnd' = IF Nonempty(c) /\ PrefixDepth(c) = 0 THEN root ELSE Null
      /\ node' = root /\ current' = c /\ depth' = 0
      /\ cache' = cache /\ rows' = rows /\ result' = result
  BY DEF Begin
<1>2. /\ RootOf(key, root, table, more)
      /\ DOMAIN more = DOMAIN scopes \cup {key}
      /\ more = [k \in DOMAIN more |-> more[k]]
      /\ key = Compatibility(c) /\ key \in Keys
  BY DEF Keys, RootOf
<1> HIDE DEF key, root, table, more
<1>3. PICK P : DiskAt(P)
  BY DEF DiskInv
<1>4. /\ Rows = CapturesOf(rows) /\ c # Null
      /\ PrefixDepth(c) \in Int /\ (Nonempty(c) => PrefixDepth(c) \in Nat)
      /\ Len(Full(c)) \in Nat
  BY RowsAre, DiskAssumption, Lengths
<1>a. PICK Q : RootedAt(P, Q, key, root, table, more)
  <2>1. ScopesAre(scopes, rows, current)
    BY DEF DiskInv
  <2> QED
    BY <1>1, <1>2, <1>3, <2>1, Rooted
<1>5. /\ IsTrie(table, more, Q) /\ Marks(table, Q, WalkedBy(rows, Null, 0))
      /\ Grows(P, Len(nodes), Q, Len(table))
      /\ root \in 1 .. Len(table) /\ Q[root] = <<key, <<>>>>
      /\ \A j \in 1 .. Len(nodes) : table[j] = nodes[j]
  BY <1>a DEF RootedAt
<1>6. Q[root] = Node(c, 0)
  <2>1. SubSeq(Full(c), 1, 0) = <<>>
    BY Lengths, SubSeqEmpty
  <2> QED
    BY <1>2, <1>5, <2>1 DEF Node
<1>7. /\ IsTrie(nodes', scopes', Q) /\ Marks(nodes', Q, WalkedBy(rows, c, 0))
      /\ Len(nodes') = Len(table)
      /\ \A j \in 1 .. Len(table) : j # root => nodes'[j] = table[j]
  <2>1. WalkedBy(rows, c, 0) = WalkedBy(rows, Null, 0) \cup
                                 (IF Nonempty(c) THEN {Q[root]} ELSE {})
    <3>1. Partial(c, 0) = IF Nonempty(c) THEN {Node(c, 0)} ELSE {}
      BY PartialWalk
    <3>2. Partial(c, 0) = IF Nonempty(c) THEN {Q[root]} ELSE {}
      BY <1>6, <3>1
    <3> QED
      BY <1>4, <3>2 DEF WalkedBy
  <2>2. CASE Nonempty(c)
    <3>1. nodes' = SetCovered(table, root) /\ root \in 1 .. Len(table)
      BY <1>1, <1>5, <2>2
    <3>2. /\ IsTrie(nodes', more, Q) /\ BitOn(table, nodes', root)
          /\ Marks(nodes', Q, WalkedBy(rows, Null, 0) \cup {Q[root]})
      BY <1>5, <3>1, BitSet
    <3>3. /\ Len(nodes') = Len(table)
          /\ \A j \in 1 .. Len(table) : j # root => nodes'[j] = table[j]
      BY <3>2 DEF BitOn
    <3>4. WalkedBy(rows, c, 0) = WalkedBy(rows, Null, 0) \cup {Q[root]}
      BY <2>1, <2>2
    <3>5. Marks(nodes', Q, WalkedBy(rows, c, 0)) /\ IsTrie(nodes', scopes', Q)
      BY <1>1, <3>2, <3>4, Zenon
    <3> QED
      BY <3>3, <3>5
  <2>3. CASE ~Nonempty(c)
    <3>1. WalkedBy(rows, c, 0) = WalkedBy(rows, Null, 0)
      BY <2>1, <2>3
    <3>2. nodes' = table
      BY <1>1, <2>3
    <3> QED
      BY <1>1, <1>5, <3>1, <3>2
  <2> QED
    BY <2>2, <2>3
<1>8. RowsKept(rows, Q, Len(nodes'))
  BY <1>3, <1>5, <1>7, RowsStay DEF DiskAt
<1>9. Walking(c, 0, root, prefixEnd', Q, Len(nodes'))
  <2>1. 0 \in 0 .. Len(Full(c)) /\ root \in 1 .. Len(nodes')
    BY <1>4, <1>5, <1>7
  <2>2. CASE Nonempty(c) /\ PrefixDepth(c) <= 0
    <3>1. PrefixDepth(c) = 0
      BY <1>4, <2>2
    <3> QED
      BY <1>1, <1>6, <2>1, <2>2, <3>1 DEF Walking
  <2>3. CASE ~(Nonempty(c) /\ PrefixDepth(c) <= 0)
    <3>1. ~(Nonempty(c) /\ PrefixDepth(c) = 0)
      BY <2>3
    <3> QED
      BY <1>1, <1>6, <2>1, <2>3, <3>1 DEF Walking
  <2> QED
    BY <2>2, <2>3
<1>10. \E R : DiskAt(R)'
  <2>1. DiskAt(Q)'
    BY <1>1, <1>7, <1>8, <1>9 DEF DiskAt
  <2> QED
    BY <2>1
<1>11. ScopesAre(scopes', rows', current')
  <2>1. DOMAIN scopes = {Compatibility(e) : e \in CapturesOf(rows) \cup ({Null} \ {Null})}
    BY <1>1 DEF DiskInv, ScopesAre
  <2>2. CapturesOf(rows) \cup ({c} \ {Null}) = CapturesOf(rows) \cup {c}
    BY <1>4
  <2>3. DOMAIN scopes \cup {key} = {Compatibility(e) : e \in CapturesOf(rows) \cup {c}}
    BY <1>2, <2>1
  <2> QED
    BY <1>1, <1>2, <2>2, <2>3 DEF ScopesAre
<1>12. CacheOf(cache', nodes')
  <2>1. CacheOf(cache, nodes) /\ IsTrie(nodes, scopes, P)
    BY <1>3 DEF DiskInv, DiskAt
  <2>2. table[root].parent = Null
    <3>1. table[root].parent = Null <=> Q[root][2] = <<>>
      BY <1>5, RootsAndChildren
    <3> QED
      BY <1>5, <3>1
  <2>3. ASSUME NEW i \in 1 .. Len(cache) PROVE Coherent(cache[i], nodes')
    <3>1. Coherent(cache[i], nodes)
      BY <2>1 DEF CacheOf
    <3>2. /\ cache[i].node \in 1 .. Len(nodes) /\ cache[i].parent \in 1 .. Len(nodes)
          /\ nodes[cache[i].node].parent = cache[i].parent
      BY <3>1 DEF Coherent
    <3>3. cache[i].parent # Null
      <4>1. cache[i].parent \in Nat
        BY <3>2
      <4> QED
        BY <4>1, DiskAssumption
    <3>4. cache[i].node # root
      BY <1>5, <2>2, <3>2, <3>3
    <3>5. \A k \in 1 .. Len(nodes) : k \in 1 .. Len(nodes')
      BY <1>5, <1>7 DEF Grows
    <3>6. nodes'[cache[i].node] = nodes[cache[i].node]
      BY <1>5, <1>7, <3>2, <3>4, <3>5
    <3> QED
      BY <3>1, <3>2, <3>5, <3>6 DEF Coherent
  <2> QED
    BY <1>1, <2>1, <2>3 DEF CacheOf
<1>13. Busy' /\ Outcome'
  BY <1>1, <1>4 DEF Busy, Outcome
<1> QED
  BY <1>10, <1>11, <1>12, <1>13 DEF DiskInv

LEMMA InsertKeeps ==
  ASSUME DiskInv, InsertRow
  PROVE  /\ DiskInv' /\ Busy /\ CapturesOf(rows') = CapturesOf(rows) \cup {current}
         /\ Len(rows') = Len(rows) + 1
<1>1. /\ current # Null /\ depth = Len(Full(current))
      /\ rows' = Append(rows, RowOf(current, node, prefixEnd))
      /\ Idle'
      /\ nodes' = nodes /\ scopes' = scopes /\ cache' = cache /\ result' = result
  BY DEF InsertRow, Idle, RowOf
<1>2. Busy /\ current \in Captures
  BY <1>1 DEF DiskInv, Idle, Busy
<1>3. PICK P : DiskAt(P)
  BY DEF DiskInv
<1>4. IsTrie(nodes, scopes, P) /\ Len(nodes) \in Nat
  BY <1>3, LenProperties DEF DiskAt, IsTrie
<1>5. RowsKept(rows', P, Len(nodes)) /\ CapturesOf(rows') = CapturesOf(rows) \cup {current}
  <2>1. Walked(rows, current, node, prefixEnd, P, Len(nodes))
    BY <1>1, <1>2, <1>3, <1>4 DEF DiskAt, Busy, Walked
  <2> QED
    <3>1. rows' = Append(rows, RowOf(current, node, prefixEnd))
      BY <1>1
    <3> QED
      <4>1. Appended(rows, rows', current, node, prefixEnd)
        BY <3>1 DEF Appended
      <4>2. RowsKept(rows', P, Len(nodes))
        BY <2>1, <4>1, RowAppended
      <4>3. CapturesOf(rows') = CapturesOf(rows) \cup {current}
        BY <2>1, <4>1, RowAppended
      <4> QED
        BY <4>2, <4>3
<1>6. WalkedBy(rows', Null, 0) = WalkedBy(rows, current, depth)
  <2>1. Partial(current, Len(Full(current))) = History(current)
    BY <1>2, PartialWalk
  <2>2. Partial(current, depth) = History(current)
    BY <1>1, <2>1
  <2>3. UNION {History(e) : e \in CapturesOf(rows) \cup {current}}
          = (UNION {History(e) : e \in CapturesOf(rows)}) \cup History(current)
    OBVIOUS
  <2> QED
    BY <1>1, <1>5, <2>2, <2>3 DEF WalkedBy
<1>7. \E Q : DiskAt(Q)'
  <2>1. DiskAt(P)'
    BY <1>1, <1>3, <1>5, <1>6 DEF DiskAt, Idle
  <2> QED
    BY <2>1
<1>8. ScopesAre(scopes', rows', current')
  <2>1. CapturesOf(rows) \cup ({current} \ {Null}) = CapturesOf(rows') \cup ({Null} \ {Null})
    BY <1>1, <1>5
  <2> QED
    BY <1>1, <2>1 DEF DiskInv, ScopesAre, Idle
<1>9. CacheOf(cache', nodes') /\ Outcome'
  BY <1>1, <1>2 DEF DiskInv, Outcome, Busy
<1>10. Len(rows') = Len(rows) + 1
  BY <1>1, <1>2, RowsAre
<1> QED
  BY <1>1, <1>2, <1>5, <1>7, <1>8, <1>9, <1>10 DEF DiskInv

(* One message of the walk: the row it leads to is at the path of the next *)
(* node of the capture, and its bit is what the histories say.             *)
LEMMA Descends ==
  ASSUME DiskInv, NEW P, DiskAt(P), Advance
  PROVE  \E Q, next, bit :
           /\ Stepped(nodes, nodes', scopes, P, Q, WalkedBy(rows, current, depth + 1),
                      node, Full(current)[depth + 1], next, bit)
           /\ Q[next] = Node(current, depth + 1)
           /\ bit \in BOOLEAN
           /\ cache' = Put([parent |-> node, token |-> Full(current)[depth + 1],
                            node |-> next, covered |-> bit])
           /\ node' = next
           /\ prefixEnd' = IF depth + 1 = PrefixDepth(current) THEN next ELSE prefixEnd
<1> DEFINE token   == Full(current)[depth + 1]
           covered == depth + 1 <= PrefixDepth(current)
           hit     == Cached(node, token)
           found   == Lookup(node, token)
           next    == IF hit # {} THEN cache[CHOOSE i \in hit : TRUE].node
                      ELSE IF found # {} THEN CHOOSE i \in found : TRUE
                      ELSE Len(nodes) + 1
           was     == IF hit # {} THEN cache[CHOOSE i \in hit : TRUE].covered
                      ELSE IF found # {} THEN nodes[next].covered
                      ELSE covered
           table   == IF hit # {} \/ found # {} THEN nodes
                      ELSE Append(nodes, [parent |-> node, token |-> token,
                                          covered |-> covered])
           C       == WalkedBy(rows, current, depth)
           path    == Child(P[node], token)
<1>1. /\ current # Null /\ depth < Len(Full(current))
      /\ nodes' = IF covered /\ ~was THEN SetCovered(table, next) ELSE table
      /\ cache' = Put([parent |-> node, token |-> token, node |-> next,
                       covered |-> was \/ covered])
      /\ node' = next
      /\ prefixEnd' = IF depth + 1 = PrefixDepth(current) THEN next ELSE prefixEnd
  BY DEF Advance
<1>2. /\ covered \in BOOLEAN
      /\ hit # {} => next = cache[CHOOSE i \in hit : TRUE].node
                     /\ was = cache[CHOOSE i \in hit : TRUE].covered
      /\ hit = {} /\ found # {} => next = (CHOOSE i \in found : TRUE)
                                   /\ was = nodes[next].covered
      /\ hit = {} /\ found = {} => next = Len(nodes) + 1 /\ was = covered
      /\ hit # {} \/ found # {} => table = nodes
      /\ hit = {} /\ found = {} =>
           table = Append(nodes, [parent |-> node, token |-> token, covered |-> covered])
  OBVIOUS
<1>3. /\ current \in Captures /\ IsTrie(nodes, scopes, P) /\ Marks(nodes, P, C)
      /\ Walking(current, depth, node, prefixEnd, P, Len(nodes))
      /\ CacheOf(cache, nodes)
  BY <1>1 DEF DiskInv, DiskAt, Idle, Busy
<1>4. /\ depth \in 0 .. Len(Full(current)) /\ depth \in Nat
      /\ node \in 1 .. Len(nodes) /\ P[node] = Node(current, depth)
  <2>1. Len(Full(current)) \in Nat
    BY <1>3, Lengths
  <2> QED
    BY <1>3, <2>1 DEF Walking
<1>5. token \in Tokens /\ path = Node(current, depth + 1)
  <2>1. /\ Full(current)[depth + 1] \in Tokens
        /\ SubSeq(Full(current), 1, depth + 1)
             = Append(SubSeq(Full(current), 1, depth), Full(current)[depth + 1])
    BY <1>1, <1>3, <1>4, FirstMessages
  <2> QED
    BY <1>4, <2>1 DEF Child, Node
<1>6. WalkedBy(rows, current, depth + 1) = IF covered THEN C \cup {path} ELSE C
  <2>1. Partial(current, depth + 1) = Partial(current, depth) \cup
                 (IF depth + 1 <= PrefixDepth(current) THEN {Node(current, depth + 1)} ELSE {})
    BY <1>1, <1>3, <1>4, PartialWalk
  <2>2. CASE covered
    <3>1. Partial(current, depth + 1) = Partial(current, depth) \cup {path}
      BY <1>5, <2>1, <2>2
    <3> HIDE DEF path
    <3> QED
      BY <1>1, <2>2, <3>1 DEF WalkedBy
  <2>3. CASE ~covered
    <3>1. Partial(current, depth + 1) = Partial(current, depth)
      BY <2>1, <2>3
    <3> QED
      BY <1>1, <2>3, <3>1 DEF WalkedBy
  <2> QED
    BY <2>2, <2>3
<1>7. hit \subseteq 1 .. Len(cache) /\ found \subseteq 1 .. Len(nodes)
  <2>1. cache \in Seq(CacheEntry) /\ DOMAIN cache = 1 .. Len(cache)
    BY <1>3, LenProperties DEF CacheOf
  <2> QED
    BY <2>1 DEF Cached, Lookup, NodeIds
<1> HIDE DEF token, covered, hit, found, next, was, table, C, path
<1>8. ASSUME hit # {} \/ found # {}
      PROVE  /\ next \in 1 .. Len(nodes) /\ P[next] = path
             /\ was = nodes[next].covered
  <2>1. CASE hit # {}
    <3> DEFINE i == CHOOSE i \in hit : TRUE
    <3>1. i \in hit /\ i \in 1 .. Len(cache)
      BY <1>7, <2>1
    <3>2. cache[i].parent = node /\ cache[i].token = token
      BY <3>1 DEF hit, Cached
    <3>3. next = cache[i].node /\ was = cache[i].covered
      BY <1>2, <2>1
    <3> HIDE DEF i
    <3>4. Coherent(cache[i], nodes)
      BY <1>3, <3>1 DEF CacheOf
    <3>5. /\ next \in 1 .. Len(nodes) /\ nodes[next].covered = was
          /\ nodes[next].parent = node /\ nodes[next].token = token
      BY <3>2, <3>3, <3>4 DEF Coherent
    <3>6. P[next] = Child(P[node], token)
      BY <1>3, <1>4, <1>5, <3>5, LookupIsPath
    <3> QED
      BY <3>5, <3>6 DEF path
  <2>2. CASE hit = {} /\ found # {}
    <3>1. next \in found /\ was = nodes[next].covered
      BY <1>2, <2>2
    <3>2. /\ next \in 1 .. Len(nodes)
          /\ nodes[next].parent = node /\ nodes[next].token = token
      BY <1>7, <3>1 DEF found, Lookup
    <3>3. P[next] = Child(P[node], token)
      BY <1>3, <1>4, <1>5, <3>2, LookupIsPath
    <3> QED
      BY <3>1, <3>2, <3>3 DEF path
  <2> QED
    BY <1>8, <2>1, <2>2
<1>9. ASSUME hit = {}, found = {} PROVE Fresh(P, Len(nodes), path)
  <2> SUFFICES ASSUME NEW i \in 1 .. Len(nodes), P[i] = path PROVE FALSE
    BY DEF Fresh
  <2>1. nodes[i].parent = node /\ nodes[i].token = token
    <3>1. P[i] = Child(P[node], token)
      BY DEF path
    <3> QED
      BY <1>3, <1>4, <1>5, <3>1, LookupIsPath
  <2>2. token # Null
    BY <1>5, DiskAssumption
  <2>3. i \in found
    BY <2>1, <2>2 DEF found, Lookup, NodeIds
  <2> QED
    BY <1>9, <2>3
<1>10. \E Q : Stepped(nodes, nodes', scopes, P, Q, IF covered THEN C \cup {path} ELSE C,
                      node, token, next, was \/ covered)
  <2>1. CASE hit # {} \/ found # {}
    <3>1. next \in 1 .. Len(nodes) /\ P[next] = path /\ was = nodes[next].covered
      BY <1>8, <2>1
    <3>2. P[next] = Child(P[node], token)
      BY <3>1 DEF path
    <3>3. CASE covered
      <4>1. Touched(nodes, nodes', next)
        BY <1>1, <1>2, <2>1, <3>1, <3>3 DEF Touched
      <4>2. Stepped(nodes, nodes', scopes, P, P, C \cup {P[next]}, node, token, next, TRUE)
        BY <1>3, <1>4, <1>5, <3>1, <3>2, <4>1, KnownChildCovered
      <4>3. (was \/ covered) = TRUE
        BY <3>3
      <4>4. (IF covered THEN C \cup {path} ELSE C) = C \cup {P[next]}
        BY <3>1, <3>3
      <4> QED
        BY <4>2, <4>3, <4>4
    <3>4. CASE ~covered
      <4>1. nodes' = nodes
        BY <1>1, <1>2, <2>1, <3>4
      <4>2. Stepped(nodes, nodes, scopes, P, P, C, node, token, next, nodes[next].covered)
        BY <1>3, <1>4, <1>5, <3>1, <3>2, KnownChildRead
      <4>3. was \in BOOLEAN
        <5>1. nodes \in Seq(Record)
          BY <1>3 DEF IsTrie
        <5>2. nodes[next] \in Record
          BY <3>1, <5>1, ElementOfSeq
        <5> QED
          BY <3>1, <5>2 DEF Record
      <4>4. (was \/ covered) = nodes[next].covered
        BY <3>1, <3>4, <4>3
      <4>5. (IF covered THEN C \cup {path} ELSE C) = C
        BY <3>4
      <4> QED
        BY <4>1, <4>2, <4>4, <4>5
    <3> QED
      BY <3>3, <3>4
  <2>2. CASE hit = {} /\ found = {}
    <3>1. next = Len(nodes) + 1 /\ was = covered
          /\ table = Append(nodes, [parent |-> node, token |-> token, covered |-> covered])
      BY <1>2, <2>2
    <3>2. nodes' = Append(nodes, [parent |-> node, token |-> token, covered |-> covered])
      BY <1>1, <3>1
    <3>3. Fresh(P, Len(nodes), Child(P[node], token))
      BY <1>9, <2>2 DEF path
    <3>4. \E Q : Stepped(nodes, nodes', scopes, P, Q,
                        IF covered THEN C \cup {Child(P[node], token)} ELSE C,
                        node, token, Len(nodes) + 1, covered)
      BY <1>2, <1>3, <1>4, <1>5, <3>2, <3>3, NewChild
    <3>5. (was \/ covered) = covered
      BY <1>2, <3>1
    <3> QED
      BY <3>1, <3>4, <3>5 DEF path
  <2> QED
    BY <2>1, <2>2
<1>11. PICK Q : Stepped(nodes, nodes', scopes, P, Q, WalkedBy(rows, current, depth + 1),
                        node, token, next, was \/ covered)
  BY <1>6, <1>10
<1>12. Q[next] = Node(current, depth + 1)
  BY <1>5, <1>11 DEF Stepped, path
<1>13. (was \/ covered) \in BOOLEAN
  OBVIOUS
<1> QED
  <2>1. /\ Stepped(nodes, nodes', scopes, P, Q, WalkedBy(rows, current, depth + 1),
                   node, Full(current)[depth + 1], next, was \/ covered)
        /\ cache' = Put([parent |-> node, token |-> Full(current)[depth + 1],
                         node |-> next, covered |-> was \/ covered])
    BY <1>1, <1>11 DEF token
  <2> QED
    BY <1>1, <1>12, <1>13, <2>1

LEMMA AdvanceKeeps ==
  ASSUME DiskInv, Advance
  PROVE  DiskInv'
<1>1. PICK P : DiskAt(P)
  BY DEF DiskInv
<1> DEFINE token == Full(current)[depth + 1]
<1>2. PICK Q, next, bit :
         /\ Stepped(nodes, nodes', scopes, P, Q, WalkedBy(rows, current, depth + 1),
                    node, token, next, bit)
         /\ Q[next] = Node(current, depth + 1)
         /\ bit \in BOOLEAN
         /\ cache' = Put([parent |-> node, token |-> token, node |-> next, covered |-> bit])
         /\ node' = next
         /\ prefixEnd' = IF depth + 1 = PrefixDepth(current) THEN next ELSE prefixEnd
  BY <1>1, Descends
<1> DEFINE e == [parent |-> node, token |-> token, node |-> next, covered |-> bit]
<1>3. /\ current # Null /\ depth < Len(Full(current)) /\ depth' = depth + 1
      /\ scopes' = scopes /\ rows' = rows /\ current' = current /\ result' = result
  BY DEF Advance
<1>4. /\ Busy /\ current \in Captures /\ CacheOf(cache, nodes)
      /\ RowsKept(rows, P, Len(nodes))
      /\ Walking(current, depth, node, prefixEnd, P, Len(nodes))
  BY <1>1, <1>3 DEF DiskInv, DiskAt, Idle, Busy
<1>5. /\ IsTrie(nodes', scopes, Q) /\ Marks(nodes', Q, WalkedBy(rows, current, depth + 1))
      /\ Grows(P, Len(nodes), Q, Len(nodes')) /\ next \in 1 .. Len(nodes')
      /\ nodes'[next].parent = node /\ nodes'[next].token = token
      /\ nodes'[next].covered = bit
      /\ \A j \in 1 .. Len(nodes) : j # next => nodes'[j] = nodes[j]
  BY <1>2 DEF Stepped
<1>6. /\ Len(nodes) \in Nat /\ Len(nodes') \in Nat
      /\ \A k \in 1 .. Len(nodes) : k \in 1 .. Len(nodes') /\ Q[k] = P[k]
  BY <1>5 DEF Grows
<1>7. /\ Len(Full(current)) \in Nat /\ PrefixDepth(current) \in Int /\ depth \in Nat
      /\ depth + 1 \in 0 .. Len(Full(current)) /\ node \in 1 .. Len(nodes)
  <2>1. Len(Full(current)) \in Nat /\ PrefixDepth(current) \in Int
    BY <1>4, Lengths
  <2>2. depth \in 0 .. Len(Full(current)) /\ node \in 1 .. Len(nodes)
    BY <1>4 DEF Walking
  <2> QED
    BY <1>3, <2>1, <2>2
<1>8. RowsKept(rows, Q, Len(nodes'))
  BY <1>4, <1>5, RowsStay
<1>9. Walking(current, depth + 1, next, prefixEnd', Q, Len(nodes'))
  <2>1. CASE depth + 1 = PrefixDepth(current)
    <3>1. Nonempty(current) /\ prefixEnd' = next /\ PrefixDepth(current) <= depth + 1
      <4>1. Len(Full(current)) > 0
        BY <1>3, <1>7
      <4> QED
        <5>1. Nonempty(current) <=> Len(Full(current)) > 0
          BY <1>4, Lengths
        <5>2. PrefixDepth(current) <= depth + 1
          BY <1>7, <2>1
        <5>3. prefixEnd' = next
          BY <1>2, <2>1
        <5> QED
          BY <4>1, <5>1, <5>2, <5>3
    <3>2. Q[next] = Node(current, PrefixDepth(current))
      BY <1>2, <2>1
    <3> QED
      BY <1>2, <1>5, <1>7, <3>1, <3>2 DEF Walking
  <2>2. CASE depth + 1 # PrefixDepth(current)
    <3>1. /\ prefixEnd' = prefixEnd
          /\ PrefixDepth(current) <= depth + 1 <=> PrefixDepth(current) <= depth
      BY <1>2, <1>7, <2>2
    <3>2. /\ Nonempty(current) /\ PrefixDepth(current) <= depth =>
               /\ prefixEnd \in 1 .. Len(nodes)
               /\ P[prefixEnd] = Node(current, PrefixDepth(current))
          /\ ~(Nonempty(current) /\ PrefixDepth(current) <= depth) => prefixEnd = Null
      BY <1>4 DEF Walking
    <3>3. Nonempty(current) /\ PrefixDepth(current) <= depth =>
               /\ prefixEnd \in 1 .. Len(nodes')
               /\ Q[prefixEnd] = Node(current, PrefixDepth(current))
      BY <1>6, <3>2
    <3> QED
      BY <1>2, <1>5, <1>7, <3>1, <3>2, <3>3 DEF Walking
  <2> QED
    BY <2>1, <2>2
<1>10. \E R : DiskAt(R)'
  <2>1. DiskAt(Q)'
    BY <1>2, <1>3, <1>5, <1>8, <1>9 DEF DiskAt
  <2> QED
    BY <2>1
<1>11. CacheOf(cache', nodes')
  <2>0. /\ e.parent = node /\ e.token = token /\ e.node = next /\ e.covered = bit
        /\ cache' = Put(e)
    BY <1>2
  <2>1. token \in Tokens
    BY <1>3, <1>4, <1>7, FirstMessages
  <2>2. e \in CacheEntry
    BY <1>2, <1>5, <1>6, <1>7, <2>1 DEF CacheEntry
  <2> HIDE DEF e, token
  <2>3. Coherent(e, nodes')
    BY <1>5, <1>6, <1>7, <2>0 DEF Coherent
  <2>4. ASSUME NEW i \in 1 .. Len(cache), ~SameKey(cache[i], e)
        PROVE  Coherent(cache[i], nodes')
    <3>1. Coherent(cache[i], nodes)
      BY <1>4 DEF CacheOf
    <3>2. cache[i].node # next
      <4> SUFFICES ASSUME cache[i].node = next PROVE FALSE
        OBVIOUS
      <4>1. next \in 1 .. Len(nodes) /\ nodes[next].parent = cache[i].parent
            /\ nodes[next].token = cache[i].token
        BY <3>1 DEF Coherent
      <4>2. nodes[next].parent = node /\ nodes[next].token = token
        <5>1. IsTrie(nodes, scopes, P) /\ Q[next] = Child(P[node], token)
          BY <1>1, <1>2 DEF DiskAt, Stepped
        <5>2. P[next] = Child(P[node], token)
          BY <1>6, <4>1, <5>1
        <5> QED
          BY <1>7, <2>1, <4>1, <5>1, <5>2, LookupIsPath
      <4> QED
        BY <2>0, <2>4, <4>1, <4>2 DEF SameKey
    <3>3. /\ cache[i].node \in 1 .. Len(nodes) /\ cache[i].parent \in 1 .. Len(nodes)
      BY <3>1 DEF Coherent
    <3>4. nodes'[cache[i].node] = nodes[cache[i].node]
      BY <1>5, <3>2, <3>3
    <3> QED
      BY <1>6, <3>1, <3>3, <3>4 DEF Coherent
  <2>5. CacheOf(Put(e), nodes')
    BY <1>4, <2>2, <2>3, <2>4, PutKeepsCopy
  <2> QED
    BY <2>0, <2>5
<1>12. Busy' /\ Outcome' /\ ScopesAre(scopes', rows', current')
  BY <1>3, <1>4 DEF DiskInv, Busy, Outcome
<1> QED
  BY <1>10, <1>11, <1>12 DEF DiskInv

-----------------------------------------------------------------------------
(* The ancestors of a row                                                  *)

(* Induction over an interval, for a set in place of a predicate.          *)
LEMMA IntervalInduction ==
  ASSUME NEW N \in Nat, NEW S,
         0 \in S, \A n \in 0 .. N : n \in S /\ n < N => n + 1 \in S
  PROVE  \A n \in 0 .. N : n \in S
<1> DEFINE R == OpToRel(<, Nat)
           Bad == {n \in 0 .. N : n \notin S}
<1> SUFFICES ASSUME Bad # {} PROVE FALSE
  OBVIOUS
<1>1. IsWellFoundedOn(R, Nat)
  BY NatLessThanWellFounded, Zenon
<1>2. \A m, n \in Nat : m < n => <<m, n>> \in R
  BY Zenon DEF OpToRel
<1>3. Bad \subseteq Nat
  OBVIOUS
<1> HIDE DEF R
<1>4. \E n \in Bad : \A m \in Bad : ~ (<<m, n>> \in R)
  <2> HIDE DEF Bad
  <2> QED
    BY <1>1, <1>3, WFMin
<1>5. PICK n \in Bad : \A m \in Bad : ~ (<<m, n>> \in R)
  BY <1>4
<1>6. n # 0
  OBVIOUS
<1>7. n - 1 \in 0 .. N /\ n - 1 < n
  BY <1>6
<1>8. n - 1 \in S
  BY <1>2, <1>3, <1>5, <1>7
<1> QED
  BY <1>7, <1>8

(* The path p leads to q or further.                                       *)
Above(p, q) == /\ p[1] = q[1] /\ Len(p[2]) <= Len(q[2])
               /\ p[2] = SubSeq(q[2], 1, Len(p[2]))

LEMMA AboveRoot ==
  ASSUME NEW p \in Keys \X Seq(Tokens), NEW q \in Keys \X Seq(Tokens), q[2] = <<>>
  PROVE  Above(p, q) <=> p = q
<1>1. p[2] \in Seq(Tokens) /\ Len(p[2]) \in Nat /\ (p[2] = <<>> <=> Len(p[2]) = 0)
  <2>1. p[2] \in Seq(Tokens)
    OBVIOUS
  <2> QED
    BY <2>1, LenProperties, EmptySeq
<1>2. p = <<p[1], p[2]>> /\ q = <<q[1], q[2]>>
  OBVIOUS
<1>3. Len(q[2]) = 0 /\ SubSeq(q[2], 1, 0) = <<>>
  BY EmptySeq, SubSeqEmpty
<1>4. ASSUME Above(p, q) PROVE p = q
  <2>1. Len(p[2]) = 0 /\ p[1] = q[1]
    BY <1>1, <1>3, <1>4 DEF Above
  <2> QED
    BY <1>1, <1>2, <2>1
<1>5. ASSUME p = q PROVE Above(p, q)
  BY <1>3, <1>5 DEF Above
<1> QED
  BY <1>4, <1>5

(* Above a child is the child and what is above its parent.                *)
LEMMA AboveChild ==
  ASSUME NEW p \in Keys \X Seq(Tokens), NEW q \in Keys \X Seq(Tokens), NEW token \in Tokens
  PROVE  Above(p, Child(q, token)) <=> p = Child(q, token) \/ Above(p, q)
<1> DEFINE a == Append(q[2], token)
           n == Len(p[2])
           m == Len(q[2])
<1>1. p[2] \in Seq(Tokens) /\ q[2] \in Seq(Tokens)
  OBVIOUS
<1>2. n \in Nat /\ m \in Nat
  BY <1>1, LenProperties
<1>3. a \in Seq(Tokens) /\ Len(a) = m + 1
  BY <1>1, AppendProperties
<1>4. SubSeq(a, 1, m + 1) = a
  BY <1>3, SubSeqFull
<1>5. n <= m => SubSeq(a, 1, n) = SubSeq(q[2], 1, n)
  BY <1>1, <1>2
<1>6. Child(q, token)[1] = q[1] /\ Child(q, token)[2] = a
  BY ChildPath
<1>7. p = Child(q, token) <=> p[1] = q[1] /\ p[2] = a
  <2>1. p = <<p[1], p[2]>> /\ Child(q, token) = <<q[1], a>>
    BY DEF Child
  <2> QED
    BY <2>1
<1>8. Above(p, Child(q, token)) <=> p[1] = q[1] /\ n <= m + 1 /\ p[2] = SubSeq(a, 1, n)
  BY <1>3, <1>6 DEF Above
<1>9. Above(p, q) <=> p[1] = q[1] /\ n <= m /\ p[2] = SubSeq(q[2], 1, n)
  BY DEF Above
<1>10. p[2] = a => n = m + 1
  BY <1>3
<1> HIDE DEF a, n, m
<1>11. n <= m + 1 <=> n <= m \/ n = m + 1
  BY <1>2
<1>12. CASE n <= m
  <2>1. n # m + 1
    BY <1>2, <1>12
  <2> QED
    BY <1>5, <1>7, <1>8, <1>9, <1>10, <1>11, <1>12, <2>1
<1>13. CASE n = m + 1
  <2>1. ~(n <= m)
    BY <1>2, <1>13
  <2> QED
    BY <1>4, <1>7, <1>8, <1>9, <1>11, <1>13, <2>1
<1>14. CASE ~(n <= m) /\ n # m + 1
  BY <1>7, <1>8, <1>9, <1>10, <1>11, <1>14
<1> QED
  BY <1>12, <1>13, <1>14

(* The equation of the recursive query over the table t.                   *)
Climbs(up, t) ==
  up = [i \in 1 .. Len(t) |->
          {i} \cup (IF t[i].parent = Null THEN {} ELSE up[t[i].parent])]

ByPath(P, n) == [i \in 1 .. n |-> {j \in 1 .. n : Above(P[j], P[i])}]

(* The rows whose path leads to a row solve it,                            *)
LEMMA PathsClimb ==
  ASSUME NEW t, NEW roots, NEW P, IsTrie(t, roots, P)
  PROVE  Climbs(ByPath(P, Len(t)), t)
<1>1. /\ P \in [1 .. Len(t) -> Keys \X Seq(Tokens)] /\ Apart(P, Len(t))
  BY DEF IsTrie
<1> DEFINE u == ByPath(P, Len(t))
<1>2. \A i \in 1 .. Len(t) : u[i] = {j \in 1 .. Len(t) : Above(P[j], P[i])}
  BY DEF ByPath
<1>3. u = [i \in 1 .. Len(t) |-> u[i]]
  BY DEF ByPath
<1> HIDE DEF u
<1>4. ASSUME NEW i \in 1 .. Len(t)
      PROVE  u[i] = {i} \cup (IF t[i].parent = Null THEN {} ELSE u[t[i].parent])
  <2>1. \A j \in 1 .. Len(t) : P[j] = P[i] <=> j = i
    BY <1>1 DEF Apart
  <2>2. CASE t[i].parent = Null
    <3>1. P[i][2] = <<>>
      BY <2>2, RootsAndChildren
    <3>2. \A j \in 1 .. Len(t) : Above(P[j], P[i]) <=> P[j] = P[i]
      BY <1>1, <3>1, AboveRoot
    <3>3. u[i] = {i}
      BY <1>2, <2>1, <3>2
    <3> QED
      BY <2>2, <3>3
  <2>3. CASE t[i].parent # Null
    <3> DEFINE q == t[i].parent
    <3>1. ChildRow(t[i], i, P) /\ q \in 1 .. Len(t)
      BY <2>3, RootsAndChildren
    <3>2. P[i] = Child(P[q], t[i].token) /\ t[i].token \in Tokens
      BY <3>1 DEF ChildRow
    <3> HIDE DEF q
    <3>3. \A j \in 1 .. Len(t) : Above(P[j], P[i]) <=> P[j] = P[i] \/ Above(P[j], P[q])
      <4> SUFFICES ASSUME NEW j \in 1 .. Len(t)
                   PROVE  Above(P[j], P[i]) <=> P[j] = P[i] \/ Above(P[j], P[q])
        OBVIOUS
      <4>1. P[j] \in Keys \X Seq(Tokens) /\ P[q] \in Keys \X Seq(Tokens)
        BY <1>1, <3>1
      <4>2. Above(P[j], Child(P[q], t[i].token)) <=>
              P[j] = Child(P[q], t[i].token) \/ Above(P[j], P[q])
        BY <3>2, <4>1, AboveChild
      <4> QED
        BY <3>2, <4>2
    <3>4. u[i] = {i} \cup u[q]
      BY <1>2, <2>1, <3>1, <3>3
    <3> QED
      BY <2>3, <3>4 DEF q
  <2> QED
    BY <2>2, <2>3
<1>5. u = [i \in 1 .. Len(t) |->
             {i} \cup (IF t[i].parent = Null THEN {} ELSE u[t[i].parent])]
  BY <1>3, <1>4
<1> QED
  BY <1>5 DEF Climbs, u

(* and nothing else does: a parent is older than its child.                *)
LEMMA ClimbOnce ==
  ASSUME NEW t, NEW roots, NEW P, IsTrie(t, roots, P), NEW u, NEW v, Climbs(u, t), Climbs(v, t)
  PROVE  u = v
<1>1. Len(t) \in Nat
  <2>1. t \in Seq(Record)
    BY DEF IsTrie
  <2> QED
    BY <2>1, LenProperties
<1>2. /\ u = [i \in 1 .. Len(t) |-> u[i]] /\ v = [i \in 1 .. Len(t) |-> v[i]]
      /\ \A i \in 1 .. Len(t) :
           /\ u[i] = {i} \cup (IF t[i].parent = Null THEN {} ELSE u[t[i].parent])
           /\ v[i] = {i} \cup (IF t[i].parent = Null THEN {} ELSE v[t[i].parent])
  BY DEF Climbs
<1> DEFINE S == {n \in 0 .. Len(t) : \A i \in 1 .. n : u[i] = v[i]}
<1>3. 0 \in S
  BY <1>1
<1>4. ASSUME NEW n \in 0 .. Len(t), n \in S, n < Len(t) PROVE n + 1 \in S
  <2>1. n + 1 \in 1 .. Len(t) /\ n \in Nat /\ \A i \in 1 .. n : u[i] = v[i]
    BY <1>1, <1>4
  <2>2. u[n + 1] = v[n + 1]
    <3>1. CASE t[n + 1].parent = Null
      BY <1>2, <2>1, <3>1
    <3>2. CASE t[n + 1].parent # Null
      <4>1. ChildRow(t[n + 1], n + 1, P)
        BY <2>1, <3>2, RootsAndChildren
      <4>2. t[n + 1].parent \in 1 .. n
        BY <2>1, <4>1 DEF ChildRow
      <4>3. u[t[n + 1].parent] = v[t[n + 1].parent]
        BY <2>1, <4>2
      <4>4. u[n + 1] = {n + 1} \cup u[t[n + 1].parent]
        BY <1>2, <2>1, <3>2
      <4>5. v[n + 1] = {n + 1} \cup v[t[n + 1].parent]
        BY <1>2, <2>1, <3>2
      <4> QED
        BY <4>3, <4>4, <4>5, Zenon
    <3> QED
      BY <3>1, <3>2
  <2>3. \A i \in 1 .. n + 1 : i \in 1 .. n \/ i = n + 1
    BY <2>1
  <2>4. \A i \in 1 .. n + 1 : u[i] = v[i]
    BY <2>1, <2>2, <2>3
  <2> QED
    BY <2>1, <2>4
<1> HIDE DEF S
<1>5. \A n \in 0 .. Len(t) : n \in S
  BY <1>1, <1>3, <1>4, IntervalInduction
<1>6. \A i \in 1 .. Len(t) : u[i] = v[i]
  BY <1>1, <1>5 DEF S
<1> QED
  BY <1>2, <1>6

(* The recursive query returns the rows whose path leads to a row.         *)
LEMMA AncestorsByPath ==
  ASSUME NEW P, IsTrie(nodes, scopes, P)
  PROVE  \A i \in 1 .. Len(nodes) :
           Ancestors[i] = {j \in 1 .. Len(nodes) : Above(P[j], P[i])}
<1> DEFINE up == CHOOSE f : f = [i \in NodeIds |->
                    {i} \cup (IF nodes[i].parent = Null THEN {} ELSE f[nodes[i].parent])]
<1>1. Climbs(ByPath(P, Len(nodes)), nodes)
  BY PathsClimb
<1>2. up = CHOOSE f : Climbs(f, nodes)
  BY DEF Climbs, NodeIds
<1>3. Ancestors = [i \in NodeIds |-> up[i]]
  BY DEF Ancestors
<1> HIDE DEF up
<1>4. Climbs(up, nodes)
  BY <1>1, <1>2
<1>5. up = ByPath(P, Len(nodes))
  BY <1>1, <1>4, ClimbOnce
<1> QED
  BY <1>3, <1>5 DEF ByPath, NodeIds

-----------------------------------------------------------------------------
(* The result of the disk-backed aggregation                               *)

(* A transcript ends on the way to the end of a history exactly if the     *)
(* history continues it.                                                   *)
LEMMA CoversByAncestor ==
  ASSUME NEW l \in Captures, NEW c \in Captures, Nonempty(l)
  PROVE  Above(End(c), Node(l, PrefixDepth(l))) <=> Covers(l, c)
<1> DEFINE d == PrefixDepth(l)
           n == Len(Full(c))
           s == SubSeq(Full(l), 1, d)
<1>1. /\ d \in Int /\ d <= Len(l.history) /\ l.history \in Seq(Tokens)
      /\ d < Len(Full(l)) /\ Len(Full(l)) \in Nat /\ n \in Nat
      /\ Nonempty(l) => d \in Nat
      /\ Full(l) \in Seq(Tokens)
  BY Lengths
<1>2. d \in 0 .. Len(Full(l)) /\ d \in Nat /\ Len(l.history) \in Nat
  BY <1>1, LenProperties
<1>3. s \in Seq(Tokens) /\ Len(s) = d
  BY <1>2, FirstMessages
<1>4. End(c)[1] = Compatibility(c) /\ End(c)[2] = Full(c)
  BY WholeTranscript
<1>5. Node(l, d)[1] = Compatibility(l) /\ Node(l, d)[2] = s
  BY DEF Node
<1>6. Above(End(c), Node(l, d)) <=>
        Compatibility(c) = Compatibility(l) /\ n <= d /\ Full(c) = SubSeq(s, 1, n)
  BY <1>3, <1>4, <1>5 DEF Above
<1>7. n <= d => SubSeq(s, 1, n) = SubSeq(Full(l), 1, n)
  <2> SUFFICES ASSUME n <= d PROVE SubSeq(s, 1, n) = SubSeq(Full(l), 1, n)
    OBVIOUS
  <2>1. n \in 0 .. Len(Full(l)) /\ n \in Nat /\ n <= Len(s)
    BY <1>1, <1>2, <1>3
  <2>2. /\ SubSeq(Full(l), 1, n) \in Seq(Tokens) /\ Len(SubSeq(Full(l), 1, n)) = n
        /\ \A i \in 1 .. n : SubSeq(Full(l), 1, n)[i] = Full(l)[i]
    BY <2>1, FirstMessages
  <2>3. \A i \in 1 .. d : s[i] = Full(l)[i]
    BY <1>2, FirstMessages
  <2> HIDE DEF s, n, d
  <2>4. /\ SubSeq(s, 1, n) \in Seq(Tokens) /\ Len(SubSeq(s, 1, n)) = n
        /\ \A i \in 1 .. n : SubSeq(s, 1, n)[i] = s[i]
    BY <1>3, <2>1
  <2>5. \A i \in 1 .. n : i \in 1 .. d
    BY <1>2, <1>3, <2>1
  <2>6. \A i \in 1 .. n : SubSeq(s, 1, n)[i] = SubSeq(Full(l), 1, n)[i]
    BY <2>2, <2>3, <2>4, <2>5
  <2> QED
    BY <2>2, <2>4, <2>6, SeqEqual
<1>8. n <= d => SubSeq(l.history, 1, n) = SubSeq(Full(l), 1, n)
  <2> SUFFICES ASSUME n <= d PROVE SubSeq(l.history, 1, n) = SubSeq(Full(l), 1, n)
    OBVIOUS
  <2>1. n \in Nat /\ n <= Len(l.history)
    BY <1>1, <1>2
  <2> QED
    BY <2>1, HistoryIsPrefix
<1>9. Covers(l, c) <=> Compatibility(c) = Compatibility(l) /\ n <= d
                       /\ Full(c) = SubSeq(l.history, 1, n)
  BY DEF Covers
<1> QED
  BY <1>6, <1>7, <1>8, <1>9

(* A row is active exactly if no capture's history runs through its end.   *)
LEMMA ActiveLeaves ==
  ASSUME DiskInv, current = Null
  PROVE  /\ \A i \in 1 .. Len(rows) :
              i \in Active <=> rows[i].capture \in Leaves(CapturesOf(rows))
         /\ Active \subseteq 1 .. Len(rows)
<1>1. PICK P : DiskAt(P)
  BY DEF DiskInv
<1>2. /\ Marks(nodes, P, WalkedBy(rows, Null, depth)) /\ RowsKept(rows, P, Len(nodes))
  BY <1>1 DEF DiskAt
<1>3. /\ CapturesOf(rows) \subseteq Captures /\ DOMAIN rows = 1 .. Len(rows)
  BY RowsAre
<1>4. ASSUME NEW i \in 1 .. Len(rows)
      PROVE  i \in Active <=> rows[i].capture \in Leaves(CapturesOf(rows))
  <2> DEFINE c == rows[i].capture
  <2>1. rows[i].endpoint \in 1 .. Len(nodes) /\ P[rows[i].endpoint] = End(c)
    BY <1>2 DEF RowsKept, RowKept
  <2>2. nodes[rows[i].endpoint].covered <=> End(c) \in WalkedBy(rows, Null, depth)
    BY <1>2, <2>1 DEF Marks
  <2>3. c \in CapturesOf(rows) /\ c \in Captures
    BY <1>3 DEF CapturesOf
  <2>4. End(c) \in WalkedBy(rows, Null, depth) <=>
          \E d \in CapturesOf(rows) : End(c) \in History(d)
    BY DEF WalkedBy
  <2> HIDE DEF c
  <2>5. \A d \in CapturesOf(rows) : End(c) \in History(d) <=> Covers(d, c)
    BY <1>3, <2>3, CoversByNode
  <2>6. c \in Leaves(CapturesOf(rows)) <=> ~ \E d \in CapturesOf(rows) : Covers(d, c)
    BY <2>3 DEF Leaves
  <2>7. i \in Active <=> ~nodes[rows[i].endpoint].covered
    BY <1>3 DEF Active
  <2> QED
    BY <2>2, <2>4, <2>5, <2>6, <2>7 DEF c
<1> QED
  BY <1>3, <1>4 DEF Active

LEMMA ContributorsOfRow ==
  ASSUME DiskInv, NEW i \in 1 .. Len(rows)
  PROVE  RowContributors(i) = Contributors(CapturesOf(rows), rows[i].capture)
<1> DEFINE l == rows[i].capture
           pe == rows[i].prefixEnd
           S == CapturesOf(rows)
<1>1. PICK P : DiskAt(P)
  BY DEF DiskInv
<1>2. IsTrie(nodes, scopes, P) /\ RowsKept(rows, P, Len(nodes))
  BY <1>1 DEF DiskAt
<1>3. /\ S \subseteq Captures /\ DOMAIN rows = 1 .. Len(rows)
      /\ l \in S /\ l \in Captures /\ Len(nodes) \in Nat
  <2>1. nodes \in Seq(Record)
    BY <1>2 DEF IsTrie
  <2> QED
    BY <2>1, RowsAre, LenProperties DEF CapturesOf
<1>4. RowContributors(i) =
        {l} \cup (IF pe = Null THEN {}
                  ELSE {rows[j].capture : j \in {k \in 1 .. Len(rows) :
                                             rows[k].endpoint \in Ancestors[pe]}})
  BY <1>3 DEF RowContributors
<1>5. CASE ~Nonempty(l)
  <2>1. pe = Null
    BY <1>2, <1>5 DEF RowsKept, RowKept
  <2>2. \A c \in S : ~Covers(l, c)
    BY <1>5 DEF Covers
  <2> HIDE DEF l, pe, S
  <2>3. RowContributors(i) = {l}
    BY <1>4, <2>1
  <2>4. Contributors(S, l) = {l}
    BY <2>2 DEF Contributors
  <2> QED
    BY <2>3, <2>4 DEF l, S
<1>6. CASE Nonempty(l)
  <2>1. pe \in 1 .. Len(nodes) /\ P[pe] = Node(l, PrefixDepth(l))
    BY <1>2, <1>6 DEF RowsKept, RowKept
  <2>2. pe # Null
    <3>1. pe \in Nat
      BY <2>1
    <3> QED
      BY <3>1, DiskAssumption
  <2>3. Ancestors[pe] = {j \in 1 .. Len(nodes) : Above(P[j], P[pe])}
    BY <1>2, <2>1, AncestorsByPath
  <2>4. ASSUME NEW k \in 1 .. Len(rows)
        PROVE  rows[k].endpoint \in Ancestors[pe] <=> Covers(l, rows[k].capture)
    <3>1. /\ rows[k].endpoint \in 1 .. Len(nodes)
          /\ P[rows[k].endpoint] = End(rows[k].capture)
      BY <1>2 DEF RowsKept, RowKept
    <3>2. rows[k].capture \in Captures
      BY <1>3 DEF CapturesOf
    <3>3. Above(End(rows[k].capture), Node(l, PrefixDepth(l))) <=> Covers(l, rows[k].capture)
      BY <1>3, <1>6, <3>2, CoversByAncestor
    <3> HIDE DEF pe, l
    <3> QED
      BY <2>1, <2>3, <3>1, <3>3
  <2> HIDE DEF pe, l
  <2>5. {rows[j].capture : j \in {k \in 1 .. Len(rows) : rows[k].endpoint \in Ancestors[pe]}}
          = {c \in S : Covers(l, c)}
    BY <2>4 DEF CapturesOf
  <2>6. RowContributors(i) = {l} \cup {c \in S : Covers(l, c)}
    BY <1>4, <2>2, <2>5
  <2> QED
    BY <2>6 DEF Contributors, l
<1> QED
  BY <1>5, <1>6

(* Whatever their order, the cache and the digests: the result is the      *)
(* aggregation of the captures read.                                       *)
LEMMA DiskReturns ==
  ASSUME DiskInv, Finish
  PROVE  /\ result = NoResult /\ Idle
         /\ result' = Aggregation(CapturesOf(rows)) /\ CapturesOf(rows') = CapturesOf(rows)
         /\ DiskInv'
<1> DEFINE S == CapturesOf(rows)
           leafs == {rows[i].capture : i \in Active}
<1>1. /\ result = NoResult /\ current = Null /\ cache' = <<>>
      /\ result' = [leaves |-> leafs,
                    contributors |-> [c \in leafs |-> RowContributors(ActiveRow(c))],
                    intermediate |-> Rows \ leafs]
      /\ nodes' = nodes /\ scopes' = scopes /\ rows' = rows
      /\ current' = current /\ depth' = depth /\ node' = node /\ prefixEnd' = prefixEnd
  BY DEF Finish, walk
<1>2. Idle /\ Rows = S /\ S \subseteq Captures
  BY <1>1, RowsAre DEF DiskInv, Idle, Busy
<1>3. /\ \A i \in 1 .. Len(rows) : i \in Active <=> rows[i].capture \in Leaves(S)
      /\ Active \subseteq 1 .. Len(rows)
  BY <1>1, ActiveLeaves
<1>4. leafs = Leaves(S)
  <2>1. Leaves(S) \subseteq S
    BY DEF Leaves
  <2> QED
    BY <1>3, <2>1 DEF CapturesOf
<1>5. ASSUME NEW c \in Leaves(S)
      PROVE  RowContributors(ActiveRow(c)) = Contributors(S, c)
  <2>1. \E i \in Active : rows[i].capture = c
    BY <1>4, <1>5
  <2>2. ActiveRow(c) \in Active /\ rows[ActiveRow(c)].capture = c
    BY <2>1 DEF ActiveRow
  <2>3. ActiveRow(c) \in 1 .. Len(rows)
    BY <1>3, <2>2
  <2> QED
    BY <2>2, <2>3, ContributorsOfRow
<1> HIDE DEF leafs
<1>6. result' = Aggregation(S)
  <2>1. [c \in leafs |-> RowContributors(ActiveRow(c))] = [l \in Leaves(S) |-> Contributors(S, l)]
    BY <1>4, <1>5
  <2> QED
    BY <1>1, <1>2, <1>4, <2>1 DEF Aggregation
<1>7. DiskInv'
  <2>1. CacheOf(cache', nodes')
    <3>1. <<>> \in Seq(CacheEntry) /\ Len(<<>>) = 0 /\ 1 .. 0 = {} /\ CacheLimit \in Nat
      BY EmptySeq, DiskAssumption
    <3> QED
      BY <1>1, <3>1 DEF CacheOf
  <2>2. Idle' /\ Outcome'
    BY <1>1, <1>2, <1>6 DEF Idle, Outcome
  <2>3. ScopesAre(scopes', rows', current')
    BY <1>1 DEF DiskInv
  <2>4. \E R : DiskAt(R)'
    <3>1. PICK P : DiskAt(P)
      BY DEF DiskInv
    <3>2. DiskAt(P)'
      BY <1>1, <3>1 DEF DiskAt
    <3> QED
      BY <3>2
  <2> QED
    BY <2>1, <2>2, <2>3, <2>4 DEF DiskInv
<1> QED
  BY <1>1, <1>2, <1>6, <1>7

-----------------------------------------------------------------------------
(* Both aggregations                                                       *)

BothInv == /\ DiskInv /\ MemoryInv
           /\ paths = CapturesOf(rows) /\ memoryResult = result

LEMMA BothStart == BothInit => BothInv
<1> SUFFICES ASSUME BothInit PROVE BothInv
  OBVIOUS
<1>1. Init /\ Memory!Init
  BY DEF BothInit
<1>2. paths = {} /\ memoryResult = NoResult
  BY <1>1 DEF Memory!Init
<1>3. rows = <<>> /\ result = NoResult
  BY <1>1 DEF Init
<1>4. CapturesOf(<<>>) = {}
  BY EmptySeq DEF CapturesOf
<1> QED
  BY <1>1, <1>2, <1>3, <1>4, DiskStarts, MemoryStarts DEF BothInv

LEMMA BothStep == BothInv /\ [BothNext]_<<vars, memory>> => BothInv'
<1> SUFFICES ASSUME BothInv, [BothNext]_<<vars, memory>> PROVE BothInv'
  OBVIOUS
<1>1. /\ DiskInv /\ MemoryInv /\ paths = CapturesOf(rows) /\ memoryResult = result
  BY DEF BothInv
<1>2. ASSUME UNCHANGED memory
      PROVE  MemoryInv' /\ paths' = paths /\ memoryResult' = memoryResult
  <2>1. /\ paths' = paths /\ leaves' = leaves /\ extenders' = extenders
        /\ endpointLeaves' = endpointLeaves /\ endingPaths' = endingPaths
        /\ memoryResult' = memoryResult
    BY <1>2 DEF memory
  <2> QED
    BY <1>1, <2>1 DEF MemoryInv, MemoryTyped, Maximal, Postings
<1>3. CASE \E c \in Captures : Begin(c) /\ UNCHANGED memory
  <2>1. PICK c \in Captures : Begin(c) /\ UNCHANGED memory
    BY <1>3
  <2>2. DiskInv'
    BY <1>1, <2>1, BeginKeeps
  <2>3. rows' = rows /\ result' = result
    BY <2>1 DEF Begin
  <2> QED
    BY <1>1, <1>2, <2>1, <2>2, <2>3 DEF BothInv
<1>4. CASE Advance /\ UNCHANGED memory
  <2>1. DiskInv'
    BY <1>1, <1>4, AdvanceKeeps
  <2>2. rows' = rows /\ result' = result
    BY <1>4 DEF Advance
  <2> QED
    BY <1>1, <1>2, <1>4, <2>1, <2>2 DEF BothInv
<1>5. CASE InsertRow /\ Memory!Add(current)
  <2>1. DiskInv' /\ Busy /\ CapturesOf(rows') = CapturesOf(rows) \cup {current}
    BY <1>1, <1>5, InsertKeeps
  <2>2. current \in Captures /\ result' = result
    BY <1>5, <2>1 DEF Busy, InsertRow
  <2>3. MemoryInv'
    BY <1>1, <1>5, <2>2, MemoryKept
  <2>4. paths' = paths \cup {current} /\ memoryResult' = memoryResult
    BY <1>5 DEF Memory!Add
  <2> QED
    BY <1>1, <2>1, <2>2, <2>3, <2>4 DEF BothInv
<1>6. CASE Finish /\ Memory!Finish
  <2>1. /\ result' = Aggregation(CapturesOf(rows)) /\ CapturesOf(rows') = CapturesOf(rows)
        /\ DiskInv'
    BY <1>1, <1>6, DiskReturns
  <2>2. /\ memoryResult' = Aggregation(paths)
        /\ paths' = paths /\ leaves' = leaves /\ extenders' = extenders
        /\ endpointLeaves' = endpointLeaves /\ endingPaths' = endingPaths
    BY <1>1, <1>6, MemoryReturns
  <2>3. MemoryInv'
    BY <1>1, <2>2 DEF MemoryInv, MemoryTyped, Maximal, Postings
  <2> QED
    BY <1>1, <2>1, <2>2, <2>3 DEF BothInv
<1>7. CASE UNCHANGED <<vars, memory>>
  <2>1. /\ nodes' = nodes /\ scopes' = scopes /\ cache' = cache /\ rows' = rows
        /\ current' = current /\ depth' = depth /\ node' = node
        /\ prefixEnd' = prefixEnd /\ result' = result /\ UNCHANGED memory
    BY <1>7 DEF vars
  <2>2. \E R : DiskAt(R)'
    <3>1. PICK P : DiskAt(P)
      BY <1>1 DEF DiskInv
    <3>2. DiskAt(P)'
      BY <2>1, <3>1 DEF DiskAt
    <3> QED
      BY <3>2
  <2>3. DiskInv'
    BY <1>1, <2>1, <2>2 DEF DiskInv, Idle, Busy, Outcome
  <2> QED
    BY <1>1, <1>2, <2>1, <2>3 DEF BothInv
<1> QED
  BY <1>3, <1>4, <1>5, <1>6, <1>7 DEF BothNext

LEMMA BothInvariant == BothSpec => []BothInv
BY BothStart, BothStep, PTL DEF BothSpec

(* Whatever the order of the captures, the reference counts and the        *)
(* postings of the in-memory trie are exact after every one of them        *)
(* (streaming.py, streaming_prefix_leaves).                                *)
THEOREM IndexAlwaysExact == BothSpec => []IndexExact
<1>1. BothInv => IndexExact
  BY MemoryOperators DEF BothInv, MemoryInv, Postings, IndexExact, Memory!IndexExact
<1> QED
  BY <1>1, BothInvariant, PTL

(* A sequence whose elements are all in a set is a sequence over the set.  *)
LEMMA ElementsInSet ==
  ASSUME NEW S, NEW s \in Seq(S), NEW T, \A i \in 1 .. Len(s) : s[i] \in T
  PROVE  s \in Seq(T)
<1>1. /\ Len(s) \in Nat /\ DOMAIN s = 1 .. Len(s) /\ s \in [1 .. Len(s) -> S]
  BY LenProperties
<1>2. s \in [1 .. Len(s) -> T]
  BY <1>1
<1> QED
  BY <1>1, <1>2

LEMMA NodesTyped ==
  ASSUME DiskInv
  PROVE  nodes \in Seq([parent : NodeIds \cup {Null}, token : Tokens \cup {Null},
                        covered : BOOLEAN])
<1>1. PICK P : DiskAt(P)
  BY DEF DiskInv
<1>2. IsTrie(nodes, scopes, P) /\ nodes \in Seq(Record)
  BY <1>1 DEF DiskAt, IsTrie
<1>3. ASSUME NEW i \in 1 .. Len(nodes)
      PROVE  nodes[i] \in [parent : NodeIds \cup {Null}, token : Tokens \cup {Null},
                           covered : BOOLEAN]
  <2>1. nodes[i] \in Record
    BY <1>2, ElementOfSeq
  <2>2. nodes[i].parent \in NodeIds \cup {Null}
    BY <1>2, RootsAndChildren DEF NodeIds
  <2> QED
    BY <2>1, <2>2 DEF Record
<1> QED
  BY <1>2, <1>3, ElementsInSet

LEMMA CacheTyped ==
  ASSUME DiskInv
  PROVE  cache \in Seq(Entries) /\ Len(cache) <= CacheLimit
<1>1. CacheOf(cache, nodes) /\ cache \in Seq(CacheEntry) /\ Len(cache) <= CacheLimit
  BY DEF DiskInv, CacheOf
<1>2. ASSUME NEW i \in 1 .. Len(cache) PROVE cache[i] \in Entries
  <2>1. cache[i] \in CacheEntry
    BY <1>1, ElementOfSeq
  <2>2. cache[i].node \in NodeIds /\ cache[i].parent \in NodeIds
    BY <1>1 DEF CacheOf, Coherent, NodeIds
  <2> QED
    BY <2>1, <2>2 DEF CacheEntry, Entries
<1> QED
  BY <1>1, <1>2, ElementsInSet

LEMMA RowsTyped ==
  ASSUME DiskInv
  PROVE  rows \in Seq([capture : Captures, endpoint : NodeIds,
                       prefixEnd : NodeIds \cup {Null}])
<1>1. PICK P : DiskAt(P)
  BY DEF DiskInv
<1>2. RowsKept(rows, P, Len(nodes)) /\ rows \in Seq(RowRecord)
  BY <1>1 DEF DiskAt, RowsKept
<1>3. ASSUME NEW i \in 1 .. Len(rows)
      PROVE  rows[i] \in [capture : Captures, endpoint : NodeIds,
                          prefixEnd : NodeIds \cup {Null}]
  <2>1. rows[i] \in RowRecord
    BY <1>2, ElementOfSeq
  <2>2. rows[i].endpoint \in NodeIds /\ rows[i].prefixEnd \in NodeIds \cup {Null}
    BY <1>2 DEF RowsKept, RowKept, NodeIds
  <2> QED
    BY <2>1, <2>2 DEF RowRecord
<1> QED
  BY <1>2, <1>3, ElementsInSet

LEMMA DiskTyped == DiskInv => TypeOK
<1> SUFFICES ASSUME DiskInv PROVE TypeOK
  OBVIOUS
<1>1. PICK P : DiskAt(P)
  BY DEF DiskInv
<1>2. scopes \in [{Compatibility(c) : c \in Rows \cup ({current} \ {Null})} -> NodeIds]
  <2>1. Rows = CapturesOf(rows)
    BY RowsAre
  <2>2. \A k \in DOMAIN scopes : scopes[k] \in NodeIds
    BY <1>1 DEF DiskAt, IsTrie, NodeIds
  <2>3. /\ scopes = [k \in DOMAIN scopes |-> scopes[k]]
        /\ DOMAIN scopes = {Compatibility(c) : c \in CapturesOf(rows) \cup ({current} \ {Null})}
    BY DEF DiskInv, ScopesAre
  <2> QED
    BY <2>1, <2>2, <2>3
<1>3. /\ current \in Captures \cup {Null} /\ depth \in Nat
      /\ node \in NodeIds \cup {Null} /\ prefixEnd \in NodeIds \cup {Null}
  <2>1. CASE Idle
    BY <2>1 DEF Idle
  <2>2. CASE Busy
    <3>1. current \in Captures /\ current # Null
      BY <2>2 DEF Busy
    <3>2. Walking(current, depth, node, prefixEnd, P, Len(nodes))
      BY <1>1, <3>1 DEF DiskAt
    <3>3. Len(Full(current)) \in Nat
      BY <3>1, Lengths
    <3> QED
      BY <3>1, <3>2, <3>3 DEF Walking, NodeIds
  <2> QED
    BY <2>1, <2>2 DEF DiskInv
<1> QED
  BY <1>2, <1>3, NodesTyped, CacheTyped, RowsTyped DEF TypeOK

(* The bit in the cache is the bit in the table, at every cache size and   *)
(* whatever digests collide (disk_prefix.py, advance and _ByteCache).      *)
THEOREM CacheAlwaysCoherent == BothSpec => []CacheCoherent
<1>1. BothInv => CacheCoherent
  <2> SUFFICES ASSUME BothInv PROVE CacheCoherent
    OBVIOUS
  <2>1. DiskInv /\ TypeOK
    BY DiskTyped DEF BothInv
  <2>2. CacheOf(cache, nodes) /\ DOMAIN cache = 1 .. Len(cache)
    <3>1. cache \in Seq(CacheEntry)
      BY <2>1 DEF DiskInv, CacheOf
    <3> QED
      BY <2>1, <3>1, LenProperties DEF DiskInv
  <2>3. \A i \in DOMAIN cache : Coherent(cache[i], nodes)
    BY <2>2 DEF CacheOf
  <2> QED
    BY <2>1, <2>3 DEF CacheCoherent, Coherent
<1> QED
  BY <1>1, BothInvariant, PTL

(* Captures of one compatibility key that continue each other agree on     *)
(* everything that the key distinguishes.                                  *)
LEMMA SameScope ==
  ASSUME NEW c \in Captures, NEW l \in Captures, c # l,
         Compatibility(c) = Compatibility(l)
  PROVE  /\ c.compaction = l.compaction
         /\ c.session = l.session
         /\ IF l.session = Missing THEN c.user = l.user /\ ~c.masked /\ ~l.masked
                                   ELSE c.thread = l.thread
<1>1. Scope(c) = Scope(l) /\ c.compaction = l.compaction
  BY DEF Compatibility
<1>2. ASSUME NEW d
      PROVE  /\ d.session # Missing => Scope(d) = <<"session", d.session, d.thread>>
             /\ d.session = Missing /\ d.masked =>
                  Scope(d) = <<"masked-session-source", d.source>>
             /\ d.session = Missing /\ ~d.masked => Scope(d) = <<"user", d.user>>
  <2>1. d.session # Missing => Scope(d) = <<"session", d.session, d.thread>>
    BY DEF Scope
  <2>2. d.session = Missing /\ d.masked => Scope(d) = <<"masked-session-source", d.source>>
    BY DEF Scope
  <2>3. d.session = Missing /\ ~d.masked => Scope(d) = <<"user", d.user>>
    BY DEF Scope
  <2> QED
    BY <2>1, <2>2, <2>3
<1>3. \A s, t, x : /\ <<"session", s, t>>[1] = "session"
                   /\ <<"masked-session-source", x>>[1] = "masked-session-source"
                   /\ <<"user", x>>[1] = "user"
                   /\ <<"session", s, t>>[2] = s /\ <<"session", s, t>>[3] = t
                   /\ <<"masked-session-source", x>>[2] = x /\ <<"user", x>>[2] = x
  OBVIOUS
<1>4. /\ "session" # "user" /\ "session" # "masked-session-source"
      /\ "user" # "masked-session-source"
  OBVIOUS
<1> DEFINE key == Scope(c)
<1>5. CASE l.session # Missing
  <2>1. key = <<"session", l.session, l.thread>>
    BY <1>1, <1>2, <1>5
  <2>2. key[1] = "session" /\ key[2] = l.session /\ key[3] = l.thread
    BY <1>3, <2>1
  <2>3. c.session # Missing
    <3>1. c.session = Missing /\ c.masked => key[1] = "masked-session-source"
      BY <1>2, <1>3
    <3>2. c.session = Missing /\ ~c.masked => key[1] = "user"
      BY <1>2, <1>3
    <3> QED
      BY <1>4, <2>2, <3>1, <3>2
  <2>4. key = <<"session", c.session, c.thread>>
    BY <1>2, <2>3
  <2>5. key[2] = c.session /\ key[3] = c.thread
    BY <1>3, <2>4
  <2> QED
    BY <1>1, <1>5, <2>2, <2>5
<1>6. CASE l.session = Missing /\ l.masked
  <2>1. key = <<"masked-session-source", l.source>>
    BY <1>1, <1>2, <1>6
  <2>2. key[1] = "masked-session-source" /\ key[2] = l.source
    BY <1>3, <2>1
  <2>3. c.session = Missing /\ c.masked
    <3>1. c.session # Missing => key[1] = "session"
      BY <1>2, <1>3
    <3>2. c.session = Missing /\ ~c.masked => key[1] = "user"
      BY <1>2, <1>3
    <3> QED
      BY <1>4, <2>2, <3>1, <3>2
  <2>4. key[2] = c.source
    BY <1>2, <1>3, <2>3
  <2> QED
    BY <1>6, <2>2, <2>3, <2>4, DiskAssumption
<1>7. CASE l.session = Missing /\ ~l.masked
  <2>1. key = <<"user", l.user>>
    BY <1>1, <1>2, <1>7
  <2>2. key[1] = "user" /\ key[2] = l.user
    BY <1>3, <2>1
  <2>3. c.session = Missing /\ ~c.masked
    <3>1. c.session # Missing => key[1] = "session"
      BY <1>2, <1>3
    <3>2. c.session = Missing /\ c.masked => key[1] = "masked-session-source"
      BY <1>2, <1>3
    <3> QED
      BY <1>4, <2>2, <3>1, <3>2
  <2>4. key[2] = c.user
    BY <1>2, <1>3, <2>3
  <2> QED
    BY <1>1, <1>7, <2>2, <2>3, <2>4
<1> QED
  BY <1>5, <1>6, <1>7

(* Lineage never crosses a session, a thread or a user, and leaves a       *)
(* capture with a redacted session to itself (streaming.py,                *)
(* _compatibility).                                                        *)
THEOREM NeverCrossesScopes == BothSpec => []NoCrossScopeLineage
<1>1. BothInv => NoCrossScopeLineage
  <2> SUFFICES ASSUME BothInv, result # NoResult, NEW l \in result.leaves,
                      NEW c \in result.contributors[l] \ {l}
               PROVE  /\ c.compaction = l.compaction
                      /\ c.session = l.session
                      /\ IF l.session = Missing THEN c.user = l.user /\ ~c.masked /\ ~l.masked
                                                ELSE c.thread = l.thread
    BY Zenon DEF NoCrossScopeLineage
  <2> DEFINE S == CapturesOf(rows)
  <2>1. result = Aggregation(S) /\ S \subseteq Captures
    BY RowsAre DEF BothInv, DiskInv, Outcome
  <2>2. result.leaves = Leaves(S)
        /\ result.contributors = [x \in Leaves(S) |-> Contributors(S, x)]
    BY <2>1 DEF Aggregation
  <2>3. l \in Leaves(S) /\ c \in Contributors(S, l) /\ c # l
    BY <2>2
  <2>4. l \in Captures /\ c \in Captures /\ Covers(l, c)
    BY <2>1, <2>3 DEF Leaves, Contributors
  <2>5. Compatibility(c) = Compatibility(l)
    BY <2>4 DEF Covers
  <2> QED
    BY <2>3, <2>4, <2>5, SameScope
<1> QED
  BY <1>1, BothInvariant, PTL

(* Which of the two aggregations was used never shows in the result.       *)
THEOREM AlwaysSameResult == BothSpec => []SameResult
<1>1. BothInv => SameResult
  BY DEF BothInv, SameResult
<1> QED
  BY <1>1, BothInvariant, PTL

-----------------------------------------------------------------------------
(* Refinement                                                              *)

(* The module's own copies of these operators are the same.                *)
LEMMA AbstractOperators ==
  /\ \A S : Abstract!Aggregation(S) = Aggregation(S)
  /\ \A S : Abstract!Cardinality(S) = Cardinality(S)
<1>1. \A c : Abstract!Full(c) = Full(c) /\ Abstract!Compatibility(c) = Compatibility(c)
  BY DEF Abstract!Full, Full, Abstract!Compatibility, Compatibility, Abstract!Scope, Scope
<1>2. \A c : Abstract!Nonempty(c) = Nonempty(c) /\ Abstract!PrefixDepth(c) = PrefixDepth(c)
  BY <1>1 DEF Abstract!Nonempty, Nonempty, Abstract!PrefixDepth, PrefixDepth
<1>3. \A d, c : Abstract!Covers(d, c) = Covers(d, c)
  BY <1>1, <1>2 DEF Abstract!Covers, Covers
<1>4. \A S : Abstract!Leaves(S) = Leaves(S)
  BY <1>3 DEF Abstract!Leaves, Leaves
<1>5. \A S, l : Abstract!Contributors(S, l) = Contributors(S, l)
  BY <1>3 DEF Abstract!Contributors, Contributors
<1>6. \A S : Abstract!Aggregation(S) = Aggregation(S)
  BY <1>4, <1>5 DEF Abstract!Aggregation, Aggregation
<1>7. \A S : Abstract!Cardinality(S) = Cardinality(S)
  BY DEF Abstract!Cardinality, Cardinality
<1> QED
  BY <1>6, <1>7

(* One row per capture.                                                    *)
LEMMA RowsCounted ==
  ASSUME DiskInv
  PROVE  Cardinality(Rows) = Len(rows)
<1>1. /\ rows \in Seq(RowRecord) /\ Len(rows) \in Nat
      /\ \A i, j \in 1 .. Len(rows) : rows[i].capture = rows[j].capture => i = j
      /\ Rows = CapturesOf(rows)
  <2>1. rows \in Seq(RowRecord)
    BY RowsAre
  <2>2. PICK P : DiskAt(P)
    BY DEF DiskInv
  <2>3. \A i, j \in 1 .. Len(rows) : rows[i].capture = rows[j].capture => i = j
    BY <2>2 DEF DiskAt, RowsKept
  <2> QED
    BY <2>1, <2>3, RowsAre, LenProperties
<1> DEFINE f == [i \in 1 .. Len(rows) |-> rows[i].capture]
<1>2. f \in Bijection(1 .. Len(rows), Rows)
  <2>1. f \in [1 .. Len(rows) -> Rows]
    BY <1>1 DEF CapturesOf
  <2>2. \A i, j \in 1 .. Len(rows) : f[i] = f[j] => i = j
    BY <1>1
  <2>3. \A c \in Rows : \E i \in 1 .. Len(rows) : f[i] = c
    BY <1>1 DEF CapturesOf
  <2> HIDE DEF f
  <2> QED
    BY <2>1, <2>2, <2>3 DEF Bijection, Injection, IsInjective, Surjection, Range
<1>3. ExistsBijection(1 .. Len(rows), Rows)
  BY <1>2 DEF ExistsBijection
<1>4. IsFiniteSet(1 .. Len(rows)) /\ Cardinality(1 .. Len(rows)) = Len(rows)
  <2>1. 1 \in Int /\ Len(rows) \in Int
    BY <1>1
  <2>2. /\ IsFiniteSet(1 .. Len(rows))
        /\ Cardinality(1 .. Len(rows)) = IF 1 > Len(rows) THEN 0 ELSE Len(rows) - 1 + 1
    BY <2>1, FS_Interval
  <2> QED
    BY <1>1, <2>2
<1> QED
  BY <1>3, <1>4, FS_Bijection

RowsMatch == Rows = CapturesOf(rows)

LEMMA RowsNow == BothInv => RowsMatch
BY RowsAre DEF BothInv, RowsMatch

LEMMA RowsAfter == BothInv' => Rows' = CapturesOf(rows')
<1>1. BothInv' => RowsMatch'
  BY RowsNow, PTL
<1> QED
  BY <1>1 DEF RowsMatch

(* The disk-backed aggregation returns the aggregation of exactly the      *)
(* captures read, whatever their order, the cache size and the digests     *)
(* (disk_prefix.py, DiskPrefixAggregator).                                 *)
THEOREM DiskImplementsAggregation == BothSpec => ImplementsAggregation
<1>1. BothInit => Abstract!Init
  <2> SUFFICES ASSUME BothInit PROVE Abstract!Init
    OBVIOUS
  <2>1. rows = <<>> /\ result = NoResult
    BY DEF BothInit, Init
  <2>2. Rows = {}
    BY <2>1, EmptySeq DEF Rows
  <2> QED
    BY <2>1, <2>2 DEF Abstract!Init
<1>2. BothInv /\ BothInv' /\ [BothNext]_<<vars, memory>> => [Abstract!Next]_(Abstract!vars)
  <2> SUFFICES ASSUME BothInv, BothInv', [BothNext]_<<vars, memory>>
               PROVE  [Abstract!Next]_(Abstract!vars)
    OBVIOUS
  <2>1. /\ DiskInv /\ Rows = CapturesOf(rows)
    BY RowsAre DEF BothInv
  <2>2. rows' = rows => Rows' = Rows
    BY DEF Rows
  <2>3. CASE \E c \in Captures : Begin(c) /\ UNCHANGED memory
    BY <2>2, <2>3 DEF Begin, Abstract!vars
  <2>4. CASE Advance /\ UNCHANGED memory
    BY <2>2, <2>4 DEF Advance, Abstract!vars
  <2>5. CASE InsertRow /\ Memory!Add(current)
    <3>1. Busy /\ CapturesOf(rows') = CapturesOf(rows) \cup {current}
      BY <2>1, <2>5, InsertKeeps
    <3>2. Rows' = CapturesOf(rows')
      BY RowsAfter
    <3>3. Rows' = Rows \cup {current} /\ current \notin Rows /\ current \in Captures
          /\ result = NoResult /\ result' = result
      BY <2>1, <2>5, <3>1, <3>2 DEF Busy, InsertRow
    <3>4. Abstract!Cardinality(Rows) < MaxInputs
      <4>1. Abstract!Cardinality(Rows) = Len(rows)
        BY <2>1, AbstractOperators, RowsCounted
      <4>2. Len(rows) < MaxInputs
        BY <3>1 DEF Busy
      <4> QED
        BY <4>1, <4>2
    <3>5. Abstract!Aggregate(current)
      BY <3>3, <3>4 DEF Abstract!Aggregate
    <3> QED
      BY <3>3, <3>5 DEF Abstract!Next
  <2>6. CASE Finish /\ Memory!Finish
    <3>1. result = NoResult /\ result' = Aggregation(Rows)
      BY <2>1, <2>6, DiskReturns
    <3>2. Rows' = Rows
      BY <2>2, <2>6 DEF Finish
    <3>3. Abstract!Aggregation(Rows) = Aggregation(Rows)
      BY AbstractOperators
    <3>4. Abstract!Exhausted
      BY <3>1, <3>2, <3>3 DEF Abstract!Exhausted
    <3> QED
      BY <3>4 DEF Abstract!Next
  <2>7. CASE UNCHANGED <<vars, memory>>
    <3>1. rows' = rows /\ result' = result
      BY <2>7 DEF vars
    <3> QED
      BY <2>2, <3>1 DEF Abstract!vars
  <2> QED
    BY <2>3, <2>4, <2>5, <2>6, <2>7 DEF BothNext
<1> QED
  BY <1>1, <1>2, BothInvariant, PTL DEF BothSpec, ImplementsAggregation, Abstract!Spec

(* The same promise, kept by the in-memory aggregation.                    *)
InMemory == INSTANCE PrefixLeaves WITH added <- paths, result <- memoryResult

LEMMA InMemoryOperators ==
  /\ \A S : InMemory!Aggregation(S) = Aggregation(S)
  /\ \A S : InMemory!Cardinality(S) = Memory!Cardinality(S)
<1>1. \A c : InMemory!Full(c) = Full(c) /\ InMemory!Compatibility(c) = Compatibility(c)
  BY DEF InMemory!Full, Full, InMemory!Compatibility, Compatibility, InMemory!Scope, Scope
<1>2. \A c : InMemory!Nonempty(c) = Nonempty(c) /\ InMemory!PrefixDepth(c) = PrefixDepth(c)
  BY <1>1 DEF InMemory!Nonempty, Nonempty, InMemory!PrefixDepth, PrefixDepth
<1>3. \A d, c : InMemory!Covers(d, c) = Covers(d, c)
  BY <1>1, <1>2 DEF InMemory!Covers, Covers
<1>4. \A S : InMemory!Leaves(S) = Leaves(S)
  BY <1>3 DEF InMemory!Leaves, Leaves
<1>5. \A S, l : InMemory!Contributors(S, l) = Contributors(S, l)
  BY <1>3 DEF InMemory!Contributors, Contributors
<1>6. \A S : InMemory!Aggregation(S) = Aggregation(S)
  BY <1>4, <1>5 DEF InMemory!Aggregation, Aggregation
<1>7. \A S : InMemory!Cardinality(S) = Memory!Cardinality(S)
  BY DEF InMemory!Cardinality, Memory!Cardinality
<1> QED
  BY <1>6, <1>7

(* The in-memory aggregation returns the aggregation of exactly the        *)
(* captures added, whatever their order (streaming.py,                     *)
(* streaming_prefix_leaves).                                               *)
THEOREM MemoryImplementsAggregation == BothSpec => InMemory!Spec
<1>1. BothInit => InMemory!Init
  BY DEF BothInit, Memory!Init, InMemory!Init
<1>2. BothInv /\ [BothNext]_<<vars, memory>> => [InMemory!Next]_(InMemory!vars)
  <2> SUFFICES ASSUME BothInv, [BothNext]_<<vars, memory>>
               PROVE  [InMemory!Next]_(InMemory!vars)
    OBVIOUS
  <2>1. DiskInv /\ MemoryInv
    BY DEF BothInv
  <2>2. CASE UNCHANGED memory
    BY <2>2 DEF memory, InMemory!vars
  <2>3. CASE InsertRow /\ Memory!Add(current)
    <3>1. Busy
      BY <2>1, <2>3, InsertKeeps
    <3>2. /\ memoryResult = NoResult /\ memoryResult' = memoryResult
          /\ current \notin paths /\ Memory!Cardinality(paths) < MaxInputs
          /\ paths' = paths \cup {current}
      BY <2>3 DEF Memory!Add
    <3>3. InMemory!Cardinality(paths) < MaxInputs
      BY <3>2, InMemoryOperators
    <3>4. InMemory!Aggregate(current) /\ current \in Captures
      BY <3>1, <3>2, <3>3 DEF InMemory!Aggregate, Busy
    <3> QED
      BY <3>4 DEF InMemory!Next
  <2>4. CASE Finish /\ Memory!Finish
    <3>1. memoryResult = NoResult /\ memoryResult' = Aggregation(paths) /\ paths' = paths
      BY <2>1, <2>4, MemoryReturns
    <3>2. InMemory!Exhausted
      BY <3>1, InMemoryOperators DEF InMemory!Exhausted
    <3> QED
      BY <3>2 DEF InMemory!Next
  <2>5. CASE UNCHANGED <<vars, memory>>
    BY <2>2, <2>5
  <2> QED
    BY <2>2, <2>3, <2>4, <2>5 DEF BothNext
<1> QED
  BY <1>1, <1>2, BothInvariant, PTL DEF BothSpec, InMemory!Spec
=============================================================================
