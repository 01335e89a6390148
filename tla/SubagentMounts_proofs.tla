------------------------ MODULE SubagentMounts_proofs ------------------------
(***************************************************************************)
(* Proofs about the mounting of subagents, for any sets of captures,       *)
(* linkage fields, names and messages.                                     *)
(*                                                                         *)
(* Each phase fixes something that the later ones build on, and IInv says  *)
(* what: after Aggregate the leaves represent the maximal captures         *)
(* (Aggregated); after Extract the events are those of the session, and a  *)
(* call that gave none has marked every leaf that repeats it (Extracted);  *)
(* after Bind an event has a parent exactly if one leaf holds it (Bound);  *)
(* an edge leads from that leaf to a child that was not refused, whose one *)
(* candidate the event is (Grounded), so that no child has two edges       *)
(* (OneParent); after Group no call has two (OneChild); a relay passed     *)
(* every check and is recorded once per parent (Relayed); after Settle     *)
(* what is mounted is reached, what is not is explained, and an event      *)
(* without a mount marks its holder (Settled); what is published is what   *)
(* the plan says (Released).  The trees of two roots are then disjoint     *)
(* because going up from a common leaf there is one way only.              *)
(***************************************************************************)
EXTENDS SubagentMounts, FiniteSetTheorems, SequenceTheorems,
        NaturalsInduction, WellFoundedInduction, TLAPS

-----------------------------------------------------------------------------
(* Finite sets                                                             *)

(* Induction over an interval, for a set in place of a predicate.          *)
LEMMA IntervalInduction ==
  ASSUME NEW N \in Nat, NEW S,
         0 \in S, \A n \in 0..N : n \in S /\ n < N => n + 1 \in S
  PROVE  \A n \in 0..N : n \in S
<1> DEFINE R == OpToRel(<, Nat)
           Bad == {n \in 0..N : n \notin S}
<1> SUFFICES ASSUME Bad # {} PROVE FALSE
  OBVIOUS
<1>1. IsWellFoundedOn(R, Nat)
  BY NatLessThanWellFounded, Zenon
<1>2. \A m, n \in Nat : m < n => <<m, n>> \in R
  BY Zenon DEF OpToRel
<1>3. Bad \subseteq Nat
  OBVIOUS
<1> HIDE DEF R
<1>4. \E n \in Bad : \A m \in Bad : ~ (<<m, n>> \in R)
  <2> HIDE DEF Bad
  <2> QED
    BY <1>1, <1>3, WFMin
<1>5. PICK n \in Bad : \A m \in Bad : ~ (<<m, n>> \in R)
  BY <1>4
<1>6. n # 0
  OBVIOUS
<1>7. n - 1 \in 0..N /\ n - 1 < n
  BY <1>6
<1>8. n - 1 \in S
  BY <1>2, <1>3, <1>5, <1>7
<1> QED
  BY <1>7, <1>8

(* What a function makes of a finite set is finite, united or not.         *)
LEMMA FiniteImage ==
  ASSUME NEW S, IsFiniteSet(S), NEW f
  PROVE  IsFiniteSet({f[x] : x \in S})
<1> DEFINE T == {f[x] : x \in S}
           g == [x \in S |-> f[x]]
<1>1. g \in [S -> T] /\ \A t \in T : \E x \in S : g[x] = t
  OBVIOUS
<1>2. g \in Surjection(S, T)
  <2> HIDE DEF g, T
  <2> QED
    BY <1>1 DEF Surjection
<1> QED
  <2> HIDE DEF g
  <2> QED
    BY <1>2, FS_Surjection

LEMMA FiniteUnion ==
  ASSUME NEW S, IsFiniteSet(S), NEW f, \A x \in S : IsFiniteSet(f[x])
  PROVE  IsFiniteSet(UNION {f[x] : x \in S})
<1> DEFINE T == {f[x] : x \in S}
<1>1. IsFiniteSet(T)
  BY FiniteImage
<1>2. \A t \in T : IsFiniteSet(t)
  OBVIOUS
<1>3. IsFiniteSet(UNION T)
  <2> HIDE DEF T
  <2> QED
    BY <1>1, <1>2, FS_UNION
<1> QED
  BY <1>3

(* The messages of a sequence are finitely many.                           *)
LEMMA FiniteRange ==
  ASSUME NEW T, NEW s \in Seq(T)
  PROVE  IsFiniteSet(Range(s)) /\ IsFiniteSet(DOMAIN s)
<1>1. DOMAIN s = 1 .. Len(s) /\ Len(s) \in Nat
  BY LenProperties
<1>2. IsFiniteSet(DOMAIN s)
  BY <1>1, FS_Interval
<1>3. Range(s) = {s[i] : i \in DOMAIN s}
  BY DEF Range
<1> QED
  BY <1>2, <1>3, FiniteImage

(* A finite set that has not several members has at most one.              *)
LEMMA AtMostOne ==
  ASSUME NEW S, IsFiniteSet(S)
  PROVE  /\ Cardinality(S) \in Nat
         /\ ~(Cardinality(S) > 1) => \A x, y \in S : x = y
         /\ Cardinality(S) = 1 <=> \E x : S = {x}
         /\ S # {} /\ ~(Cardinality(S) > 1) => Cardinality(S) = 1
<1>1. Cardinality(S) \in Nat /\ (S # {} => Cardinality(S) # 0)
  BY FS_CardinalityType, FS_EmptySet
<1>2. Cardinality(S) = 1 <=> \E x : S = {x}
  BY FS_Singleton
<1>3. ASSUME S # {}, ~(Cardinality(S) > 1) PROVE Cardinality(S) = 1
  BY <1>1, <1>3
<1> QED
  BY <1>1, <1>2, <1>3

-----------------------------------------------------------------------------
(* Captures                                                                *)

(* What is assumed of the captures and of what they hold.                  *)
LEMMA CaptureTypes ==
  ASSUME NEW c \in Captures
  PROVE  /\ c.source \in Nat
         /\ DOMAIN c.link = LinkFields
         /\ c.agents \in Seq(Range(c.agents))
         /\ c.history \in Seq(Tokens) /\ c.response \in Seq(Tokens)
         /\ Full(c) \in Seq(Tokens) /\ Len(Full(c)) \in Nat
         /\ Len(Full(c)) = Len(c.history) + Len(c.response)
         /\ \A i \in 1 .. Len(c.response) : Full(c)[i + Len(c.history)] = c.response[i]
<1>1. /\ c.source \in Nat /\ DOMAIN c.link = LinkFields
      /\ c.agents \in Seq(Range(c.agents))
  BY MountAssumption
<1>2. c.history \in Seq(Tokens) /\ c.response \in Seq(Tokens)
  BY CaptureAssumption
<1>3. /\ Full(c) \in Seq(Tokens) /\ Len(Full(c)) \in Nat
      /\ Len(Full(c)) = Len(c.history) + Len(c.response)
  BY <1>2, ConcatProperties, LenProperties DEF Full
<1>4. Len(c.history) \in Nat /\ Len(c.response) \in Nat
  BY <1>2, LenProperties
<1>5. ASSUME NEW i \in 1 .. Len(c.response)
      PROVE  Full(c)[i + Len(c.history)] = c.response[i]
  <2>1. \A h, r \in Nat : i \in 1 .. r =>
          i + h \in 1 .. h + r /\ i + h > h /\ (i + h) - h = i
    OBVIOUS
  <2>2. /\ i + Len(c.history) \in 1 .. Len(c.history) + Len(c.response)
        /\ i + Len(c.history) > Len(c.history)
        /\ (i + Len(c.history)) - Len(c.history) = i
    BY <1>4, <2>1
  <2> QED
    BY <1>2, <2>2, ConcatProperties DEF Full
<1> QED
  BY <1>1, <1>2, <1>3, <1>5

(* The messages of a transcript: those of the response are among them, and *)
(* there are finitely many.                                                *)
LEMMA Messages ==
  ASSUME NEW c \in Captures
  PROVE  /\ Range(c.response) \subseteq Range(Full(c))
         /\ Range(Full(c)) \subseteq Tokens
         /\ Spawns(c.response) \subseteq Spawns(Full(c))
         /\ IsFiniteSet(Range(Full(c))) /\ IsFiniteSet(DOMAIN Full(c))
         /\ IsFiniteSet(Spawns(c.response)) /\ IsFiniteSet(Range(c.agents))
<1>1. Len(c.history) \in Nat /\ Len(c.response) \in Nat
      /\ DOMAIN c.response = 1 .. Len(c.response)
      /\ DOMAIN Full(c) = 1 .. Len(Full(c))
  BY CaptureTypes, LenProperties
<1>2. Range(c.response) \subseteq Range(Full(c))
  <2> SUFFICES ASSUME NEW i \in 1 .. Len(c.response)
               PROVE  \E j \in DOMAIN Full(c) : Full(c)[j] = c.response[i]
    BY <1>1 DEF Range
  <2>1. \A h, r \in Nat : i \in 1 .. r => i + h \in 1 .. h + r
    OBVIOUS
  <2>2. i + Len(c.history) \in DOMAIN Full(c)
    BY <1>1, <2>1, CaptureTypes
  <2> QED
    BY <2>2, CaptureTypes
<1>3. Range(Full(c)) \subseteq Tokens
  <2>1. \A i \in 1 .. Len(Full(c)) : Full(c)[i] \in Tokens
    BY CaptureTypes, ElementOfSeq
  <2> QED
    BY <1>1, <2>1 DEF Range
<1>4. IsFiniteSet(Range(Full(c))) /\ IsFiniteSet(DOMAIN Full(c))
      /\ IsFiniteSet(Range(c.response)) /\ IsFiniteSet(Range(c.agents))
  BY CaptureTypes, FiniteRange
<1>5. Spawns(c.response) \subseteq Range(c.response)
  BY DEF Spawns
<1>6. IsFiniteSet(Spawns(c.response))
  BY <1>4, <1>5, FS_Subset
<1> QED
  BY <1>2, <1>3, <1>4, <1>6 DEF Spawns

(* Of any captures some one was captured first.                            *)
LEMMA FirstIn ==
  ASSUME NEW S \in SUBSET Captures, S # {}
  PROVE  First(S) \in S /\ \A d \in S : First(S).source <= d.source
<1> DEFINE R == OpToRel(<, Nat)
           T == {c.source : c \in S}
<1>1. IsWellFoundedOn(R, Nat)
  BY NatLessThanWellFounded, Zenon
<1>2. \A m, n \in Nat : m < n => <<m, n>> \in R
  BY Zenon DEF OpToRel
<1>3. T \subseteq Nat /\ T # {}
  BY CaptureTypes
<1> HIDE DEF R
<1>4. \E n \in T : \A m \in T : ~(<<m, n>> \in R)
  <2> HIDE DEF T
  <2> QED
    BY <1>1, <1>3, WFMin
<1>5. PICK c \in S : \A m \in T : ~(<<m, c.source>> \in R)
  BY <1>4
<1>6. \A d \in S : c.source <= d.source
  <2> SUFFICES ASSUME NEW d \in S PROVE c.source <= d.source
    OBVIOUS
  <2>1. ~(d.source < c.source)
    BY <1>2, <1>3, <1>5
  <2>2. c.source \in Nat /\ d.source \in Nat
    BY CaptureTypes
  <2> QED
    BY <2>1, <2>2
<1> QED
  BY <1>6 DEF First

(* A history that continues a transcript repeats its messages and is       *)
(* longer, in the same scope.                                              *)
LEMMA Continues ==
  ASSUME NEW c \in Captures, NEW d \in Captures, Covers(d, c)
  PROVE  /\ Scope(c) = Scope(d)
         /\ Len(Full(c)) < Len(Full(d))
         /\ Range(Full(c)) \subseteq Range(Full(d))
<1>1. /\ Full(c) \in Seq(Tokens) /\ Full(d) \in Seq(Tokens)
      /\ d.history \in Seq(Tokens) /\ d.response \in Seq(Tokens)
      /\ Len(Full(c)) \in Nat /\ Len(Full(d)) = Len(d.history) + Len(d.response)
      /\ Len(d.history) \in Nat /\ Len(d.response) \in Nat
      /\ (d.response # <<>> => Len(d.response) # 0)
      /\ DOMAIN Full(c) = 1 .. Len(Full(c)) /\ DOMAIN Full(d) = 1 .. Len(Full(d))
  BY CaptureTypes, LenProperties, EmptySeq
<1>2. Len(Full(c)) <= Len(d.history) /\ Len(Full(c)) < Len(Full(d))
  <2>1. CASE d.response # <<>>
    <3>1. Len(Full(c)) <= Len(d.history) /\ Len(d.response) # 0
      BY <1>1, <2>1 DEF Covers, PrefixDepth
    <3>2. \A a, h, r \in Nat : a <= h /\ r # 0 => a < h + r
      OBVIOUS
    <3> QED
      BY <1>1, <3>1, <3>2
  <2>2. CASE d.response = <<>>
    <3>1. Len(Full(c)) <= Len(d.history) - 1
      BY <2>2 DEF Covers, PrefixDepth
    <3>2. \A a, h, r \in Nat : a <= h - 1 => a <= h /\ a < h + r
      OBVIOUS
    <3> QED
      BY <1>1, <3>1, <3>2
  <2> QED
    BY <2>1, <2>2
<1>3. Range(Full(c)) \subseteq Range(Full(d))
  <2> SUFFICES ASSUME NEW i \in 1 .. Len(Full(c))
               PROVE  \E j \in DOMAIN Full(d) : Full(d)[j] = Full(c)[i]
    BY <1>1 DEF Range
  <2>1. i \in 1 .. Len(d.history) /\ i \in DOMAIN Full(d)
    <3>1. \A a, h, f \in Nat : a <= h /\ a < f => \A j \in 1 .. a : j \in 1 .. h /\ j \in 1 .. f
      OBVIOUS
    <3>2. Len(Full(d)) \in Nat
      BY CaptureTypes
    <3> QED
      BY <1>1, <1>2, <3>1, <3>2
  <2>2. \A j \in 1 .. Len(Full(c)) : d.history[j] \in Tokens
    BY <1>1, <1>2, ElementOfSeq
  <2>3. SubSeq(d.history, 1, Len(Full(c)))[i] = d.history[i]
    BY <1>1, <2>2, SubSeqProperties
  <2>4. Full(d)[i] = d.history[i]
    BY <1>1, <2>1, ConcatProperties DEF Full
  <2> QED
    BY <2>1, <2>3, <2>4 DEF Covers
<1> QED
  BY <1>2, <1>3 DEF Covers, Compatibility

(* Of finitely many captures some one has the longest transcript.          *)
LEMMA Longest ==
  ASSUME NEW S \in SUBSET Captures, IsFiniteSet(S), S # {}
  PROVE  \E c \in S : \A d \in S : ~(Len(Full(c)) < Len(Full(d)))
<1> DEFINE Above(c) == {d \in S : Len(Full(c)) < Len(Full(d))}
           T == {Above(c) : c \in S}
           R == StrictSubsetOrdering(S)
<1>1. IsWellFoundedOn(R, FiniteSubsetsOf(S))
  BY FS_StrictSubsetOrderingWellFounded
<1>2. T \subseteq FiniteSubsetsOf(S) /\ T # {}
  <2>1. FiniteSubsetsOf(S) = SUBSET S
    BY FS_FiniteSubsetsOfFinite
  <2>2. T \subseteq SUBSET S /\ T # {}
    OBVIOUS
  <2> HIDE DEF T
  <2> QED
    BY <2>1, <2>2
<1>3. \E a \in T : \A b \in T : ~(<<b, a>> \in R)
  <2> HIDE DEF T, R
  <2> QED
    BY <1>1, <1>2, WFMin
<1>4. PICK c \in S : \A b \in T : ~(<<b, Above(c)>> \in R)
  BY <1>3
<1>5. ASSUME NEW d \in S, Len(Full(c)) < Len(Full(d)) PROVE FALSE
  <2>1. Len(Full(c)) \in Nat /\ Len(Full(d)) \in Nat
        /\ \A e \in S : Len(Full(e)) \in Nat
    BY CaptureTypes
  <2>2. Above(d) \subseteq Above(c) /\ d \in Above(c) /\ d \notin Above(d)
    BY <1>5, <2>1
  <2>3. <<Above(d), Above(c)>> \in R
    <3> HIDE DEF Above
    <3>1. Above(d) \subseteq S /\ Above(c) \subseteq S
      BY DEF Above
    <3> QED
      BY <2>2, <3>1 DEF StrictSubsetOrdering
  <2> QED
    BY <1>4, <2>3
<1> QED
  BY <1>5

-----------------------------------------------------------------------------
(* What aggregation leaves: the maximal captures, of those alike one.      *)
Alike(l) == {d \in Leaves(captures) : SemanticKey(d) = SemanticKey(l)}

Aggregated ==
  /\ captures \in Inputs
  /\ pc # "aggregate" => /\ leaves = {First(Alike(l)) : l \in Leaves(captures)}
                         /\ merged = [l \in leaves |-> Alike(l)]

LEMMA SessionTypes ==
  ASSUME captures \in Inputs
  PROVE  /\ captures \subseteq Captures /\ IsFiniteSet(captures)
         /\ \A c, d \in captures : c.session = d.session
         /\ Leaves(captures) \subseteq captures
BY MountAssumption DEF Leaves

LEMMA AlikeAgree ==
  ASSUME NEW l, NEW d \in Alike(l)
  PROVE  d \in Leaves(captures) /\ d.thread = l.thread /\ Full(d) = Full(l)
<1>1. SemanticKey(d)[1] = d.thread /\ SemanticKey(l)[1] = l.thread
      /\ SemanticKey(d)[5] = Full(d) /\ SemanticKey(l)[5] = Full(l)
  BY DEF SemanticKey
<1> QED
  BY <1>1 DEF Alike

LEMMA AlikeFirst ==
  ASSUME captures \in Inputs, NEW m \in Leaves(captures)
  PROVE  First(Alike(m)) \in Alike(m) /\ m \in Alike(m)
<1>1. m \in Alike(m)
  BY DEF Alike
<1>2. Alike(m) \in SUBSET Captures
  BY AlikeAgree, SessionTypes
<1> QED
  BY <1>1, <1>2, FirstIn

(* Every maximal capture is represented by a leaf that repeats it.         *)
LEMMA Represented ==
  ASSUME Aggregated, pc # "aggregate"
  PROVE  /\ leaves \subseteq Leaves(captures) /\ IsFiniteSet(leaves)
         /\ \A l \in leaves : l \in Alike(l) /\ merged[l] = Alike(l)
         /\ \A m \in Leaves(captures) : \E l \in leaves :
              m \in merged[l] /\ l.thread = m.thread /\ Full(l) = Full(m)
<1>1. \A m \in Leaves(captures) : First(Alike(m)) \in Alike(m) /\ m \in Alike(m)
  BY AlikeFirst DEF Aggregated
<1>2. leaves \subseteq Leaves(captures)
  BY <1>1, AlikeAgree DEF Aggregated
<1>3. IsFiniteSet(leaves)
  BY <1>2, SessionTypes, FS_Subset DEF Aggregated
<1>4. \A l \in leaves : l \in Alike(l) /\ merged[l] = Alike(l)
  BY <1>1, <1>2 DEF Aggregated
<1>5. ASSUME NEW m \in Leaves(captures)
      PROVE  \E l \in leaves : m \in merged[l] /\ l.thread = m.thread /\ Full(l) = Full(m)
  <2> DEFINE l == First(Alike(m))
  <2>1. l \in leaves /\ l \in Alike(m) /\ merged[l] = Alike(l)
    BY <1>1, <1>4 DEF Aggregated
  <2>2. m \in Alike(l)
    BY <2>1 DEF Alike
  <2> QED
    BY <2>1, <2>2, AlikeAgree
<1> QED
  BY <1>2, <1>3, <1>4, <1>5

(* What a capture says is repeated by a leaf of its scope.                 *)
LEMMA Repeats ==
  ASSUME Aggregated, pc # "aggregate", NEW k \in captures, k.session # Missing
  PROVE  \A m \in Range(Full(k)) : \E l \in leaves :
           l.thread = k.thread /\ m \in Range(Full(l))
<1> SUFFICES ASSUME NEW m \in Range(Full(k))
             PROVE  \E l \in leaves : l.thread = k.thread /\ m \in Range(Full(l))
  OBVIOUS
<1> DEFINE S == {c \in captures : c.thread = k.thread /\ m \in Range(Full(c))}
<1>1. captures \subseteq Captures /\ IsFiniteSet(captures)
      /\ \A c \in captures : c.session = k.session
  BY SessionTypes DEF Aggregated
<1>2. S \in SUBSET Captures /\ IsFiniteSet(S) /\ S # {}
  BY <1>1, FS_Subset
<1>3. PICK c \in S : \A d \in S : ~(Len(Full(c)) < Len(Full(d)))
  <2> HIDE DEF S
  <2> QED
    BY <1>2, Longest
<1>4. ASSUME NEW d \in captures, Covers(d, c) PROVE FALSE
  <2>1. /\ Scope(c) = Scope(d) /\ Len(Full(c)) < Len(Full(d))
        /\ Range(Full(c)) \subseteq Range(Full(d))
    BY <1>1, <1>4, Continues
  <2>2. Scope(c) = <<"session", c.session, c.thread>>
        /\ Scope(d) = <<"session", d.session, d.thread>>
    BY <1>1 DEF Scope
  <2>3. Scope(c)[3] = c.thread /\ Scope(d)[3] = d.thread
    BY <2>2
  <2>4. d.thread = c.thread
    BY <2>1, <2>3, Zenon
  <2> QED
    BY <1>3, <2>1, <2>4
<1>5. c \in Leaves(captures)
  BY <1>4 DEF Leaves
<1> QED
  BY <1>5, Represented

-----------------------------------------------------------------------------
(* What is drawn from the captures of a session is finite.                 *)

LEMMA EvidenceCaptured ==
  ASSUME Aggregated, pc # "aggregate"
  PROVE  /\ Evidence \subseteq captures /\ Evidence \subseteq Captures
         /\ IsFiniteSet(Evidence)
         /\ \A t : Of(t) \in SUBSET Captures /\ IsFiniteSet(Of(t))
<1>1. Evidence \subseteq captures
  BY Represented, AlikeAgree, SessionTypes DEF Evidence, Aggregated
<1>2. captures \subseteq Captures /\ IsFiniteSet(captures)
  BY SessionTypes DEF Aggregated
<1>3. IsFiniteSet(Evidence)
  BY <1>1, <1>2, FS_Subset
<1>4. \A t : Of(t) \subseteq Evidence
  BY DEF Of
<1> QED
  BY <1>1, <1>2, <1>3, <1>4, FS_Subset

LEMMA FiniteRecords ==
  ASSUME NEW S \in SUBSET Captures, IsFiniteSet(S)
  PROVE  IsFiniteSet(LocalRecords(S))
<1> DEFINE f == [c \in S |-> Range(c.agents)]
<1>1. \A c \in S : IsFiniteSet(f[c])
  BY Messages
<1>2. LocalRecords(S) = UNION {f[c] : c \in S}
  BY DEF LocalRecords
<1> HIDE DEF f
<1> QED
  BY <1>1, <1>2, FiniteUnion

LEMMA FiniteResults ==
  ASSUME Aggregated, pc # "aggregate", NEW t, NEW call
  PROVE  /\ IsFiniteSet(ResultNames(t, call))
         /\ <<>> \notin ResultNames(t, call)
<1> DEFINE f == [c \in Of(t) |-> Range(Full(c))]
           M == UNION {f[c] : c \in Of(t)}
           g == [m \in M |-> m.agent]
           N == {g[m] : m \in M}
<1>1. Of(t) \in SUBSET Captures /\ IsFiniteSet(Of(t))
  BY EvidenceCaptured
<1>2. IsFiniteSet(M) /\ M \subseteq Tokens
  <2>1. \A c \in Of(t) : IsFiniteSet(f[c]) /\ f[c] \subseteq Tokens
    BY <1>1, Messages
  <2> HIDE DEF f
  <2> QED
    BY <1>1, <2>1, FiniteUnion
<1>3. IsFiniteSet(N)
  <2> HIDE DEF g, M
  <2> QED
    BY <1>2, FiniteImage
<1>4. \A n \in ResultNames(t, call) : \E m \in M : m.kind = "result" /\ n = m.agent
  BY DEF ResultNames, Range
<1>5. ResultNames(t, call) \subseteq N
  BY <1>4
<1>6. \A m \in Tokens : m.kind = "result" => m.agent # <<>>
  BY MountAssumption
<1> HIDE DEF N, M
<1> QED
  BY <1>2, <1>3, <1>4, <1>5, <1>6, FS_Subset

LEMMA FiniteOccurrences ==
  ASSUME Aggregated, pc # "aggregate"
  PROVE  IsFiniteSet(Occurrences)
<1> DEFINE f == [c \in Evidence |-> {[in |-> c, call |-> m] : m \in Spawns(c.response)}]
<1>1. Evidence \subseteq Captures /\ IsFiniteSet(Evidence)
  BY EvidenceCaptured
<1>2. ASSUME NEW c \in Evidence PROVE IsFiniteSet(f[c])
  <2> DEFINE g == [m \in Spawns(c.response) |-> [in |-> c, call |-> m]]
  <2>1. IsFiniteSet(Spawns(c.response))
    BY <1>1, Messages
  <2>2. f[c] = {g[m] : m \in Spawns(c.response)}
    OBVIOUS
  <2> HIDE DEF f, g
  <2> QED
    BY <2>1, <2>2, FiniteImage
<1>3. Occurrences = UNION {f[c] : c \in Evidence}
  BY DEF Occurrences
<1> HIDE DEF f
<1> QED
  BY <1>1, <1>2, <1>3, FiniteUnion

(* The keys of the events: the calls of which one task is known.           *)
Agreed == {k \in {Key(o) : o \in Usable} : Cardinality(TasksOf(k)) = 1}
Events == {Event(key) : key \in Agreed}

LEMMA FiniteEvents ==
  ASSUME Aggregated, pc # "aggregate"
  PROVE  IsFiniteSet(Events) /\ \A key : IsFiniteSet(TasksOf(key))
<1>1. Usable \subseteq Occurrences /\ IsFiniteSet(Usable)
  BY FiniteOccurrences, FS_Subset DEF Usable
<1>2. ASSUME NEW key PROVE IsFiniteSet(TasksOf(key))
  <2> DEFINE S == {p \in Usable : Key(p) = key}
             f == [o \in S |-> Task(o.call)]
  <2>1. IsFiniteSet(S)
    BY <1>1, FS_Subset
  <2>2. TasksOf(key) = {f[o] : o \in S}
    BY DEF TasksOf
  <2> HIDE DEF f
  <2> QED
    BY <2>1, <2>2, FiniteImage
<1>3. IsFiniteSet(Events)
  <2> DEFINE K == {Key(o) : o \in Usable}
             f == [o \in Usable |-> Key(o)]
             g == [key \in Agreed |-> Event(key)]
  <2>1. IsFiniteSet(K)
    <3>1. K = {f[o] : o \in Usable}
      OBVIOUS
    <3> HIDE DEF f, K
    <3> QED
      BY <1>1, <3>1, FiniteImage
  <2>2. IsFiniteSet(Agreed)
    BY <2>1, FS_Subset DEF Agreed
  <2>3. Events = {g[key] : key \in Agreed}
    BY DEF Events
  <2> HIDE DEF g
  <2> QED
    BY <2>2, <2>3, FiniteImage
<1> QED
  BY <1>2, <1>3

(* A record of a thread is one that a capture of the thread had, and every *)
(* record of its id there names the same agents.                           *)
LEMMA ThreadRecord ==
  ASSUME Aggregated, pc # "aggregate", NEW t, NEW r \in ThreadRecords(t)
  PROVE  /\ r \in LocalRecords(Of(t)) /\ r.item.id # None
         /\ \A s \in LocalRecords(Of(t)) : s.item.id = r.item.id => s.item = r.item
<1>1. PICK id \in Ids(t) :
        /\ ~Contradicted(t, id)
        /\ r = CHOOSE s \in Range(First(Replays(t, id)).agents) : s.item.id = id
  BY DEF ThreadRecords
<1>2. Of(t) \in SUBSET Captures /\ IsFiniteSet(Of(t))
  BY EvidenceCaptured
<1>3. id # None /\ \E c \in Of(t) : \E s \in Range(c.agents) : s.item.id = id
  BY DEF Ids, LocalRecords
<1>4. First(Replays(t, id)) \in Replays(t, id)
  <2>1. Replays(t, id) \in SUBSET Captures /\ Replays(t, id) # {}
    BY <1>2, <1>3 DEF Replays
  <2> QED
    BY <2>1, FirstIn
<1>5. First(Replays(t, id)) \in Of(t)
      /\ \E s \in Range(First(Replays(t, id)).agents) : s.item.id = id
  BY <1>4 DEF Replays
<1>6. r \in Range(First(Replays(t, id)).agents) /\ r.item.id = id
  BY <1>1, <1>5
<1>7. r \in LocalRecords(Of(t))
  BY <1>5, <1>6 DEF LocalRecords
<1>8. ASSUME NEW s \in LocalRecords(Of(t)), s.item.id = r.item.id
      PROVE  s.item = r.item
  <2> DEFINE S == {q \in LocalRecords(Of(t)) : q.item.id = id}
             f == [q \in S |-> q.item]
             T == {q.item : q \in S}
  <2>1. IsFiniteSet(S)
    BY <1>2, FiniteRecords, FS_Subset
  <2>2. T = {f[q] : q \in S}
    OBVIOUS
  <2>3. IsFiniteSet(T)
    <3> HIDE DEF f, T, S
    <3> QED
      BY <2>1, <2>2, FiniteImage
  <2>4. ~(Cardinality(T) > 1)
    BY <1>1 DEF Contradicted
  <2>5. s.item \in T /\ r.item \in T
    BY <1>6, <1>7, <1>8
  <2> HIDE DEF T
  <2> QED
    BY <2>3, <2>4, <2>5, AtMostOne
<1> QED
  BY <1>3, <1>6, <1>7, <1>8

LEMMA FiniteAddresses ==
  ASSUME Aggregated, pc # "aggregate", NEW t
  PROVE  IsFiniteSet(ThreadRecords(t)) /\ IsFiniteSet(Recipients(t))
<1>1. IsFiniteSet(LocalRecords(Of(t)))
  BY EvidenceCaptured, FiniteRecords
<1>2. IsFiniteSet(ThreadRecords(t))
  BY <1>1, ThreadRecord, FS_Subset
<1>3. IsFiniteSet(Recipients(t))
  <2> DEFINE S == {s \in ThreadRecords(t) :
                     /\ s.origin = "history" /\ s.item.author # <<>> /\ s.item.recipient # <<>>
                     /\ ParentAgent(s.item.recipient) = s.item.author}
             f == [r \in S |-> r.item.recipient]
  <2>1. IsFiniteSet(S)
    BY <1>2, FS_Subset
  <2>2. Recipients(t) = {f[r] : r \in S}
    BY DEF Recipients
  <2> HIDE DEF f, S
  <2> QED
    BY <2>1, <2>2, FiniteImage
<1> QED
  BY <1>2, <1>3

(* The records of a leaf's own captures.                                   *)
LEMMA OwnRecords ==
  ASSUME Aggregated, pc # "aggregate", NEW l \in leaves
  PROVE  /\ IsFiniteSet(Records(l))
         /\ l.session # Missing => Records(l) \subseteq LocalRecords(Of(l.thread))
<1> DEFINE f == [d \in merged[l] |-> Contributors(captures, d)]
           S == UNION {Contributors(captures, d) : d \in merged[l]}
<1>1. captures \subseteq Captures /\ IsFiniteSet(captures)
      /\ Leaves(captures) \subseteq captures /\ l \in captures
      /\ \A c, d \in captures : c.session = d.session
  BY SessionTypes, Represented DEF Aggregated
<1>2. merged[l] \subseteq Leaves(captures) /\ \A d \in merged[l] : d.thread = l.thread
  BY Represented, AlikeAgree
<1>3. S \subseteq captures
  BY <1>1, <1>2 DEF Contributors
<1>4. IsFiniteSet(S) /\ S \in SUBSET Captures
  BY <1>1, <1>3, FS_Subset
<1>5. Records(l) = LocalRecords(S)
  BY DEF Records
<1>6. IsFiniteSet(Records(l))
  BY <1>4, <1>5, FiniteRecords
<1>7. ASSUME l.session # Missing, NEW c \in S, NEW r \in Range(c.agents)
      PROVE  r \in LocalRecords(Of(l.thread))
  <2>1. PICK d \in merged[l] : c = d \/ Covers(d, c)
    BY DEF Contributors
  <2>2. c \in captures /\ d \in captures /\ c.session # Missing /\ d.session # Missing
    BY <1>1, <1>2, <1>3, <1>7
  <2>3. c.thread = d.thread
    <3>1. CASE Covers(d, c)
      <4>1. Scope(c) = Scope(d)
        BY <1>1, <2>2, <3>1, Continues
      <4>2. Scope(c) = <<"session", c.session, c.thread>>
            /\ Scope(d) = <<"session", d.session, d.thread>>
        BY <2>2 DEF Scope
      <4>3. Scope(c)[3] = c.thread /\ Scope(d)[3] = d.thread
        BY <4>2
      <4> QED
        BY <4>1, <4>3, Zenon
    <3> QED
      BY <2>1, <3>1
  <2>4. c.agents # <<>>
    <3>1. DOMAIN <<>> = {}
      OBVIOUS
    <3>2. DOMAIN c.agents # {}
      BY <1>7 DEF Range
    <3> QED
      BY <3>1, <3>2
  <2>5. c \in Of(l.thread)
    BY <1>2, <2>2, <2>3, <2>4 DEF Of, Evidence
  <2> QED
    BY <1>7, <2>5 DEF LocalRecords
<1>8. l.session # Missing => Records(l) \subseteq LocalRecords(Of(l.thread))
  <2>1. \A r \in Records(l) : \E c \in S : r \in Range(c.agents)
    BY <1>5 DEF LocalRecords
  <2> HIDE DEF S
  <2> QED
    BY <1>7, <2>1
<1> QED
  BY <1>6, <1>8

-----------------------------------------------------------------------------
(* Leaves that edges lead to                                               *)
Onward(E, X) == X \cup {e.child : e \in {d \in E : d.parent \in X}}

Grows(f, E, S, n) ==
  /\ f = [k \in 0 .. n |-> f[k]]
  /\ f[0] = S
  /\ \A k \in 1 .. n : f[k] = Onward(E, f[k - 1])

(* The recursive definition has a solution, so that it equals what CHOOSE  *)
(* makes of it.                                                            *)
LEMMA GrowthExists ==
  ASSUME NEW E, NEW S, NEW N \in Nat
  PROVE  \E f : Grows(f, E, S, N)
<1> DEFINE T == {n \in 0 .. N : \E f : Grows(f, E, S, n)}
<1>1. 0 \in T
  <2> DEFINE f == [k \in 0 .. 0 |-> S]
  <2>1. Grows(f, E, S, 0)
    BY DEF Grows
  <2> HIDE DEF f
  <2> QED
    BY <2>1
<1>2. ASSUME NEW n \in 0 .. N, n \in T, n < N PROVE n + 1 \in T
  <2>1. PICK f : Grows(f, E, S, n)
    BY <1>2
  <2> DEFINE g == [k \in 0 .. n + 1 |-> IF k <= n THEN f[k] ELSE Onward(E, f[n])]
  <2>2. g = [k \in 0 .. n + 1 |-> g[k]] /\ g[0] = S
    BY <2>1 DEF Grows
  <2>3. ASSUME NEW k \in 1 .. n + 1 PROVE g[k] = Onward(E, g[k - 1])
    <3>1. CASE k <= n
      <4>1. k \in 1 .. n /\ k - 1 \in 0 .. n
        BY <3>1
      <4>2. g[k] = f[k] /\ g[k - 1] = f[k - 1]
        BY <3>1, <4>1
      <4>3. f[k] = Onward(E, f[k - 1])
        BY <2>1, <4>1 DEF Grows
      <4> HIDE DEF g
      <4> QED
        BY <4>2, <4>3
    <3>2. CASE k = n + 1
      <4>1. g[k] = Onward(E, f[n]) /\ g[k - 1] = f[n]
        BY <3>2
      <4> HIDE DEF g
      <4> QED
        BY <4>1
    <3> QED
      BY <3>1, <3>2
  <2>4. Grows(g, E, S, n + 1)
    <3> HIDE DEF g
    <3> QED
      BY <2>2, <2>3 DEF Grows
  <2> HIDE DEF g
  <2> QED
    BY <1>2, <2>4
<1>3. \A n \in 0 .. N : n \in T
  <2> HIDE DEF T
  <2> QED
    BY <1>1, <1>2, IntervalInduction
<1> QED
  BY <1>3

LEMMA WithinGrows ==
  ASSUME NEW E, NEW S, NEW N \in Nat
  PROVE  Grows(Within(E, S, N), E, S, N)
<1> DEFINE Solves(f) == f = [k \in 0 .. N |-> IF k = 0 THEN S ELSE Onward(E, f[k - 1])]
           W == Within(E, S, N)
<1>1. PICK f : Grows(f, E, S, N)
  BY GrowthExists
<1>2. Solves(f)
  <2>1. \A k \in 0 .. N : f[k] = IF k = 0 THEN S ELSE Onward(E, f[k - 1])
    <3>1. \A k \in 0 .. N : k = 0 \/ k \in 1 .. N
      OBVIOUS
    <3> QED
      BY <1>1, <3>1 DEF Grows
  <2> QED
    BY <1>1, <2>1 DEF Grows
<1>3. W = CHOOSE g : Solves(g)
  BY DEF Within, Onward
<1>4. Solves(W)
  <2> HIDE DEF Solves, W
  <2> QED
    BY <1>2, <1>3
<1> HIDE DEF W
<1>5. W[0] = S /\ \A k \in 1 .. N : W[k] = Onward(E, W[k - 1])
  BY <1>4
<1>6. W = [k \in 0 .. N |-> W[k]]
  BY <1>4
<1> QED
  BY <1>5, <1>6 DEF Grows, W

(* What is within k steps is within more.                                  *)
LEMMA GrowthMonotone ==
  ASSUME NEW E, NEW S, NEW N \in Nat, NEW f, Grows(f, E, S, N)
  PROVE  \A k \in 0 .. N : f[k] \subseteq f[N]
<1> DEFINE T == {n \in 0 .. N : \A k \in 0 .. n : f[k] \subseteq f[n]}
<1>1. 0 \in T
  OBVIOUS
<1>2. ASSUME NEW n \in 0 .. N, n \in T, n < N PROVE n + 1 \in T
  <2>1. n + 1 \in 1 .. N /\ (n + 1) - 1 = n
    BY <1>2
  <2>2. f[n] \subseteq f[n + 1]
    BY <2>1 DEF Grows, Onward
  <2>3. \A k \in 0 .. n + 1 : k \in 0 .. n \/ k = n + 1
    BY <1>2
  <2> QED
    BY <1>2, <2>2, <2>3
<1>3. \A n \in 0 .. N : n \in T
  <2> HIDE DEF T
  <2> QED
    BY <1>1, <1>2, IntervalInduction
<1> QED
  BY <1>3

(* What is reached was there or is a child of what is reached.             *)
LEMMA GrowthSource ==
  ASSUME NEW E, NEW S, NEW N \in Nat, NEW f, Grows(f, E, S, N)
  PROVE  \A k \in 0 .. N : \A l \in f[k] :
           l \in S \/ \E e \in E : e.child = l /\ e.parent \in f[N]
<1> DEFINE T == {n \in 0 .. N : \A l \in f[n] :
                   l \in S \/ \E e \in E : e.child = l /\ e.parent \in f[N]}
<1>1. 0 \in T
  BY DEF Grows
<1>2. ASSUME NEW n \in 0 .. N, n \in T, n < N PROVE n + 1 \in T
  <2>1. n + 1 \in 1 .. N /\ (n + 1) - 1 = n
    BY <1>2
  <2>2. f[n + 1] = f[n] \cup {e.child : e \in {d \in E : d.parent \in f[n]}}
    BY <2>1 DEF Grows, Onward
  <2>3. f[n] \subseteq f[N]
    BY GrowthMonotone
  <2> QED
    BY <1>2, <2>1, <2>2, <2>3
<1>3. \A n \in 0 .. N : n \in T
  <2> HIDE DEF T
  <2> QED
    BY <1>1, <1>2, IntervalInduction
<1> QED
  BY <1>3

(* What is reached from several is what is reached from one of them.       *)
LEMMA GrowthSplits ==
  ASSUME NEW E, NEW S, NEW N \in Nat
  PROVE  Within(E, S, N)[N] = UNION {Within(E, {r}, N)[N] : r \in S}
<1> DEFINE W == Within(E, S, N)
           V(r) == Within(E, {r}, N)
           T == {n \in 0 .. N : W[n] = UNION {V(r)[n] : r \in S}}
<1>1. Grows(W, E, S, N) /\ \A r : Grows(V(r), E, {r}, N)
  BY WithinGrows
<1>2. W[0] = S /\ \A r : V(r)[0] = {r}
  <2> HIDE DEF W, V
  <2> QED
    BY <1>1 DEF Grows
<1>3. 0 \in T
  <2> HIDE DEF W, V
  <2> QED
    BY <1>2
<1>4. ASSUME NEW n \in 0 .. N, n \in T, n < N PROVE n + 1 \in T
  <2> HIDE DEF W, V
  <2>1. n + 1 \in 1 .. N /\ (n + 1) - 1 = n /\ n + 1 \in 0 .. N
    BY <1>4
  <2>2. /\ W[n + 1] = Onward(E, W[n])
        /\ \A r : V(r)[n + 1] = Onward(E, V(r)[n])
    BY <1>1, <2>1 DEF Grows
  <2>3. W[n] = UNION {V(r)[n] : r \in S}
    BY <1>4
  <2>4. Onward(E, W[n]) = UNION {Onward(E, V(r)[n]) : r \in S}
    BY <2>3 DEF Onward
  <2>5. W[n + 1] = UNION {V(r)[n + 1] : r \in S}
    BY <2>2, <2>4
  <2> QED
    BY <2>1, <2>5
<1>5. \A n \in 0 .. N : n \in T
  <2> HIDE DEF T
  <2> QED
    BY <1>3, <1>4, IntervalInduction
<1>6. W[N] = UNION {V(r)[N] : r \in S}
  <2> HIDE DEF W, V
  <2> QED
    BY <1>5
<1> QED
  BY <1>6

(* From two sources into which no edge leads, and where no leaf has two    *)
(* edges into it, nothing common is reached.                               *)
LEMMA GrowthsApart ==
  ASSUME NEW E, NEW N \in Nat, NEW r, NEW s,
         \A d, e \in E : d.child = e.child => d = e,
         \A e \in E : e.child # r /\ e.child # s,
         NEW l \in Within(E, {r}, N)[N], l \in Within(E, {s}, N)[N]
  PROVE  r = s
<1> DEFINE V == Within(E, {r}, N)
           W == Within(E, {s}, N)
           T == {n \in 0 .. N : \A k \in V[n] : k \in W[N] => r = s}
<1>1. Grows(V, E, {r}, N) /\ Grows(W, E, {s}, N)
  BY WithinGrows
<1> HIDE DEF V, W
<1>2. ASSUME NEW k \in W[N] PROVE k = s \/ \E e \in E : e.child = k /\ e.parent \in W[N]
  BY <1>1, GrowthSource
<1>3. 0 \in T
  <2>1. V[0] = {r}
    BY <1>1 DEF Grows
  <2> QED
    BY <1>2, <2>1
<1>4. ASSUME NEW n \in 0 .. N, n \in T, n < N PROVE n + 1 \in T
  <2>1. n + 1 \in 1 .. N /\ (n + 1) - 1 = n /\ n + 1 \in 0 .. N
    BY <1>4
  <2>2. V[n + 1] = Onward(E, V[n])
    BY <1>1, <2>1 DEF Grows
  <2>3. ASSUME NEW k \in V[n + 1], k \in W[N] PROVE r = s
    <3>1. CASE k \in V[n]
      BY <1>4, <2>3, <3>1
    <3>2. ASSUME NEW e \in E, e.parent \in V[n], k = e.child PROVE r = s
      <4>1. e.parent \in W[N]
        BY <1>2, <2>3, <3>2
      <4> QED
        BY <1>4, <3>2, <4>1
    <3> QED
      BY <2>2, <2>3, <3>1, <3>2 DEF Onward
  <2> QED
    BY <2>1, <2>3
<1>5. \A n \in 0 .. N : n \in T
  <2> HIDE DEF T
  <2> QED
    BY <1>3, <1>4, IntervalInduction
<1> QED
  BY <1>5 DEF V, W

(* The edges that leave what is reached lead to all of it.                 *)
LEMMA GrowthKept ==
  ASSUME NEW E, NEW S, NEW N \in Nat,
         NEW D, D = {e \in E : e.parent \in Within(E, S, N)[N]}
  PROVE  Within(D, S, N)[N] = Within(E, S, N)[N]
<1> DEFINE V == Within(D, S, N)
           W == Within(E, S, N)
           T == {n \in 0 .. N : V[n] = W[n]}
<1>1. Grows(V, D, S, N) /\ Grows(W, E, S, N) /\ D = {e \in E : e.parent \in W[N]}
  BY WithinGrows
<1> HIDE DEF V, W
<1>2. 0 \in T
  BY <1>1 DEF Grows
<1>3. ASSUME NEW n \in 0 .. N, n \in T, n < N PROVE n + 1 \in T
  <2>1. n + 1 \in 1 .. N /\ (n + 1) - 1 = n /\ n + 1 \in 0 .. N
    BY <1>3
  <2>2. V[n + 1] = Onward(D, V[n]) /\ W[n + 1] = Onward(E, W[n]) /\ V[n] = W[n]
    BY <1>1, <1>3, <2>1 DEF Grows
  <2>3. W[n] \subseteq W[N]
    BY <1>1, GrowthMonotone
  <2>4. Onward(D, W[n]) = Onward(E, W[n])
    BY <1>1, <2>3 DEF Onward
  <2> QED
    BY <2>1, <2>2, <2>4
<1>4. \A n \in 0 .. N : n \in T
  <2> HIDE DEF T
  <2> QED
    BY <1>2, <1>3, IntervalInduction
<1> QED
  BY <1>4 DEF V, W

-----------------------------------------------------------------------------
(* The inductive invariant                                                 *)

(* What a later step fills is empty before it.                             *)
Unfilled ==
  /\ pc = "aggregate" => issues = {}
  /\ pc \in {"aggregate", "extract"} => events = {}
  /\ pc \in {"aggregate", "extract", "bind"} => parentOf = <<>>
  /\ pc \in {"aggregate", "extract", "bind", "link"} => invalid = {}
  /\ pc \in {"aggregate", "extract", "bind", "link", "propose"} => edges = {}
  /\ pc \notin {"publish", "done"} => published = {}
  /\ pc \notin {"settle", "publish", "done"} => \A e \in edges : e.relay = None

(* The events are those of the session; a call that is none of them marks  *)
(* the leaves that repeat it.                                              *)
Unheard(o, l) ==
  /\ o.in.turn = None => <<l, "spawn_missing_turn_id">> \in issues
  /\ o.in.turn # None /\ o.call.id = None => <<l, "spawn_missing_call_id">> \in issues
  /\ o \in Usable /\ Cardinality(TasksOf(Key(o))) > 1 =>
       <<l, "conflicting_spawn_evidence">> \in issues

Extracted ==
  pc \notin {"aggregate", "extract"} =>
    /\ events = Events
    /\ \A o \in Occurrences : \A l \in leaves :
         Applies(l, o.in.thread, o.in.turn, o.call) => Unheard(o, l)

Bound ==
  pc \notin {"aggregate", "extract", "bind"} =>
    /\ parentOf = [e \in {f \in events : Cardinality(Holders(f)) = 1} |-> First(Holders(e))]
    /\ \A e \in events : \A l \in Holders(e) :
         Cardinality(Holders(e)) > 1 => <<l, "ambiguous_parent_leaf">> \in issues

(* Why a child may be left an orphan.                                      *)
Explained(c) ==
  \/ c \in {i[1] : i \in issues}
  \/ \E e \in Claimed(c) : e \notin DOMAIN parentOf

Dismissed == \A c \in invalid : Explained(c)

(* An edge leads from the one holder of the one event that is a candidate. *)
EdgeOf(e, ev) ==
  /\ ev \in Candidates(e.child) /\ ev \in DOMAIN parentOf
  /\ parentOf[ev] = e.parent /\ ev.call = e.call /\ ev.turn = e.turn /\ ev.agent = e.agent

Grounded(e) ==
  /\ e = [parent |-> e.parent, child |-> e.child, call |-> e.call, turn |-> e.turn,
          agent |-> e.agent, relay |-> e.relay]
  /\ e.child \in Subagents /\ Refusal(e.child) = {}
  /\ \E ev \in events : EdgeOf(e, ev)

OneParent == \A d, e \in edges : d.child = e.child => d = e

Proposed == (\A e \in edges : Grounded(e)) /\ OneParent

OneChild == \A d, e \in edges : d.parent = e.parent /\ d.call = e.call => d = e

Grouped == pc \in {"cycles", "relay", "settle", "publish", "done"} => OneChild

Relayed ==
  \A e \in edges : e.relay # None =>
    /\ RelayFault(e) = "attached" /\ RelayId(e) = e.relay
    /\ \A d \in edges : d.parent = e.parent /\ d.relay = e.relay => d = e

(* Every mount is reached, whatever is not is explained, and an event of a *)
(* parent is mounted or marks the parent.                                  *)
MountedOrMarked(ev) == Mounted(ev) \/ <<parentOf[ev], "unmounted_spawn_call">> \in issues

Settled ==
  pc \in {"publish", "done"} =>
    /\ \A e \in edges : e.parent \in Reached
    /\ \A c \in Subagents \ Reached : Explained(c)
    /\ \A ev \in DOMAIN parentOf : MountedOrMarked(ev)

Printed == Roots \cup (Subagents \ Reached)

Released ==
  /\ \A p \in published : \E l \in Printed : p = Output(l)
  /\ pc = "done" => \A l \in Printed : Output(l) \in published

IInv == /\ TypeOK /\ Aggregated /\ Unfilled /\ Extracted /\ Bound
        /\ Dismissed /\ Proposed /\ Grouped /\ Relayed /\ Settled /\ Released

-----------------------------------------------------------------------------
(* What a step leaves alone                                                *)

(* While the session and its leaves stay, so does what is drawn from them. *)
LEMMA SameEvidence ==
  ASSUME UNCHANGED <<captures, leaves, merged>>
  PROVE  /\ Subagents' = Subagents /\ Roots' = Roots
         /\ \A t : Of(t)' = Of(t)
         /\ \A t : LeavesOf(t)' = LeavesOf(t)
         /\ \A e : Holders(e)' = Holders(e)
         /\ \A t, call : ResultNames(t, call)' = ResultNames(t, call)
         /\ Occurrences' = Occurrences /\ Usable' = Usable
         /\ \A key : TasksOf(key)' = TasksOf(key)
         /\ \A l : Alike(l)' = Alike(l)
<1>1. Evidence' = Evidence
  BY DEF Evidence
<1>2. \A t : Of(t)' = Of(t)
  BY <1>1 DEF Of
<1>3. \A t : LeavesOf(t)' = LeavesOf(t)
  BY DEF LeavesOf
<1>4. \A e : Holders(e)' = Holders(e)
  BY <1>3 DEF Holders
<1>5. \A t, call : ResultNames(t, call)' = ResultNames(t, call)
  BY <1>2 DEF ResultNames
<1>6. Occurrences' = Occurrences
  BY <1>1 DEF Occurrences
<1>7. Usable' = Usable
  BY <1>6 DEF Usable
<1>8. \A key : TasksOf(key)' = TasksOf(key)
  BY <1>7 DEF TasksOf
<1>9. \A l : SemanticKey(l)' = SemanticKey(l)
  BY DEF SemanticKey
<1>10. \A l : Alike(l)' = Alike(l)
  BY <1>9 DEF Alike
<1>11. Subagents' = Subagents /\ Roots' = Roots
  BY DEF Subagents, Roots
<1> QED
  BY <1>2, <1>3, <1>4, <1>5, <1>6, <1>7, <1>8, <1>10, <1>11

LEMMA SameEvents ==
  ASSUME UNCHANGED <<captures, leaves, merged>>
  PROVE  Events' = Events
<1>1. ASSUME NEW key PROVE Event(key)' = Event(key)
  <2>1. ResultNames(key[1], key[3])' = ResultNames(key[1], key[3])
        /\ TasksOf(key)' = TasksOf(key)
    BY SameEvidence
  <2> QED
    BY <2>1 DEF Event
<1>2. Agreed' = Agreed
  BY SameEvidence DEF Agreed
<1> QED
  BY <1>1, <1>2 DEF Events

LEMMA SameRecords ==
  ASSUME UNCHANGED <<captures, leaves, merged>>
  PROVE  /\ \A t : ThreadRecords(t)' = ThreadRecords(t)
         /\ \A t : Recipients(t)' = Recipients(t)
         /\ \A e : RelayFault(e)' = RelayFault(e)
         /\ \A e : RelayId(e)' = RelayId(e)
<1>1. \A t : Of(t)' = Of(t)
  BY SameEvidence
<1>2. \A t : Ids(t)' = Ids(t)
  BY <1>1 DEF Ids
<1>3. \A t, id : /\ Replays(t, id)' = Replays(t, id)
                 /\ Repeated(t, id)' = Repeated(t, id)
                 /\ Contradicted(t, id)' = Contradicted(t, id)
  BY <1>1 DEF Replays, Repeated, Contradicted
<1>4. \A t : ThreadRecords(t)' = ThreadRecords(t)
  BY <1>2, <1>3 DEF ThreadRecords
<1>5. \A t : Recipients(t)' = Recipients(t)
  BY <1>4 DEF Recipients
<1>6. \A e : From(e)' = From(e)
  BY <1>4 DEF From
<1>7. \A e : ToParent(e)' = ToParent(e)
  BY <1>6 DEF ToParent
<1>8. \A e : After(e)' = After(e)
  BY <1>7 DEF After
<1>9. \A e : RelayId(e)' = RelayId(e)
  BY <1>8 DEF RelayId
<1>10. \A e : RelayFault(e)' = RelayFault(e)
  BY <1>5, <1>6, <1>7, <1>8, <1>9 DEF RelayFault
<1> QED
  BY <1>4, <1>5, <1>9, <1>10

LEMMA SameCandidates ==
  ASSUME UNCHANGED <<captures, leaves, merged, events>>
  PROVE  \A c : /\ Claimed(c)' = Claimed(c)
                /\ Candidates(c)' = Candidates(c)
                /\ Refusal(c)' = Refusal(c)
<1>1. \A t : Recipients(t)' = Recipients(t)
  BY SameRecords
<1>2. \A c : Claimed(c)' = Claimed(c)
  BY DEF Claimed
<1>3. \A c : Routed(c)' = Routed(c)
  BY <1>2 DEF Routed
<1>4. ASSUME NEW c PROVE Candidates(c)' = Candidates(c)
  <2>1. Recipients(c.thread)' = Recipients(c.thread) /\ Routed(c)' = Routed(c)
    BY <1>1, <1>3
  <2> QED
    BY <2>1 DEF Candidates
<1>5. \A c : Refusal(c)' = Refusal(c)
  BY <1>1, <1>2, <1>3, <1>4 DEF Refusal
<1> QED
  BY <1>2, <1>4, <1>5

LEMMA SameGround ==
  ASSUME UNCHANGED <<captures, leaves, merged, events, parentOf>>
  PROVE  \A e : Grounded(e)' <=> Grounded(e)
<1> SUFFICES ASSUME NEW e PROVE Grounded(e)' <=> Grounded(e)
  OBVIOUS
<1>1. \A ev : EdgeOf(e, ev)' <=> EdgeOf(e, ev)
  BY SameCandidates DEF EdgeOf
<1>2. Subagents' = Subagents /\ Refusal(e.child)' = Refusal(e.child)
  BY SameEvidence, SameCandidates
<1> QED
  BY <1>1, <1>2 DEF Grounded

(* A step of the planner after the events are bound adds diagnostics; what *)
(* is said of the events and of the leaves stays.                          *)
LEMMA Carried ==
  ASSUME IInv, UNCHANGED <<captures, leaves, merged, events, parentOf>>,
         issues \subseteq issues',
         pc \notin {"aggregate", "extract", "bind"},
         pc' \notin {"aggregate", "extract", "bind"}
  PROVE  /\ Aggregated' /\ Extracted' /\ Bound'
         /\ \A c : Explained(c) => Explained(c)'
<1>1. Aggregated'
  BY SameEvidence DEF IInv, Aggregated
<1>2. Extracted'
  <2>1. events' = Events'
    BY SameEvents DEF IInv, Extracted
  <2>2. ASSUME NEW o \in Occurrences', NEW l \in leaves',
               Applies(l, o.in.thread, o.in.turn, o.call)
        PROVE  Unheard(o, l)'
    <3>1. o \in Occurrences /\ l \in leaves /\ Usable' = Usable
          /\ TasksOf(Key(o))' = TasksOf(Key(o))
      BY SameEvidence
    <3>2. Unheard(o, l)
      BY <2>2, <3>1 DEF IInv, Extracted
    <3> QED
      BY <3>1, <3>2 DEF Unheard
  <2> QED
    BY <2>1, <2>2 DEF Extracted
<1>3. Bound'
  <2>1. \A e : Holders(e)' = Holders(e)
    BY SameEvidence
  <2>2. /\ parentOf = [e \in {f \in events : Cardinality(Holders(f)) = 1} |-> First(Holders(e))]
        /\ \A e \in events : \A l \in Holders(e) :
             Cardinality(Holders(e)) > 1 => <<l, "ambiguous_parent_leaf">> \in issues
    BY DEF IInv, Bound
  <2> QED
    BY <2>1, <2>2 DEF Bound
<1>4. \A c : Explained(c) => Explained(c)'
  BY SameCandidates DEF Explained
<1> QED
  BY <1>1, <1>2, <1>3, <1>4

-----------------------------------------------------------------------------
(* The steps                                                               *)
LEMMA Starts == Init => IInv
<1> SUFFICES ASSUME Init PROVE IInv
  OBVIOUS
<1>1. DOMAIN parentOf = {}
  BY DEF Init
<1>2. TypeOK /\ Aggregated /\ Unfilled /\ Extracted /\ Bound
  BY <1>1 DEF Init, TypeOK, Aggregated, Unfilled, Extracted, Bound
<1>3. Dismissed /\ Proposed /\ Grouped /\ Relayed /\ Settled /\ Released
  BY DEF Init, Dismissed, Proposed, OneParent, Grouped, Relayed, Settled, Released
<1> QED
  BY <1>2, <1>3 DEF IInv

LEMMA AggregateStep == IInv /\ Aggregate => IInv'
<1> SUFFICES ASSUME IInv, Aggregate PROVE IInv'
  OBVIOUS
<1>1. /\ pc = "aggregate" /\ pc' = "extract" /\ captures' = captures
      /\ UNCHANGED <<events, parentOf, issues, invalid, edges, published>>
      /\ leaves' = {First(Alike(l)) : l \in Leaves(captures)}
      /\ merged' = [l \in leaves' |-> Alike(l)]
  BY DEF Aggregate, plan, Alike
<1>2. /\ events = {} /\ parentOf = <<>> /\ issues = {} /\ invalid = {} /\ edges = {}
      /\ published = {} /\ DOMAIN parentOf = {}
  BY <1>1 DEF IInv, Unfilled
<1>3. leaves' \subseteq captures
  BY <1>1, AlikeFirst, AlikeAgree, SessionTypes DEF IInv, Aggregated
<1>4. TypeOK'
  BY <1>1, <1>2, <1>3 DEF TypeOK
<1>5. Aggregated'
  <2>1. \A l : SemanticKey(l)' = SemanticKey(l)
    BY <1>1 DEF SemanticKey
  <2>2. \A l : Alike(l)' = Alike(l)
    BY <1>1, <2>1 DEF Alike
  <2> QED
    BY <1>1, <2>2 DEF IInv, Aggregated
<1>6. Unfilled' /\ Extracted' /\ Bound'
  BY <1>1, <1>2 DEF Unfilled, Extracted, Bound
<1>7. Dismissed' /\ Proposed' /\ Grouped' /\ Relayed' /\ Settled' /\ Released'
  BY <1>1, <1>2 DEF Dismissed, Proposed, OneParent, Grouped, Relayed, Settled, Released
<1> QED
  BY <1>4, <1>5, <1>6, <1>7 DEF IInv

LEMMA ExtractStep == IInv /\ Extract => IInv'
<1> SUFFICES ASSUME IInv, Extract PROVE IInv'
  OBVIOUS
<1>1. /\ pc = "extract" /\ pc' = "bind"
      /\ UNCHANGED <<captures, leaves, merged, parentOf, invalid, edges, published>>
      /\ events' = Events
  BY DEF Extract, Events, Agreed
<1>2. /\ parentOf = <<>> /\ invalid = {} /\ edges = {} /\ published = {}
      /\ DOMAIN parentOf = {}
  BY <1>1 DEF IInv, Unfilled
<1>3. issues' = UNION {
       Reported("spawn_missing_turn_id", {o \in Occurrences : o.in.turn = None}),
       Reported("spawn_missing_call_id",
                {o \in Occurrences : o.in.turn # None /\ o.call.id = None}),
       Reported("malformed_spawn_arguments", {o \in Usable : o.call.args = Malformed}),
       Reported("conflicting_spawn_agent_name",
                {o \in Usable : Cardinality(ResultNames(o.in.thread, o.call.id)) > 1}),
       Reported("conflicting_spawn_evidence",
                {o \in Usable : Cardinality(TasksOf(Key(o))) > 1}),
       MessageIssues}
  BY DEF Extract
<1>4. \A i \in issues' : i[1] \in leaves
  <2>1. \A code, S : \A i \in Reported(code, S) : i[1] \in leaves
    BY DEF Reported
  <2>2. \A i \in MessageIssues : i[1] \in leaves
    BY DEF MessageIssues
  <2> QED
    BY <1>3, <2>1, <2>2
<1>5. TypeOK'
  BY <1>1, <1>2, <1>4 DEF IInv, TypeOK
<1>6. Aggregated'
  BY <1>1, SameEvidence DEF IInv, Aggregated
<1>7. Extracted'
  <2>1. events' = Events'
    BY <1>1, SameEvents
  <2>2. ASSUME NEW o \in Occurrences', NEW l \in leaves',
               Applies(l, o.in.thread, o.in.turn, o.call)
        PROVE  Unheard(o, l)'
    <3>1. o \in Occurrences /\ l \in leaves /\ Usable' = Usable
          /\ TasksOf(Key(o))' = TasksOf(Key(o))
      BY <1>1, SameEvidence
    <3>2. \A code, S : o \in S => <<l, code>> \in Reported(code, S)
      BY <2>2, <3>1 DEF Reported
    <3> QED
      BY <1>3, <3>1, <3>2 DEF Unheard
  <2> QED
    BY <2>1, <2>2 DEF Extracted
<1>8. Unfilled' /\ Bound'
  BY <1>1, <1>2 DEF Unfilled, Bound
<1>9. Dismissed' /\ Proposed' /\ Grouped' /\ Relayed' /\ Settled' /\ Released'
  BY <1>1, <1>2 DEF Dismissed, Proposed, OneParent, Grouped, Relayed, Settled, Released
<1> QED
  BY <1>5, <1>6, <1>7, <1>8, <1>9 DEF IInv

LEMMA BindStep == IInv /\ Bind => IInv'
<1> SUFFICES ASSUME IInv, Bind PROVE IInv'
  OBVIOUS
<1>1. /\ pc = "bind" /\ pc' = "link"
      /\ UNCHANGED <<captures, leaves, merged, events, invalid, edges, published>>
      /\ parentOf' = [e \in {f \in events : Cardinality(Holders(f)) = 1} |-> First(Holders(e))]
      /\ issues \subseteq issues'
  BY DEF Bind
<1>2. invalid = {} /\ edges = {} /\ published = {}
  BY <1>1 DEF IInv, Unfilled
<1> DEFINE Many == {f \in events : Cardinality(Holders(f)) > 1}
             A == UNION {{<<l, "ambiguous_parent_leaf">> : l \in Holders(e)} : e \in Many}
             M(e) == {k \in LeavesOf(e.thread) : e.call \in SpawnIds(k) \/ k.turn = e.turn}
             B == UNION {{<<l, "missing_parent_leaf">> : l \in M(e)} :
                         e \in {f \in events : Holders(f) = {}}}
<1>10. issues' = issues \cup A \cup B
  BY DEF Bind
<1>11. \A e : Holders(e) \subseteq leaves /\ M(e) \subseteq leaves
  BY DEF Holders, LeavesOf
<1>3. \A i \in issues' : i \in issues \/ i[1] \in leaves
  <2>1. \A i \in A : i[1] \in leaves
    BY <1>11
  <2>2. \A i \in B : i[1] \in leaves
    <3> HIDE DEF M
    <3> QED
      BY <1>11
  <2> HIDE DEF A, B
  <2> QED
    BY <1>10, <2>1, <2>2
<1>4. TypeOK'
  BY <1>1, <1>2, <1>3 DEF IInv, TypeOK
<1>5. Aggregated'
  BY <1>1, SameEvidence DEF IInv, Aggregated
<1>6. Extracted'
  <2>1. events' = Events'
    BY <1>1, SameEvents DEF IInv, Extracted
  <2>2. ASSUME NEW o \in Occurrences', NEW l \in leaves',
               Applies(l, o.in.thread, o.in.turn, o.call)
        PROVE  Unheard(o, l)'
    <3>1. o \in Occurrences /\ l \in leaves /\ Usable' = Usable
          /\ TasksOf(Key(o))' = TasksOf(Key(o))
      BY <1>1, SameEvidence
    <3>2. Unheard(o, l)
      BY <1>1, <2>2, <3>1 DEF IInv, Extracted
    <3> QED
      BY <1>1, <3>1, <3>2 DEF Unheard
  <2> QED
    BY <2>1, <2>2 DEF Extracted
<1>7. Bound'
  <2>1. \A e : Holders(e)' = Holders(e)
    BY <1>1, SameEvidence
  <2>2. \A e \in events : \A l \in Holders(e) :
          Cardinality(Holders(e)) > 1 => <<l, "ambiguous_parent_leaf">> \in issues'
    <3>1. \A e \in Many : \A l \in Holders(e) : <<l, "ambiguous_parent_leaf">> \in A
      OBVIOUS
    <3> HIDE DEF A, B
    <3> QED
      BY <1>10, <3>1
  <2> QED
    BY <1>1, <2>1, <2>2 DEF Bound
<1>8. Unfilled'
  BY <1>1, <1>2 DEF Unfilled
<1>9. Dismissed' /\ Proposed' /\ Grouped' /\ Relayed' /\ Settled' /\ Released'
  BY <1>1, <1>2 DEF Dismissed, Proposed, OneParent, Grouped, Relayed, Settled, Released
<1> QED
  BY <1>4, <1>5, <1>6, <1>7, <1>8, <1>9 DEF IInv

LEMMA LinkStep == IInv /\ CheckLinks => IInv'
<1> SUFFICES ASSUME IInv, CheckLinks PROVE IInv'
  OBVIOUS
<1>1. /\ pc = "link" /\ pc' = "propose"
      /\ UNCHANGED <<captures, leaves, merged, events, parentOf, edges, published>>
      /\ issues' = issues \cup LinkIssues /\ invalid' = {i[1] : i \in LinkIssues}
  BY DEF CheckLinks
<1>2. edges = {} /\ published = {}
  BY <1>1 DEF IInv, Unfilled
<1>3. \A i \in LinkIssues : i[1] \in leaves
  <2>1. Subagents \subseteq leaves
    BY DEF Subagents
  <2>2. \A i \in LinkIssues : \E l \in Subagents, code \in
          {"conflicting_parent_thread", "conflicting_marker_metadata",
           "unselected_child_branch"} : i = <<l, code>>
    BY DEF LinkIssues
  <2> QED
    BY <2>1, <2>2
<1>4. TypeOK'
  BY <1>1, <1>2, <1>3 DEF IInv, TypeOK
<1>5. Aggregated' /\ Extracted' /\ Bound'
  BY <1>1, Carried
<1>6. Unfilled'
  BY <1>1, <1>2 DEF Unfilled
<1>7. Dismissed'
  BY <1>1 DEF Dismissed, Explained
<1>8. Proposed' /\ Grouped' /\ Relayed' /\ Settled' /\ Released'
  BY <1>1, <1>2 DEF Proposed, OneParent, Grouped, Relayed, Settled, Released
<1> QED
  BY <1>4, <1>5, <1>6, <1>7, <1>8 DEF IInv

(* The parent of an event is the one leaf that holds its call.             *)
LEMMA HeldByOne ==
  ASSUME Aggregated, Bound, pc \notin {"aggregate", "extract", "bind"},
         NEW ev \in DOMAIN parentOf
  PROVE  /\ ev \in events /\ Holders(ev) = {parentOf[ev]}
         /\ parentOf[ev] \in leaves /\ parentOf[ev].thread = ev.thread
<1>1. /\ ev \in events /\ Cardinality(Holders(ev)) = 1
      /\ parentOf[ev] = First(Holders(ev))
  BY DEF Bound
<1>2. /\ Holders(ev) \subseteq leaves /\ leaves \subseteq Captures /\ IsFiniteSet(leaves)
      /\ \A l \in Holders(ev) : l.thread = ev.thread
  BY Represented, SessionTypes DEF Aggregated, Holders, LeavesOf
<1>3. PICK l : Holders(ev) = {l}
  BY <1>1, <1>2, AtMostOne, FS_Subset
<1>4. First(Holders(ev)) = l
  BY <1>2, <1>3, FirstIn
<1> QED
  BY <1>1, <1>2, <1>3, <1>4

(* Of the events that a child claims some fit its marker, and of these     *)
(* some its name.                                                          *)
LEMMA CandidatesClaimed ==
  ASSUME NEW c
  PROVE  /\ Candidates(c) \subseteq Routed(c) /\ Routed(c) \subseteq Claimed(c)
         /\ Claimed(c) \subseteq events
         /\ \A e \in Claimed(c) : e.thread = c.link.thread /\ e.turn = c.link.turn
         /\ \A e \in Routed(c) : /\ c.marker.call \in {None, e.call}
                                 /\ c.marker.task \in {None, e.task}
<1>1. \A S, name : Addressed(S, name) \subseteq S
  BY DEF Addressed
<1>2. Candidates(c) \subseteq Routed(c)
  BY <1>1 DEF Candidates
<1>3. /\ Routed(c) \subseteq Claimed(c)
      /\ \A e \in Routed(c) : /\ c.marker.call \in {None, e.call}
                              /\ c.marker.task \in {None, e.task}
  BY DEF Routed
<1> QED
  BY <1>2, <1>3 DEF Claimed

(* A child that is not refused has one candidate, and one name at most.    *)
LEMMA NotRefused ==
  ASSUME Aggregated, Extracted, pc \notin {"aggregate", "extract"},
         NEW c, Refusal(c) = {}
  PROVE  /\ Routed(c) # {} /\ IsFiniteSet(Routed(c))
         /\ \A x, y \in Recipients(c.thread) : x = y
         /\ \A x, y \in Candidates(c) : x = y
<1>1. IsFiniteSet(events)
  BY FiniteEvents DEF Extracted
<1>2. IsFiniteSet(Routed(c)) /\ IsFiniteSet(Candidates(c))
  BY <1>1, CandidatesClaimed, FS_Subset
<1>3. /\ Claimed(c) # {} /\ Routed(c) # {}
      /\ ~(Cardinality(Recipients(c.thread)) > 1)
      /\ ~(Cardinality(Candidates(c)) > 1)
  BY DEF Refusal
<1>4. IsFiniteSet(Recipients(c.thread))
  BY FiniteAddresses
<1> QED
  BY <1>2, <1>3, <1>4, AtMostOne

LEMMA ProposeStep == IInv /\ Propose => IInv'
<1> SUFFICES ASSUME IInv, Propose PROVE IInv'
  OBVIOUS
<1> DEFINE sound   == {c \in Subagents \ invalid : ChildFaults(c) = {}}
           routed  == {c \in sound : Refusal(c) = {}}
           mounted == {c \in routed : Candidates(c) \subseteq DOMAIN parentOf}
           faults  == UNION {{<<c, code>> : code \in ChildFaults(c)} : c \in Subagents}
           refused == UNION {{<<c, code>> : code \in Refusal(c)} : c \in sound}
<1>1. /\ pc = "propose" /\ pc' = "group"
      /\ UNCHANGED <<captures, leaves, merged, events, parentOf, published>>
  BY DEF Propose
<1>2. /\ edges' = UNION {{EdgeTo(c, e) : e \in Candidates(c)} : c \in mounted}
      /\ invalid' = Subagents \ mounted
      /\ issues' = issues \cup faults \cup refused
  BY DEF Propose
<1>3. published = {} /\ Subagents \subseteq leaves
  BY <1>1 DEF IInv, Unfilled, Subagents
<1>4. \A i \in faults \cup refused : i[1] \in leaves
  BY <1>3
<1>5. Aggregated' /\ Extracted' /\ Bound' /\ \A c : Explained(c) => Explained(c)'
  <2>1. issues \subseteq issues'
    <3> HIDE DEF faults, refused
    <3> QED
      BY <1>2
  <2> QED
    BY <1>1, <2>1, Carried
<1>6. \A e \in edges' : \E c \in mounted : \E ev \in Candidates(c) : e = EdgeTo(c, ev)
  <2> HIDE DEF mounted
  <2> QED
    BY <1>2
<1>7. \A ev \in DOMAIN parentOf : parentOf[ev] \in leaves
  BY <1>1, HeldByOne DEF IInv
<1>8. ASSUME NEW e \in edges'
      PROVE  /\ Grounded(e) /\ e.relay = None /\ e.parent \in leaves
             /\ \E ev \in Candidates(e.child) : e = EdgeTo(e.child, ev)
  <2>0. PICK c \in mounted : \E ev \in Candidates(c) : e = EdgeTo(c, ev)
    BY <1>6
  <2>1. PICK ev \in Candidates(c) : e = EdgeTo(c, ev)
    BY <2>0
  <2>2. ev \in DOMAIN parentOf /\ ev \in events
    BY CandidatesClaimed
  <2>3. /\ e = [parent |-> parentOf[ev], child |-> c, call |-> ev.call, turn |-> ev.turn,
                agent |-> ev.agent, relay |-> None]
        /\ e.child = c /\ e.parent = parentOf[ev] /\ e.relay = None
    BY <2>1 DEF EdgeTo
  <2>4. EdgeOf(e, ev)
    BY <2>2, <2>3 DEF EdgeOf
  <2>5. Grounded(e)
    BY <2>2, <2>3, <2>4 DEF Grounded
  <2> QED
    BY <1>7, <2>1, <2>2, <2>3, <2>5
<1>9. Proposed'
  <2>1. \A e \in edges' : Grounded(e)'
    BY <1>1, <1>8, SameGround
  <2>2. ASSUME NEW d \in edges', NEW e \in edges', d.child = e.child PROVE d = e
    <3>1. \A x, y \in Candidates(d.child) : x = y
      <4>1. Refusal(d.child) = {}
        BY <1>8 DEF Grounded
      <4> QED
        BY <1>1, <4>1, NotRefused DEF IInv
    <3> QED
      BY <1>8, <2>2, <3>1
  <2> QED
    BY <2>1, <2>2 DEF Proposed, OneParent
<1>10. TypeOK'
  <2>1. \A e \in edges' : {e.parent, e.child} \subseteq leaves
    BY <1>3, <1>8 DEF Grounded
  <2>2. \A i \in issues' : i[1] \in leaves
    <3> HIDE DEF faults, refused
    <3> QED
      BY <1>2, <1>4 DEF IInv, TypeOK
  <2>3. invalid' \subseteq leaves
    <3> HIDE DEF mounted
    <3> QED
      BY <1>2, <1>3
  <2>4. DOMAIN parentOf' \subseteq events'
    BY <1>1 DEF IInv, TypeOK
  <2> QED
    BY <1>1, <1>3, <2>1, <2>2, <2>3, <2>4 DEF IInv, TypeOK
<1>11. Dismissed'
  <2>1. ASSUME NEW c \in Subagents, c \notin mounted PROVE Explained(c)'
    <3>1. CASE c \in invalid
      BY <1>5, <3>1 DEF IInv, Dismissed
    <3>2. ASSUME c \notin invalid, ChildFaults(c) # {} PROVE Explained(c)'
      <4>1. PICK code : <<c, code>> \in faults
        BY <3>2
      <4>2. <<c, code>> \in issues'
        <5> HIDE DEF faults, refused
        <5> QED
          BY <1>2, <4>1
      <4> QED
        BY <4>2 DEF Explained
    <3>3. ASSUME c \in sound, Refusal(c) # {} PROVE Explained(c)'
      <4>1. PICK code : <<c, code>> \in refused
        BY <3>3
      <4>2. <<c, code>> \in issues'
        <5> HIDE DEF faults, refused
        <5> QED
          BY <1>2, <4>1
      <4> QED
        BY <4>2 DEF Explained
    <3>4. ASSUME c \in routed, ~(Candidates(c) \subseteq DOMAIN parentOf)
          PROVE  Explained(c)'
      <4>1. PICK e \in Claimed(c) : e \notin DOMAIN parentOf
        BY <3>4, CandidatesClaimed
      <4>2. Explained(c)
        BY <4>1 DEF Explained
      <4> QED
        BY <1>5, <4>2
    <3> QED
      BY <2>1, <3>1, <3>2, <3>3, <3>4
  <2> HIDE DEF mounted
  <2> QED
    BY <1>2, <2>1 DEF Dismissed
<1>12. Unfilled' /\ Grouped' /\ Relayed' /\ Settled' /\ Released'
  BY <1>1, <1>3, <1>8 DEF Unfilled, Grouped, Relayed, Settled, Released
<1> QED
  BY <1>5, <1>9, <1>10, <1>11, <1>12 DEF IInv

LEMMA GroupStep == IInv /\ Group => IInv'
<1> SUFFICES ASSUME IInv, Group PROVE IInv'
  OBVIOUS
<1> DEFINE shared == {e \in edges : Cardinality(Claims(e)) > 1}
<1>1. /\ pc = "group" /\ pc' = "cycles"
      /\ UNCHANGED <<captures, leaves, merged, events, parentOf, published>>
      /\ edges' = edges \ shared
      /\ invalid' = invalid \cup {e.child : e \in shared}
      /\ issues' = issues \cup {<<e.child, "multiple_children_for_spawn">> : e \in shared}
  BY DEF Group
<1>2. published = {}
  BY <1>1 DEF IInv, Unfilled
<1>3. TypeOK'
  BY <1>1, <1>2 DEF IInv, TypeOK
<1>4. Aggregated' /\ Extracted' /\ Bound' /\ \A c : Explained(c) => Explained(c)'
  BY <1>1, Carried
<1>5. IsFiniteSet(edges)
  <2> DEFINE f == [e \in edges |-> e.child]
  <2>1. f \in [edges -> leaves] /\ \A d, e \in edges : f[d] = f[e] => d = e
    BY DEF IInv, TypeOK, Proposed, OneParent
  <2>2. f \in Injection(edges, leaves)
    <3> HIDE DEF f
    <3> QED
      BY <2>1 DEF Injection, IsInjective
  <2>3. IsFiniteSet(leaves)
    BY <1>1, Represented DEF IInv
  <2> HIDE DEF f
  <2> QED
    BY <2>2, <2>3, FS_Injection
<1>6. Grouped'
  <2>1. ASSUME NEW d \in edges', NEW e \in edges', d.parent = e.parent, d.call = e.call
        PROVE  d = e
    <3>1. d \in Claims(e) /\ e \in Claims(e)
      BY <1>1, <2>1 DEF Claims
    <3>2. IsFiniteSet(Claims(e)) /\ ~(Cardinality(Claims(e)) > 1)
      BY <1>1, <1>5, FS_Subset DEF Claims
    <3> QED
      BY <3>1, <3>2, AtMostOne
  <2> QED
    BY <2>1 DEF Grouped, OneChild
<1>7. Proposed'
  BY <1>1, SameGround DEF IInv, Proposed, OneParent
<1>8. Dismissed'
  <2>1. ASSUME NEW e \in shared PROVE Explained(e.child)'
    <3>1. <<e.child, "multiple_children_for_spawn">> \in issues'
      BY <1>1
    <3> QED
      BY <3>1 DEF Explained
  <2> HIDE DEF shared
  <2> QED
    BY <1>1, <1>4, <2>1 DEF IInv, Dismissed
<1>9. \A e \in edges' : e.relay = None
  BY <1>1 DEF IInv, Unfilled
<1>10. Unfilled' /\ Relayed' /\ Settled' /\ Released'
  BY <1>1, <1>2, <1>9 DEF Unfilled, Relayed, Settled, Released
<1> QED
  BY <1>3, <1>4, <1>6, <1>7, <1>8, <1>10 DEF IInv

LEMMA CyclesStep == IInv /\ BreakCycles => IInv'
<1> SUFFICES ASSUME IInv, BreakCycles PROVE IInv'
  OBVIOUS
<1>1. /\ pc = "cycles" /\ pc' = "relay"
      /\ UNCHANGED <<captures, leaves, merged, events, parentOf, published>>
      /\ edges' \subseteq edges
      /\ invalid' = invalid \cup OnCycle
      /\ issues' = issues \cup {<<l, "mount_cycle">> : l \in OnCycle}
  BY DEF BreakCycles
<1>2. published = {} /\ OnCycle \subseteq leaves
  BY <1>1 DEF IInv, Unfilled, OnCycle
<1>3. TypeOK'
  BY <1>1, <1>2 DEF IInv, TypeOK
<1>4. Aggregated' /\ Extracted' /\ Bound' /\ \A c : Explained(c) => Explained(c)'
  BY <1>1, Carried
<1>5. Proposed' /\ Grouped'
  BY <1>1, SameGround DEF IInv, Proposed, OneParent, Grouped, OneChild
<1>6. Dismissed'
  <2>1. ASSUME NEW l \in OnCycle PROVE Explained(l)'
    <3>1. <<l, "mount_cycle">> \in issues'
      BY <1>1
    <3> QED
      BY <3>1 DEF Explained
  <2> QED
    BY <1>1, <1>4, <2>1 DEF IInv, Dismissed
<1>7. \A e \in edges' : e.relay = None
  BY <1>1 DEF IInv, Unfilled
<1>8. Unfilled' /\ Relayed' /\ Settled' /\ Released'
  BY <1>1, <1>2, <1>7 DEF Unfilled, Relayed, Settled, Released
<1> QED
  BY <1>3, <1>4, <1>5, <1>6, <1>8 DEF IInv

(* The message that answers a call does not depend on what is recorded.    *)
LEMMA SameRelay ==
  ASSUME NEW d, NEW e, d.parent = e.parent, d.child = e.child,
         d.call = e.call, d.agent = e.agent
  PROVE  RelayFault(d) = RelayFault(e) /\ RelayId(d) = RelayId(e)
<1>1. From(d) = From(e)
  BY DEF From
<1>2. ToParent(d) = ToParent(e)
  BY <1>1 DEF ToParent
<1>3. After(d) = After(e)
  BY <1>2 DEF After
<1>4. RelayId(d) = RelayId(e)
  BY <1>3 DEF RelayId
<1> QED
  BY <1>1, <1>2, <1>3, <1>4 DEF RelayFault

LEMMA RelayStep == IInv /\ AttachRelays => IInv'
<1> SUFFICES ASSUME IInv, AttachRelays PROVE IInv'
  OBVIOUS
<1> DEFINE eligible == {e \in edges : RelayFault(e) = "attached"}
           shared(e) == \E d \in eligible \ {e} : d.parent = e.parent /\ RelayId(d) = RelayId(e)
           faulty == {<<e.parent, RelayFault(e)>> :
                        e \in {d \in edges : RelayFault(d) \notin {"none", "attached"}}}
           doubled == UNION {{<<e.parent, "relay_id_conflict">>, <<e.child, "relay_id_conflict">>} :
                               e \in {d \in eligible : shared(d)}}
           stray == {<<l, "unmatched_agent_message">> : l \in {k \in leaves : Stray(k) # {}}}
<1>1. /\ pc = "relay" /\ pc' = "settle"
      /\ UNCHANGED <<captures, leaves, merged, events, parentOf, invalid, published>>
  BY DEF AttachRelays
<1>2. /\ edges' = {IF e \in eligible /\ ~shared(e) THEN [e EXCEPT !.relay = RelayId(e)] ELSE e :
                     e \in edges}
      /\ issues' = issues \cup faulty \cup doubled \cup stray
  BY DEF AttachRelays
<1>3. published = {} /\ \A e \in edges : e.relay = None /\ Grounded(e)
  BY <1>1 DEF IInv, Unfilled, Proposed
<1>4. ASSUME NEW d \in edges'
      PROVE  \E e \in edges :
               /\ d = [parent |-> e.parent, child |-> e.child, call |-> e.call,
                       turn |-> e.turn, agent |-> e.agent, relay |-> d.relay]
               /\ d.relay # None => e \in eligible /\ ~shared(e) /\ d.relay = RelayId(e)
  <2>1. PICK e \in edges :
          d = IF e \in eligible /\ ~shared(e) THEN [e EXCEPT !.relay = RelayId(e)] ELSE e
    <3> HIDE DEF eligible, shared
    <3> QED
      BY <1>2
  <2>2. e = [parent |-> e.parent, child |-> e.child, call |-> e.call, turn |-> e.turn,
             agent |-> e.agent, relay |-> e.relay] /\ e.relay = None
    BY <1>3 DEF Grounded
  <2> HIDE DEF eligible, shared
  <2>3. CASE e \in eligible /\ ~shared(e)
    <3>1. d = [e EXCEPT !.relay = RelayId(e)]
      BY <2>1, <2>3
    <3>2. d = [parent |-> e.parent, child |-> e.child, call |-> e.call,
               turn |-> e.turn, agent |-> e.agent, relay |-> RelayId(e)]
      BY <2>2, <3>1
    <3> QED
      BY <2>3, <3>2
  <2>4. CASE ~(e \in eligible /\ ~shared(e))
    BY <2>1, <2>2, <2>4
  <2> QED
    BY <2>3, <2>4
<1>5. ASSUME NEW d \in edges'
      PROVE  \E e \in edges :
               /\ d.parent = e.parent /\ d.child = e.child /\ d.call = e.call
               /\ d.turn = e.turn /\ d.agent = e.agent
               /\ d = [parent |-> d.parent, child |-> d.child, call |-> d.call,
                       turn |-> d.turn, agent |-> d.agent, relay |-> d.relay]
               /\ d.relay # None => e \in eligible /\ ~shared(e) /\ d.relay = RelayId(e)
  <2>1. PICK e \in edges :
               /\ d = [parent |-> e.parent, child |-> e.child, call |-> e.call,
                       turn |-> e.turn, agent |-> e.agent, relay |-> d.relay]
               /\ d.relay # None => e \in eligible /\ ~shared(e) /\ d.relay = RelayId(e)
    BY <1>4
  <2> HIDE DEF eligible, shared
  <2>2. /\ d.parent = e.parent /\ d.child = e.child /\ d.call = e.call
        /\ d.turn = e.turn /\ d.agent = e.agent
    BY <2>1
  <2> QED
    BY <2>1, <2>2
<1>6. Aggregated' /\ Extracted' /\ Bound' /\ \A c : Explained(c) => Explained(c)'
  <2>1. issues \subseteq issues'
    <3> HIDE DEF faulty, doubled, stray
    <3> QED
      BY <1>2
  <2> QED
    BY <1>1, <2>1, Carried
<1>7. ASSUME NEW d \in edges', NEW e \in edges', d.child = e.child PROVE d = e
  <2> HIDE DEF eligible, shared
  <2>1. PICK f \in edges :
          d = IF f \in eligible /\ ~shared(f) THEN [f EXCEPT !.relay = RelayId(f)] ELSE f
    BY <1>2
  <2>2. PICK g \in edges :
          e = IF g \in eligible /\ ~shared(g) THEN [g EXCEPT !.relay = RelayId(g)] ELSE g
    BY <1>2
  <2>3. d.child = f.child /\ e.child = g.child
    <3>1. "child" \in DOMAIN f /\ "child" \in DOMAIN g
      BY <1>3 DEF Grounded
    <3> QED
      BY <2>1, <2>2, <3>1
  <2>4. f = g
    BY <1>7, <2>3 DEF IInv, Proposed, OneParent
  <2> QED
    BY <2>1, <2>2, <2>4
<1>8. Proposed'
  <2>1. ASSUME NEW d \in edges' PROVE Grounded(d)'
    <3>1. PICK e \in edges :
               /\ d.parent = e.parent /\ d.child = e.child /\ d.call = e.call
               /\ d.turn = e.turn /\ d.agent = e.agent
               /\ d = [parent |-> d.parent, child |-> d.child, call |-> d.call,
                       turn |-> d.turn, agent |-> d.agent, relay |-> d.relay]
      BY <1>5
    <3>2. Grounded(e)
      BY <1>3
    <3>3. \A ev : EdgeOf(e, ev) => EdgeOf(d, ev)
      BY <3>1 DEF EdgeOf
    <3>4. Grounded(d)
      BY <3>1, <3>2, <3>3 DEF Grounded
    <3> QED
      BY <1>1, <3>4, SameGround
  <2> QED
    BY <1>7, <2>1 DEF Proposed, OneParent
<1>9. Grouped'
  <2>1. ASSUME NEW d \in edges', NEW e \in edges', d.parent = e.parent, d.call = e.call
        PROVE  d = e
    <3>1. PICK f \in edges : d.parent = f.parent /\ d.call = f.call /\ d.child = f.child
      BY <1>5
    <3>2. PICK g \in edges : e.parent = g.parent /\ e.call = g.call /\ e.child = g.child
      BY <1>5
    <3>3. f = g
      BY <1>1, <2>1, <3>1, <3>2 DEF IInv, Grouped, OneChild
    <3> QED
      BY <1>7, <3>1, <3>2, <3>3
  <2> QED
    BY <2>1 DEF Grouped, OneChild
<1>10. Relayed'
  <2>1. ASSUME NEW e \in edges', e.relay # None
        PROVE  /\ RelayFault(e)' = "attached" /\ RelayId(e)' = e.relay
               /\ \A d \in edges' : d.parent = e.parent /\ d.relay = e.relay => d = e
    <3>1. PICK g \in edges :
               /\ e.parent = g.parent /\ e.child = g.child /\ e.call = g.call
               /\ e.agent = g.agent
               /\ g \in eligible /\ ~shared(g) /\ e.relay = RelayId(g)
      <4> HIDE DEF eligible, shared
      <4> QED
        BY <1>5, <2>1
    <3>2. RelayFault(e) = "attached" /\ RelayId(e) = e.relay
      BY <3>1, SameRelay
    <3>3. RelayFault(e)' = RelayFault(e) /\ RelayId(e)' = RelayId(e)
      BY <1>1, SameRecords
    <3>4. ASSUME NEW d \in edges', d.parent = e.parent, d.relay = e.relay PROVE d = e
      <4>1. PICK f \in edges :
               /\ d.parent = f.parent /\ d.child = f.child
               /\ f \in eligible /\ d.relay = RelayId(f)
        <5> HIDE DEF eligible, shared
        <5> QED
          BY <1>5, <2>1, <3>4
      <4>2. f = g
        BY <3>1, <3>4, <4>1
      <4> QED
        BY <1>7, <3>1, <4>1, <4>2
    <3> QED
      BY <3>2, <3>3, <3>4
  <2> QED
    BY <2>1 DEF Relayed
<1>11. TypeOK'
  <2>1. \A e \in edges' : {e.parent, e.child} \subseteq leaves
    <3> HIDE DEF eligible, shared
    <3> QED
      BY <1>5 DEF IInv, TypeOK
  <2>2. \A i \in faulty \cup doubled \cup stray : i[1] \in leaves
    <3>1. \A i \in faulty : i[1] \in leaves
      BY DEF IInv, TypeOK
    <3>2. \A i \in doubled : i[1] \in leaves
      BY DEF IInv, TypeOK
    <3>3. \A i \in stray : i[1] \in leaves
      OBVIOUS
    <3> HIDE DEF faulty, doubled, stray
    <3> QED
      BY <3>1, <3>2, <3>3
  <2>3. \A i \in issues' : i[1] \in leaves
    <3> HIDE DEF faulty, doubled, stray
    <3> QED
      BY <1>2, <2>2 DEF IInv, TypeOK
  <2> QED
    BY <1>1, <1>3, <2>1, <2>3 DEF IInv, TypeOK
<1>12. Dismissed'
  BY <1>1, <1>6 DEF IInv, Dismissed
<1>13. Unfilled' /\ Settled' /\ Released'
  BY <1>1, <1>3 DEF Unfilled, Settled, Released
<1> QED
  BY <1>6, <1>8, <1>9, <1>10, <1>11, <1>12, <1>13 DEF IInv

LEMMA SettleStep == IInv /\ Settle => IInv'
<1> SUFFICES ASSUME IInv, Settle PROVE IInv'
  OBVIOUS
<1>1. /\ pc = "settle" /\ pc' = "publish"
      /\ UNCHANGED <<captures, leaves, merged, events, parentOf, invalid, published>>
      /\ edges' = {e \in edges : e.parent \in Reached}
      /\ issues' = issues
           \cup {<<l, "unreachable_subagent">> : l \in Subagents \ (Reached \cup invalid)}
           \cup {<<parentOf[e], "unmounted_spawn_call">> :
                    e \in {f \in DOMAIN parentOf : ~Mounted(f)}}
  BY DEF Settle
<1>2. published = {}
  BY <1>1 DEF IInv, Unfilled
<1>3. Reached' = Reached
  <2>1. Cardinality(leaves) \in Nat
    BY <1>1, Represented, AtMostOne DEF IInv
  <2>2. Roots' = Roots
    BY <1>1, SameEvidence
  <2>3. Within(edges', Roots, Cardinality(leaves))[Cardinality(leaves)] = Reached
    BY <1>1, <2>1, GrowthKept DEF Reached, Reach
  <2> QED
    BY <1>1, <2>2, <2>3 DEF Reached, Reach
<1>4. Aggregated' /\ Extracted' /\ Bound' /\ \A c : Explained(c) => Explained(c)'
  BY <1>1, Carried
<1>5. Proposed' /\ Grouped' /\ Relayed'
  <2>1. Proposed' /\ Grouped'
    BY <1>1, SameGround DEF IInv, Proposed, OneParent, Grouped, OneChild
  <2>2. Relayed'
    BY <1>1, SameRecords DEF IInv, Relayed
  <2> QED
    BY <2>1, <2>2
<1>6. Settled'
  <2>1. \A e \in edges' : e.parent \in Reached'
    BY <1>1, <1>3
  <2>2. ASSUME NEW c \in (Subagents \ Reached)' PROVE Explained(c)'
    <3>1. c \in Subagents \ Reached
      BY <1>1, <1>3, SameEvidence
    <3>2. CASE c \in invalid
      BY <1>4, <3>2 DEF IInv, Dismissed
    <3>3. CASE c \notin invalid
      <4>1. <<c, "unreachable_subagent">> \in issues'
        BY <1>1, <3>1, <3>3
      <4> QED
        BY <4>1 DEF Explained
    <3> QED
      BY <3>2, <3>3
  <2>3. ASSUME NEW ev \in DOMAIN parentOf' PROVE MountedOrMarked(ev)'
    <3>1. Mounted(ev) => Mounted(ev)'
      BY <1>1, <1>3 DEF Mounted
    <3>2. ~Mounted(ev) => <<parentOf[ev], "unmounted_spawn_call">> \in issues'
      BY <1>1, <2>3
    <3> QED
      BY <1>1, <3>1, <3>2 DEF MountedOrMarked
  <2> QED
    BY <2>1, <2>2, <2>3 DEF Settled
<1>7. \A ev \in DOMAIN parentOf : parentOf[ev] \in leaves
  BY <1>1, HeldByOne DEF IInv
<1>8. TypeOK'
  <2>1. \A i \in issues' : i[1] \in leaves
    <3>1. \A i \in issues' : \/ i \in issues
                             \/ \E l \in Subagents : i[1] = l
                             \/ \E ev \in DOMAIN parentOf : i[1] = parentOf[ev]
      BY <1>1
    <3> QED
      BY <1>7, <3>1 DEF IInv, TypeOK, Subagents
  <2> QED
    BY <1>1, <1>2, <2>1 DEF IInv, TypeOK
<1>9. Dismissed'
  BY <1>1, <1>4 DEF IInv, Dismissed
<1>10. Unfilled' /\ Released'
  BY <1>1, <1>2 DEF Unfilled, Released
<1> QED
  BY <1>4, <1>5, <1>6, <1>8, <1>9, <1>10 DEF IInv

(* What is printed of a leaf depends on the plan alone.                    *)
LEMMA SameOutput ==
  ASSUME UNCHANGED <<captures, leaves, merged, plan>>
  PROVE  /\ Reached' = Reached /\ Printed' = Printed
         /\ \A l : Output(l)' = Output(l)
<1>1. UNCHANGED <<captures, leaves, merged, events, parentOf, issues, invalid, edges>>
  BY DEF plan
<1>2. Subagents' = Subagents /\ Roots' = Roots
  BY <1>1, SameEvidence
<1>3. Reached' = Reached /\ Printed' = Printed
  <2>1. Reached' = Reached
    BY <1>1, <1>2 DEF Reached, Reach
  <2> QED
    BY <1>2, <2>1 DEF Printed
<1>4. \A l : Mounts(l)' = Mounts(l)
  <2>1. \A l, call : ChildAt(l, call)' = ChildAt(l, call)
    BY <1>1 DEF ChildAt
  <2> QED
    BY <1>1, <2>1 DEF Mounts
<1>5. ASSUME NEW l PROVE Tree(l)' = Tree(l)
  <2> DEFINE E == {e \in edges : Mounts(e.parent)[e.call] = e.child}
  <2>1. E' = E
    BY <1>1, <1>4
  <2>2. Tree(l) = Within(E, {l}, Cardinality(leaves))[Cardinality(leaves)]
    BY DEF Tree, Reach
  <2>3. Tree(l)' = Within(E', {l}, Cardinality(leaves'))[Cardinality(leaves')]
    BY DEF Tree, Reach
  <2> QED
    BY <1>1, <2>1, <2>2, <2>3
<1>6. \A l : RelaysOf(l)' = RelaysOf(l)
  <2>1. \A l : Records(l)' = Records(l)
    BY <1>1 DEF Records
  <2>2. \A l, id : LocalCopies(l, id)' = LocalCopies(l, id)
    BY <2>1 DEF LocalCopies
  <2> QED
    BY <1>1, <2>2 DEF RelaysOf
<1>7. \A l : Codes(l)' = Codes(l)
  BY <1>1, <1>6 DEF Codes
<1>8. \A l : Complete(l)' <=> Complete(l)
  BY <1>4, <1>7 DEF Complete
<1>9. \A l : Passes(l)' <=> Passes(l)
  BY <1>2, <1>5, <1>7, <1>8 DEF Passes
<1>10. ASSUME NEW l PROVE Output(l)' = Output(l)
  BY <1>2, <1>5, <1>6, <1>9 DEF Output
<1> QED
  BY <1>3, <1>10

(* A step that only prints changes nothing of the plan.                    *)
LEMMA PlanStays ==
  ASSUME IInv, UNCHANGED <<captures, leaves, merged, plan>>,
         pc = "publish", pc' \in {"publish", "done"}
  PROVE  /\ Aggregated' /\ Unfilled' /\ Extracted' /\ Bound' /\ Dismissed'
         /\ Proposed' /\ Grouped' /\ Relayed' /\ Settled'
<1>1. UNCHANGED <<captures, leaves, merged, events, parentOf, issues, invalid, edges>>
  BY DEF plan
<1>2. Aggregated' /\ Extracted' /\ Bound' /\ \A c : Explained(c) => Explained(c)'
  BY <1>1, Carried
<1>3. Proposed' /\ Grouped'
  BY <1>1, SameGround DEF IInv, Proposed, OneParent, Grouped, OneChild
<1>4. Relayed'
  BY <1>1, SameRecords DEF IInv, Relayed
<1>5. Settled'
  <2>1. Subagents' = Subagents /\ Reached' = Reached
    BY <1>1, SameEvidence, SameOutput
  <2>2. \A ev : Mounted(ev)' <=> Mounted(ev)
    BY <1>1, <2>1 DEF Mounted
  <2>3. \A ev : MountedOrMarked(ev)' <=> MountedOrMarked(ev)
    BY <1>1, <2>2 DEF MountedOrMarked
  <2> QED
    BY <1>1, <1>2, <2>1, <2>3 DEF IInv, Settled
<1>6. Unfilled' /\ Dismissed'
  BY <1>1, <1>2 DEF IInv, Unfilled, Dismissed
<1> QED
  BY <1>2, <1>3, <1>4, <1>5, <1>6

LEMMA PublishStep == ASSUME IInv, NEW l \in leaves, Publish(l) PROVE IInv'
<1>1. /\ pc = "publish" /\ pc' = "publish" /\ l \in Printed
      /\ published' = published \cup {Output(l)}
      /\ UNCHANGED <<captures, leaves, merged, plan>>
  BY DEF Publish, Printed
<1>2. UNCHANGED <<captures, leaves, merged, events, parentOf, issues, invalid, edges>>
  BY <1>1 DEF plan
<1>3. Output(l).root = l
  BY DEF Output
<1>4. TypeOK'
  BY <1>1, <1>2, <1>3 DEF IInv, TypeOK
<1>5. Released'
  <2>1. Printed' = Printed /\ \A k : Output(k)' = Output(k)
    BY <1>1, SameOutput
  <2>2. \A p \in published' : \E k \in Printed : p = Output(k)
    BY <1>1 DEF IInv, Released
  <2> QED
    BY <1>1, <2>1, <2>2 DEF Released
<1> QED
  BY <1>1, <1>4, <1>5, PlanStays DEF IInv

LEMMA FinishStep == IInv /\ Finish => IInv'
<1> SUFFICES ASSUME IInv, Finish PROVE IInv'
  OBVIOUS
<1>1. /\ pc = "publish" /\ pc' = "done" /\ published' = published
      /\ Printed = {p.root : p \in published}
      /\ UNCHANGED <<captures, leaves, merged, plan>>
  BY DEF Finish, Printed
<1>2. UNCHANGED <<captures, leaves, merged, events, parentOf, issues, invalid, edges>>
  BY <1>1 DEF plan
<1>3. TypeOK'
  BY <1>1, <1>2 DEF IInv, TypeOK
<1>4. Released'
  <2>1. Printed' = Printed /\ \A k : Output(k)' = Output(k)
    BY <1>1, SameOutput
  <2>2. \A p \in published : \E k \in Printed : p = Output(k)
    BY DEF IInv, Released
  <2>3. \A k : Output(k).root = k
    BY DEF Output
  <2>4. \A k \in Printed : Output(k) \in published
    BY <1>1, <2>2, <2>3
  <2> QED
    BY <1>1, <2>1, <2>2, <2>4 DEF Released
<1> QED
  BY <1>1, <1>3, <1>4, PlanStays DEF IInv

(* The invariant holds in every reachable state.                           *)
THEOREM Inductive == Spec => []IInv
<1>1. IInv /\ [Next]_vars => IInv'
  <2> SUFFICES ASSUME IInv, [Next]_vars PROVE IInv'
    OBVIOUS
  <2>1. CASE UNCHANGED vars
    <3>1. /\ UNCHANGED <<captures, leaves, merged, plan>>
          /\ UNCHANGED <<captures, leaves, merged, events, parentOf, issues, invalid, edges>>
          /\ pc' = pc /\ published' = published
      BY <2>1 DEF vars, plan
    <3>2. TypeOK' /\ Unfilled'
      BY <3>1 DEF IInv, TypeOK, Unfilled
    <3>3. Aggregated' /\ Proposed' /\ Grouped' /\ Relayed'
      BY <3>1, SameEvidence, SameGround, SameRecords
      DEF IInv, Aggregated, Proposed, OneParent, Grouped, OneChild, Relayed
    <3>4. /\ Usable' = Usable /\ Occurrences' = Occurrences /\ Events' = Events
          /\ \A o : TasksOf(Key(o))' = TasksOf(Key(o))
          /\ \A e : Holders(e)' = Holders(e)
          /\ Subagents' = Subagents /\ Reached' = Reached /\ Printed' = Printed
          /\ \A l : Output(l)' = Output(l)
          /\ \A c : Claimed(c)' = Claimed(c)
      BY <3>1, SameEvidence, SameEvents, SameCandidates, SameOutput
    <3>5. \A o, l : Unheard(o, l)' <=> Unheard(o, l)
      BY <3>1, <3>4 DEF Unheard
    <3>6. Extracted'
      BY <3>1, <3>4, <3>5 DEF IInv, Extracted
    <3>7. Bound'
      BY <3>1, <3>4 DEF IInv, Bound
    <3>8. \A c : Explained(c)' <=> Explained(c)
      BY <3>1, <3>4 DEF Explained
    <3>9. \A ev : MountedOrMarked(ev)' <=> MountedOrMarked(ev)
      BY <3>1, <3>4 DEF MountedOrMarked, Mounted
    <3>10. Dismissed' /\ Settled' /\ Released'
      BY <3>1, <3>4, <3>8, <3>9 DEF IInv, Dismissed, Settled, Released
    <3> QED
      BY <3>2, <3>3, <3>6, <3>7, <3>10 DEF IInv
  <2> QED
    BY <2>1, AggregateStep, ExtractStep, BindStep, LinkStep, ProposeStep, GroupStep,
       CyclesStep, RelayStep, SettleStep, PublishStep, FinishStep DEF Next
<1> QED
  BY <1>1, Starts, PTL DEF Spec

-----------------------------------------------------------------------------
(* What is printed                                                         *)

(* The dictionary of a leaf's children drops none of them.                 *)
LEMMA ChildrenKept ==
  ASSUME IInv, pc \in {"publish", "done"}
  PROVE  /\ \A e \in edges : /\ e.call \in DOMAIN Mounts(e.parent)
                             /\ Mounts(e.parent)[e.call] = e.child
         /\ \A l : \A call \in DOMAIN Mounts(l) :
              \E e \in edges : e.parent = l /\ e.call = call /\ Mounts(l)[call] = e.child
         /\ \A l : Tree(l) = Reach(edges, {l})
<1>1. OneChild /\ \A e \in edges : e.child \in leaves
  BY DEF IInv, Grouped, TypeOK
<1>2. leaves \subseteq Captures
  BY Represented, SessionTypes DEF IInv, Aggregated
<1>3. ASSUME NEW e \in edges PROVE ChildAt(e.parent, e.call) = e.child
  <2> DEFINE Is(c) ==
        /\ \E d \in edges : d.parent = e.parent /\ d.call = e.call /\ d.child = c
        /\ \A d \in edges : d.parent = e.parent /\ d.call = e.call => d.child.source <= c.source
  <2>1. \A d \in edges : d.parent = e.parent /\ d.call = e.call => d = e
    BY <1>1 DEF OneChild
  <2>2. e.child \in leaves /\ e.child.source \in Nat
    BY <1>1, <1>2, CaptureTypes
  <2>3. \A c \in leaves : Is(c) <=> c = e.child
    BY <2>1, <2>2
  <2>4. ChildAt(e.parent, e.call) = CHOOSE c \in leaves : Is(c)
    BY DEF ChildAt
  <2> HIDE DEF Is
  <2> QED
    BY <2>2, <2>3, <2>4
<1>4. \A e \in edges : /\ e.call \in DOMAIN Mounts(e.parent)
                       /\ Mounts(e.parent)[e.call] = e.child
  BY <1>3 DEF Mounts
<1>5. ASSUME NEW l, NEW call \in DOMAIN Mounts(l)
      PROVE  \E e \in edges : e.parent = l /\ e.call = call /\ Mounts(l)[call] = e.child
  <2>1. PICK e \in edges : e.parent = l /\ e.call = call
    BY DEF Mounts
  <2> QED
    BY <1>4, <2>1
<1>6. ASSUME NEW l PROVE Tree(l) = Reach(edges, {l})
  <2>1. {e \in edges : Mounts(e.parent)[e.call] = e.child} = edges
    BY <1>4
  <2> QED
    BY <2>1 DEF Tree
<1> QED
  BY <1>4, <1>5, <1>6

(* The trees of the main leaves are all that is reached, and disjoint.     *)
LEMMA TreesPartition ==
  ASSUME IInv, pc \in {"publish", "done"}
  PROVE  /\ Reached = UNION {Tree(r) : r \in Roots}
         /\ \A r, s \in Roots : \A l \in Tree(r) \cap Tree(s) : r = s
         /\ \A r \in leaves : Tree(r) \subseteq leaves
         /\ Roots \subseteq Reached
<1> DEFINE N == Cardinality(leaves)
<1>1. N \in Nat
  BY Represented, AtMostOne DEF IInv
<1>2. \A l : Tree(l) = Within(edges, {l}, N)[N]
  BY ChildrenKept DEF Reach
<1>3. Reached = UNION {Tree(r) : r \in Roots}
  <2>1. Reached = Within(edges, Roots, N)[N]
    BY DEF Reached, Reach
  <2> HIDE DEF N
  <2>2. Within(edges, Roots, N)[N] = UNION {Within(edges, {r}, N)[N] : r \in Roots}
    BY <1>1, GrowthSplits
  <2> QED
    BY <1>2, <2>1, <2>2
<1>4. \A e \in edges : e.child \in Subagents /\ e.child \in leaves
  BY DEF IInv, Proposed, Grounded, Subagents
<1>5. ASSUME NEW r \in Roots, NEW s \in Roots, NEW l \in Tree(r) \cap Tree(s)
      PROVE  r = s
  <2>1. \A e \in edges : e.child # r /\ e.child # s
    BY <1>4 DEF Roots
  <2>2. \A d, e \in edges : d.child = e.child => d = e
    BY DEF IInv, Proposed, OneParent
  <2>3. l \in Within(edges, {r}, N)[N] /\ l \in Within(edges, {s}, N)[N]
    BY <1>2, <1>5
  <2> HIDE DEF N
  <2> QED
    BY <1>1, <2>1, <2>2, <2>3, GrowthsApart
<1>6. ASSUME NEW r \in leaves PROVE Tree(r) \subseteq leaves
  <2>1. Grows(Within(edges, {r}, N), edges, {r}, N)
    BY <1>1, WithinGrows
  <2>2. N \in 0 .. N
    BY <1>1
  <2> HIDE DEF N
  <2>3. \A l \in Within(edges, {r}, N)[N] : l \in {r} \/ \E e \in edges : e.child = l
    BY <1>1, <2>1, <2>2, GrowthSource
  <2> QED
    BY <1>2, <1>4, <1>6, <2>3
<1>7. Roots \subseteq Reached
  <2>1. Grows(Within(edges, Roots, N), edges, Roots, N) /\ 0 \in 0 .. N
    BY <1>1, WithinGrows
  <2> HIDE DEF N
  <2>2. Within(edges, Roots, N)[0] \subseteq Within(edges, Roots, N)[N]
    BY <1>1, <2>1, GrowthMonotone
  <2>3. Within(edges, Roots, N)[0] = Roots
    BY <2>1 DEF Grows
  <2> QED
    BY <2>2, <2>3 DEF Reached, Reach, N
<1> QED
  BY <1>3, <1>5, <1>6, <1>7

(* A leaf is printed as a member of itself or of the tree of a main leaf.  *)
LEMMA MembersPrinted ==
  ASSUME IInv, NEW p \in published
  PROVE  /\ pc \in {"publish", "done"} /\ p.root \in Printed /\ p = Output(p.root)
         /\ p.orphan = (p.root \notin Roots)
         /\ p.members = IF p.root \in Roots THEN Tree(p.root) ELSE {p.root}
         /\ p.members \subseteq leaves
<1>1. pc \in {"publish", "done"}
  BY DEF IInv, Unfilled
<1>2. PICK l \in Printed : p = Output(l)
  BY DEF IInv, Released
<1>3. /\ p.root = l /\ p.orphan = (l \notin Roots)
      /\ p.members = IF l \in Roots THEN Tree(l) ELSE {l}
  BY <1>2 DEF Output
<1>4. l \in leaves
  BY DEF Printed, Roots, Subagents
<1>5. p.members \subseteq leaves
  BY <1>1, <1>3, <1>4, TreesPartition
<1> QED
  BY <1>1, <1>2, <1>3, <1>5

LEMMA Accounts == IInv => EveryLeafAccounted
<1> SUFFICES ASSUME IInv PROVE EveryLeafAccounted
  OBVIOUS
<1>1. TypeOK
  BY DEF IInv
<1> SUFFICES ASSUME pc = "done"
             PROVE  /\ UNION {merged[l] : l \in leaves} = Leaves(captures)
                    /\ \A l \in leaves : Cardinality({p \in published : l \in p.members}) = 1
                    /\ \A p \in {q \in published : q.orphan} :
                         \/ p.root \in {i[1] : i \in issues}
                         \/ \E e \in Claimed(p.root) : e \notin DOMAIN parentOf
  BY <1>1 DEF EveryLeafAccounted
<1>2. UNION {merged[l] : l \in leaves} = Leaves(captures)
  <2>1. \A l \in leaves : merged[l] \subseteq Leaves(captures)
    BY Represented, AlikeAgree DEF IInv
  <2>2. \A m \in Leaves(captures) : \E l \in leaves : m \in merged[l]
    BY Represented DEF IInv
  <2> QED
    BY <2>1, <2>2
<1>3. ASSUME NEW l \in leaves
      PROVE  \E r \in Printed : \A k \in Printed : l \in Output(k).members <=> k = r
  <2>1. \A k : Output(k).members = IF k \in Roots THEN Tree(k) ELSE {k}
    BY DEF Output
  <2>2. CASE l \in Reached
    <3>1. PICK r \in Roots : l \in Tree(r)
      BY <2>2, TreesPartition
    <3>2. ASSUME NEW k \in Printed, l \in Output(k).members PROVE k = r
      <4>1. CASE k \in Roots
        BY <2>1, <3>1, <3>2, <4>1, TreesPartition
      <4>2. CASE k \notin Roots
        BY <2>1, <2>2, <3>2, <4>2 DEF Printed
      <4> QED
        BY <4>1, <4>2
    <3>3. l \in Output(r).members /\ r \in Printed
      BY <2>1, <3>1 DEF Printed
    <3> QED
      BY <3>2, <3>3
  <2>3. CASE l \notin Reached
    <3>1. l \notin Roots /\ l \in Printed
      BY <2>3, TreesPartition DEF Roots, Printed
    <3>2. l \in Output(l).members
      BY <2>1, <3>1
    <3>3. ASSUME NEW k \in Printed, l \in Output(k).members PROVE k = l
      <4>1. k \notin Roots
        BY <2>1, <2>3, <3>3, TreesPartition
      <4>2. Output(k).members = {k}
        BY <2>1, <4>1
      <4> QED
        BY <3>3, <4>2
    <3> QED
      BY <3>1, <3>2, <3>3
  <2> QED
    BY <2>2, <2>3
<1>4. ASSUME NEW l \in leaves
      PROVE  Cardinality({p \in published : l \in p.members}) = 1
  <2>1. PICK r \in Printed : \A k \in Printed : l \in Output(k).members <=> k = r
    BY <1>3
  <2>2. \A p \in published : \E k \in Printed : p = Output(k)
    BY DEF IInv, Released
  <2>3. Output(r) \in published
    BY DEF IInv, Released
  <2>4. {p \in published : l \in p.members} = {Output(r)}
    BY <2>1, <2>2, <2>3
  <2> QED
    BY <2>4, FS_Singleton
<1>5. ASSUME NEW p \in published, p.orphan PROVE Explained(p.root)
  <2>1. p.root \in Printed /\ p.root \notin Roots
    BY <1>5, MembersPrinted
  <2> QED
    BY <2>1 DEF IInv, Settled, Printed
<1> QED
  BY <1>2, <1>4, <1>5 DEF Explained

(* No session loses a capture, prints one twice, or leaves an orphan       *)
(* without a reason.                                                       *)
THEOREM NoLeafLost == Spec => []EveryLeafAccounted
BY Accounts, Inductive, PTL

-----------------------------------------------------------------------------
(* What a mount and a relay rest on                                        *)

(* An event is one captured call, of which one task is known and whose     *)
(* results give it one name or none.                                       *)
LEMMA EventFacts ==
  ASSUME Aggregated, pc # "aggregate", NEW ev \in Events
  PROVE  /\ ev = Event(<<ev.thread, ev.turn, ev.call>>)
         /\ \E o \in Usable : /\ o.in.thread = ev.thread /\ o.in.turn = ev.turn
                              /\ o.call.id = ev.call /\ Task(o.call) = ev.task
         /\ ev.agent # <<>> => ResultNames(ev.thread, ev.call) = {ev.agent}
         /\ Cardinality(ResultNames(ev.thread, ev.call)) = 1 =>
              ResultNames(ev.thread, ev.call) = {ev.agent} /\ ~ev.conflicted
<1>1. PICK key \in Agreed : ev = Event(key)
  BY DEF Events
<1>2. PICK o \in Usable : key = Key(o)
  BY DEF Agreed
<1> DEFINE names == ResultNames(key[1], key[3])
<1>3. /\ key = <<o.in.thread, o.in.turn, o.call.id>>
      /\ key[1] = o.in.thread /\ key[2] = o.in.turn /\ key[3] = o.call.id
  BY <1>2 DEF Key
<1>4. /\ ev.thread = key[1] /\ ev.turn = key[2] /\ ev.call = key[3]
      /\ ev.task = CHOOSE t \in TasksOf(key) : TRUE
      /\ ev.agent = IF Cardinality(names) = 1 THEN CHOOSE n \in names : TRUE ELSE <<>>
      /\ ev.conflicted = (Cardinality(names) > 1)
  BY <1>1 DEF Event
<1>5. Task(o.call) = ev.task
  <2>1. Cardinality(TasksOf(key)) = 1 /\ IsFiniteSet(TasksOf(key))
    BY FiniteEvents DEF Agreed
  <2>2. Task(o.call) \in TasksOf(key)
    BY <1>2 DEF TasksOf
  <2>3. PICK t : TasksOf(key) = {t}
    BY <2>1, AtMostOne
  <2> QED
    BY <1>4, <2>2, <2>3
<1>6. Cardinality(names) = 1 => names = {ev.agent} /\ ~ev.conflicted
  <2> SUFFICES ASSUME Cardinality(names) = 1 PROVE names = {ev.agent} /\ ~ev.conflicted
    OBVIOUS
  <2>1. \E n : names = {n}
    <3>1. IsFiniteSet(names)
      BY FiniteResults
    <3> HIDE DEF names
    <3> QED
      BY <3>1, AtMostOne
  <2>2. ~(Cardinality(names) > 1)
    OBVIOUS
  <2>3. ~ev.conflicted
    BY <1>4, <2>2, Zenon
  <2> HIDE DEF names
  <2>4. ev.agent \in names
    BY <1>4, <2>1
  <2> QED
    BY <2>1, <2>3, <2>4, Zenon
<1>7. ev.agent # <<>> => Cardinality(names) = 1
  BY <1>4
<1>8. key = <<ev.thread, ev.turn, ev.call>> /\ names = ResultNames(ev.thread, ev.call)
  BY <1>3, <1>4
<1> HIDE DEF names
<1> QED
  BY <1>1, <1>3, <1>4, <1>5, <1>6, <1>7, <1>8

(* Only the holder of an event repeats the captured call, unless the       *)
(* capture has no session.                                                 *)
LEMMA CallHeld ==
  ASSUME IInv, pc \in {"publish", "done"}, NEW ev \in DOMAIN parentOf,
         NEW o \in Usable, o.in.thread = ev.thread, o.call.id = ev.call,
         Task(o.call) = ev.task
  PROVE  LET l == parentOf[ev]
             holders == {d \in LeavesOf(l.thread) : o.call \in Range(Full(d))}
         IN \/ holders = {l}
            \/ holders = {} /\ l.session = Missing /\ ev.call \in SpawnIds(l)
<1> DEFINE l == parentOf[ev]
           holders == {d \in LeavesOf(l.thread) : o.call \in Range(Full(d))}
<1>1. Holders(ev) = {l} /\ l \in leaves /\ l.thread = ev.thread
  BY HeldByOne DEF IInv
<1>2. o \in Occurrences /\ o.in \in Evidence /\ o.call \in Spawns(o.in.response)
  BY DEF Usable, Occurrences
<1>3. o.call.kind = "spawn" /\ (o.call.args = Malformed \/ o.call.args = ev.task)
  BY <1>2 DEF Spawns, Task
<1>4. holders \subseteq {l}
  <2>1. ASSUME NEW d \in holders PROVE d \in Holders(ev)
    <3>1. d \in LeavesOf(ev.thread) /\ o.call \in Spawns(Full(d))
      BY <1>1, <1>3, <2>1 DEF Spawns
    <3> QED
      BY <1>3, <3>1 DEF Holders
  <2> QED
    BY <1>1, <2>1
<1>5. CASE l.session = Missing
  <2>1. ev.call \in SpawnIds(l)
    BY <1>1 DEF Holders, SpawnIds
  <2> QED
    BY <1>4, <1>5, <2>1
<1>6. CASE l.session # Missing
  <2>1. Evidence \subseteq captures /\ captures \subseteq Captures /\ l \in captures
        /\ \A c, d \in captures : c.session = d.session
    BY <1>1, EvidenceCaptured, SessionTypes, Represented DEF IInv, Aggregated
  <2>2. o.in \in captures /\ o.in.session # Missing
    BY <1>2, <1>6, <2>1
  <2>3. o.call \in Range(Full(o.in))
    BY <1>2, <2>1, <2>2, Messages DEF Spawns
  <2>4. PICK d \in leaves : d.thread = o.in.thread /\ o.call \in Range(Full(d))
    BY <2>2, <2>3, Repeats DEF IInv
  <2>5. d \in holders
    BY <1>1, <2>4 DEF LeavesOf
  <2> QED
    BY <1>4, <2>5
<1> QED
  BY <1>5, <1>6

(* The name that a call's results give is the child's own.                 *)
LEMMA NameAgreed ==
  ASSUME IInv, pc \in {"publish", "done"}, NEW e \in edges, NEW ev \in events,
         EdgeOf(e, ev), Cardinality(ResultNames(ev.thread, ev.call)) = 1
  PROVE  Recipients(e.child.thread) \subseteq ResultNames(ev.thread, ev.call)
<1> DEFINE names == ResultNames(ev.thread, ev.call)
           own == Recipients(e.child.thread)
           n == CHOOSE x \in own : TRUE
<1> SUFFICES ASSUME own # {} PROVE own \subseteq names
  OBVIOUS
<1>1. names = {ev.agent} /\ ~ev.conflicted /\ ev.agent # <<>>
  BY EventFacts, FiniteResults DEF IInv, Extracted
<1>2. /\ Refusal(e.child) = {} /\ ev \in Candidates(e.child)
      /\ ev \in Routed(e.child)
  BY CandidatesClaimed DEF IInv, Proposed, Grounded, EdgeOf
<1>3. /\ IsFiniteSet(Routed(e.child)) /\ \A x, y \in own : x = y
  BY <1>2, NotRefused DEF IInv
<1>4. ~(Cardinality(Routed(e.child)) = 1 /\ \E d \in Routed(e.child) : d.conflicted)
  <2> SUFFICES ASSUME Cardinality(Routed(e.child)) = 1,
                      NEW d \in Routed(e.child), d.conflicted
               PROVE  FALSE
    OBVIOUS
  <2>1. d = ev
    BY <1>2, <1>3, AtMostOne
  <2> QED
    BY <1>1, <2>1
<1>5. ev \in Addressed(Routed(e.child), n)
  BY <1>2, <1>4 DEF Candidates
<1>6. ev.agent = n
  BY <1>1, <1>5 DEF Addressed
<1>7. n \in own
  OBVIOUS
<1> QED
  BY <1>1, <1>3, <1>6, <1>7

LEMMA Proves == IInv => MountsProven
<1> SUFFICES ASSUME IInv PROVE MountsProven
  OBVIOUS
<1> SUFFICES ASSUME NEW l \in Members, NEW call \in DOMAIN Mounts(l)
             PROVE  LET c == Mounts(l)[call]
                        names == ResultNames(l.thread, call)
                    IN /\ c.link.thread = l.thread
                       /\ \E k \in captures : \E m \in Spawns(k.response) :
                            /\ k.thread = l.thread /\ k.turn = c.link.turn /\ m.id = call
                            /\ LET holders == {d \in LeavesOf(l.thread) : m \in Range(Full(d))}
                               IN \/ holders = {l}
                                  \/ holders = {} /\ l.session = Missing /\ call \in SpawnIds(l)
                            /\ c.marker.call \in {None, call}
                            /\ c.marker.task \in {None, Task(m)}
                       /\ Cardinality(names) = 1 => Recipients(c.thread) \subseteq names
  BY DEF MountsProven
<1>1. pc \in {"publish", "done"}
  BY MembersPrinted DEF Members
<1>2. PICK e \in edges : e.parent = l /\ e.call = call /\ Mounts(l)[call] = e.child
  BY <1>1, ChildrenKept
<1>3. PICK ev \in events : EdgeOf(e, ev)
  BY DEF IInv, Proposed, Grounded
<1>4. /\ ev \in DOMAIN parentOf /\ parentOf[ev] = l /\ l.thread = ev.thread /\ ev.call = call
  BY <1>1, <1>2, <1>3, HeldByOne DEF EdgeOf, IInv
<1>5. /\ ev \in Routed(e.child)
      /\ ev.thread = e.child.link.thread /\ ev.turn = e.child.link.turn
      /\ e.child.marker.call \in {None, ev.call} /\ e.child.marker.task \in {None, ev.task}
  BY <1>3, CandidatesClaimed DEF EdgeOf
<1>6. PICK o \in Usable : /\ o.in.thread = ev.thread /\ o.in.turn = ev.turn
                          /\ o.call.id = ev.call /\ Task(o.call) = ev.task
  BY <1>1, EventFacts DEF IInv, Extracted
<1>7. o.in \in captures /\ o.call \in Spawns(o.in.response)
  BY <1>1, EvidenceCaptured DEF Usable, Occurrences, IInv
<1>8. LET holders == {d \in LeavesOf(l.thread) : o.call \in Range(Full(d))}
      IN \/ holders = {l}
         \/ holders = {} /\ l.session = Missing /\ call \in SpawnIds(l)
  BY <1>1, <1>4, <1>6, CallHeld
<1>9. Cardinality(ResultNames(l.thread, call)) = 1 =>
        Recipients(e.child.thread) \subseteq ResultNames(l.thread, call)
  BY <1>1, <1>3, <1>4, NameAgreed
<1> QED
  BY <1>2, <1>4, <1>5, <1>6, <1>7, <1>8, <1>9

(* No child is mounted on a guess: a captured call names it, one leaf only *)
(* holds the call, and neither marker nor messages say otherwise.          *)
THEOREM NothingGuessed == Spec => []MountsProven
BY Proves, Inductive, PTL

(* A captured call of one known task is the event of its thread, turn and  *)
(* id.                                                                     *)
LEMMA EventOfCall ==
  ASSUME Aggregated, pc # "aggregate", NEW o \in Usable,
         ~(Cardinality(TasksOf(Key(o))) > 1)
  PROVE  \E ev \in Events : /\ ev.thread = o.in.thread /\ ev.turn = o.in.turn
                            /\ ev.call = o.call.id /\ ev.task = Task(o.call)
<1> DEFINE key == Key(o)
<1>1. IsFiniteSet(TasksOf(key)) /\ Task(o.call) \in TasksOf(key)
  BY FiniteEvents DEF TasksOf
<1>2. Cardinality(TasksOf(key)) = 1
  BY <1>1, AtMostOne
<1>3. Event(key) \in Events
  BY <1>2 DEF Events, Agreed
<1>4. key[1] = o.in.thread /\ key[2] = o.in.turn /\ key[3] = o.call.id
  BY DEF Key
<1>5. PICK t : TasksOf(key) = {t}
  BY <1>1, <1>2, AtMostOne
<1>6. /\ Event(key).thread = key[1] /\ Event(key).turn = key[2] /\ Event(key).call = key[3]
      /\ Event(key).task = t
  BY <1>5 DEF Event
<1> HIDE DEF key
<1> QED
  BY <1>1, <1>3, <1>4, <1>5, <1>6

(* An incomplete mount shows in a diagnostic that is not of a message.     *)
LEMMA NotMarked ==
  ASSUME NEW n, Complete(n), NEW code, code \notin Relay
  PROVE  <<n, code>> \notin issues
<1> SUFFICES ASSUME <<n, code>> \in issues PROVE code \in Relay
  OBVIOUS
<1>1. <<n, code>>[1] = n /\ <<n, code>>[2] = code
  OBVIOUS
<1>2. code \in {i[2] : i \in {j \in issues : j[1] = n}}
  BY <1>1
<1>3. code \in Codes(n)
  BY <1>2 DEF Codes
<1> QED
  BY <1>3 DEF Complete

(* What a complete leaf repeats of a captured call of its thread is an     *)
(* event that it alone holds.                                              *)
LEMMA CompleteHolds ==
  ASSUME IInv, pc \in {"publish", "done"}, NEW n \in leaves, Complete(n),
         NEW k \in captures, k.thread = n.thread,
         NEW m \in Spawns(k.response), m \in Range(Full(n))
  PROVE  \E ev \in DOMAIN parentOf : /\ parentOf[ev] = n /\ ev.thread = n.thread
                                     /\ ev.turn = k.turn /\ ev.call = m.id
<1> DEFINE o == [in |-> k, call |-> m]
<1>1. o \in Occurrences /\ o.in = k /\ o.call = m
  <2>1. k \in Evidence
    BY DEF Evidence
  <2>2. Occurrences = UNION {{[in |-> c, call |-> x] : x \in Spawns(c.response)} : c \in Evidence}
    BY DEF Occurrences
  <2>3. o \in {[in |-> k, call |-> x] : x \in Spawns(k.response)}
    OBVIOUS
  <2> QED
    BY <2>1, <2>2, <2>3
<1>2. m \in Spawns(Full(n))
  BY DEF Spawns
<1>3. Applies(n, k.thread, k.turn, m)
  BY <1>2 DEF Applies
<1> HIDE DEF o
<1>4. Unheard(o, n)
  BY <1>1, <1>3 DEF IInv, Extracted
<1>5. /\ <<n, "spawn_missing_turn_id">> \notin issues
      /\ <<n, "spawn_missing_call_id">> \notin issues
      /\ <<n, "conflicting_spawn_evidence">> \notin issues
      /\ <<n, "ambiguous_parent_leaf">> \notin issues
  BY NotMarked DEF Relay
<1>6. o \in Usable /\ ~(Cardinality(TasksOf(Key(o))) > 1)
  <2>1. o \in Usable
    BY <1>1, <1>4, <1>5 DEF Unheard, Usable
  <2> QED
    BY <1>4, <1>5, <2>1 DEF Unheard
<1>7. PICK ev \in Events : /\ ev.thread = k.thread /\ ev.turn = k.turn
                           /\ ev.call = m.id /\ ev.task = Task(m)
  BY <1>1, <1>6, EventOfCall DEF IInv
<1>8. ev \in events
  BY DEF IInv, Extracted
<1>9. n \in Holders(ev)
  BY <1>2, <1>7 DEF Holders, LeavesOf, Task
<1>10. Cardinality(Holders(ev)) = 1
  <2>1. IsFiniteSet(Holders(ev))
    <3>1. Holders(ev) \subseteq leaves
      BY DEF Holders, LeavesOf
    <3> QED
      BY <3>1, Represented, FS_Subset DEF IInv
  <2>2. ~(Cardinality(Holders(ev)) > 1)
    BY <1>5, <1>8, <1>9 DEF IInv, Bound
  <2> QED
    BY <1>9, <2>1, <2>2, AtMostOne
<1>11. ev \in DOMAIN parentOf
  BY <1>8, <1>10 DEF IInv, Bound
<1>12. parentOf[ev] = n
  BY <1>9, <1>11, HeldByOne DEF IInv
<1> QED
  BY <1>7, <1>11, <1>12

(* An event that is mounted is mounted in its holder.                      *)
LEMMA MountedInHolder ==
  ASSUME IInv, pc \in {"publish", "done"}, NEW ev \in DOMAIN parentOf, Mounted(ev)
  PROVE  /\ ev.call \in DOMAIN Mounts(parentOf[ev])
         /\ Mounts(parentOf[ev])[ev.call].link.turn = ev.turn
<1>1. PICK d \in edges : /\ d.parent.thread = ev.thread
                         /\ d.turn = ev.turn /\ d.call = ev.call
  BY DEF Mounted
<1>2. PICK x \in events : EdgeOf(d, x)
  BY DEF IInv, Proposed, Grounded
<1>3. /\ x \in DOMAIN parentOf /\ parentOf[x] = d.parent /\ x.thread = ev.thread
      /\ x.turn = ev.turn /\ x.call = ev.call
  BY <1>1, <1>2, HeldByOne DEF EdgeOf, IInv
<1>4. x = ev
  <2>1. x \in Events /\ ev \in Events
    BY HeldByOne DEF IInv, Extracted
  <2>2. x = Event(<<x.thread, x.turn, x.call>>) /\ ev = Event(<<ev.thread, ev.turn, ev.call>>)
    BY <2>1, EventFacts DEF IInv
  <2> QED
    BY <1>3, <2>2
<1>5. ev.turn = d.child.link.turn
  BY <1>2, <1>4, CandidatesClaimed DEF EdgeOf
<1> QED
  BY <1>1, <1>3, <1>4, <1>5, ChildrenKept

LEMMA Hides == IInv => NothingSilent
<1> SUFFICES ASSUME IInv, NEW p \in published, p.passes, NEW n \in p.members,
                    NEW k \in captures, NEW m \in Spawns(k.response) \cap Range(Full(n))
             PROVE  /\ m.id \in DOMAIN Mounts(n)
                    /\ k.thread = n.thread => Mounts(n)[m.id].link.turn = k.turn
  BY DEF NothingSilent
<1>1. /\ pc \in {"publish", "done"} /\ n \in leaves
      /\ p.members = IF p.root \in Roots THEN Tree(p.root) ELSE {p.root}
  BY MembersPrinted
<1>2. Passes(p.root)
  <2>1. p = Output(p.root)
    BY MembersPrinted
  <2>2. Output(p.root).passes = Passes(p.root)
    BY DEF Output
  <2> QED
    BY <2>1, <2>2, Zenon
<1>3. Complete(n)
  BY <1>1, <1>2 DEF Passes
<1>4. m.id \in DOMAIN Mounts(n)
  BY <1>3 DEF Complete, SpawnIds, Spawns
<1>5. ASSUME k.thread = n.thread PROVE Mounts(n)[m.id].link.turn = k.turn
  <2>1. PICK ev \in DOMAIN parentOf : /\ parentOf[ev] = n /\ ev.thread = n.thread
                                      /\ ev.turn = k.turn /\ ev.call = m.id
    BY <1>1, <1>3, <1>5, CompleteHolds
  <2>2. Mounted(ev)
    <3>1. <<n, "unmounted_spawn_call">> \notin issues
      BY <1>3, NotMarked DEF Relay
    <3> QED
      BY <1>1, <2>1, <3>1 DEF IInv, Settled, MountedOrMarked
  <2> QED
    BY <1>1, <2>1, <2>2, MountedInHolder
<1> QED
  BY <1>4, <1>5

(* A tree that passes the audit hides no captured call: it has its child,  *)
(* of the turn that made the call.                                         *)
THEOREM NothingHidden == Spec => []NothingSilent
BY Hides, Inductive, PTL

(* A leaf that publishes a relay has one record of its id.                 *)
LEMMA OneLocalCopy ==
  ASSUME IInv, pc \in {"publish", "done"}, NEW d \in leaves, NEW e \in RelaysOf(d)
  PROVE  LET local == {r \in Records(d) : r.item.id = e.relay}
         IN local # {} /\ \A r, s \in local : r.origin = s.origin /\ r.index = s.index
<1> DEFINE local == {r \in Records(d) : r.item.id = e.relay}
           f == [r \in local |-> [origin |-> r.origin, index |-> r.index, item |-> r.item]]
           T == {f[r] : r \in local}
<1>1. IsFiniteSet(T)
  <2>1. IsFiniteSet(local)
    BY OwnRecords, FS_Subset DEF IInv
  <2> HIDE DEF f, local
  <2> QED
    BY <2>1, FiniteImage
<1>2. Cardinality(T) = 1
  <2>1. LocalCopies(d, e.relay) = T
    BY DEF LocalCopies
  <2> HIDE DEF T
  <2> QED
    BY <2>1 DEF RelaysOf
<1>3. PICK x : T = {x}
  <2> HIDE DEF T
  <2> QED
    BY <1>1, <1>2, AtMostOne
<1>4. local # {}
  BY <1>3
<1>5. ASSUME NEW r \in local, NEW s \in local
      PROVE  r.origin = s.origin /\ r.index = s.index
  <2>1. f[r] = f[s]
    BY <1>3
  <2>2. f[r].origin = r.origin /\ f[s].origin = s.origin
        /\ f[r].index = r.index /\ f[s].index = s.index
    OBVIOUS
  <2> QED
    BY <2>1, <2>2, Zenon
<1> QED
  BY <1>4, <1>5

(* The message by which a child answered is one of its parent's thread,    *)
(* and both the result of the call and the child's messages name its       *)
(* author.                                                                 *)
LEMMA Answer ==
  ASSUME IInv, pc \in {"publish", "done"}, NEW e \in edges, e.relay # None
  PROVE  \E r \in ThreadRecords(e.parent.thread) :
           /\ r.item.id = e.relay /\ r.item.author = e.agent
           /\ ResultNames(e.parent.thread, e.call) = {e.agent}
           /\ Recipients(e.child.thread) = {e.agent}
           /\ ParentAgent(e.agent) \in {<<>>, r.item.recipient}
           /\ e.call \in r.after
<1> DEFINE r == CHOOSE x \in After(e) : TRUE
           names == Recipients(e.child.thread)
<1>1. RelayFault(e) = "attached" /\ RelayId(e) = e.relay
  BY DEF IInv, Relayed
<1>2. /\ e.agent # <<>> /\ From(e) # {} /\ ~(Cardinality(names) > 1) /\ names # {}
      /\ ~(Cardinality(names) = 1 /\ e.agent \notin names) /\ After(e) # {}
  BY <1>1 DEF RelayFault
<1>3. r \in After(e) /\ r.item.id = e.relay
  BY <1>1, <1>2 DEF RelayId
<1>4. /\ r \in ThreadRecords(e.parent.thread) /\ r.item.author = e.agent
      /\ ParentAgent(e.agent) \in {<<>>, r.item.recipient} /\ e.call \in r.after
  BY <1>3 DEF After, ToParent, From
<1>5. names = {e.agent}
  <2>1. IsFiniteSet(names)
    BY FiniteAddresses DEF IInv
  <2>2. Cardinality(names) = 1 /\ e.agent \in names
    BY <1>2, <2>1, AtMostOne
  <2> HIDE DEF names
  <2> QED
    BY <2>1, <2>2, AtMostOne
<1>6. ResultNames(e.parent.thread, e.call) = {e.agent}
  <2>1. PICK ev \in events : EdgeOf(e, ev)
    BY DEF IInv, Proposed, Grounded
  <2>2. /\ ev.thread = e.parent.thread /\ ev.call = e.call /\ ev.agent = e.agent
        /\ ev \in Events
    BY <2>1, HeldByOne DEF EdgeOf, IInv, Extracted
  <2> QED
    BY <1>2, <2>2, EventFacts DEF IInv
<1> QED
  BY <1>3, <1>4, <1>5, <1>6

LEMMA Relays == IInv => RelaysSound
<1> SUFFICES ASSUME IInv, NEW p \in published, NEW e \in p.relays
             PROVE  LET local == {r \in Records(e.parent) : r.item.id = e.relay}
                    IN /\ local # {}
                       /\ \A r, s \in local : r.origin = s.origin /\ r.index = s.index
                       /\ \E r \in LocalRecords({k \in captures : k.thread = e.parent.thread}) :
                            /\ r.item.id = e.relay
                            /\ e.parent.session # Missing => \A s \in local : s.item = r.item
                            /\ {r.item.author} = ResultNames(e.parent.thread, e.call)
                            /\ {r.item.author} = Recipients(e.child.thread)
                            /\ ParentAgent(r.item.author) \in {<<>>, r.item.recipient}
                            /\ e.call \in r.after
                       /\ \A d \in p.relays \ {e} : d.parent = e.parent => d.relay # e.relay
  BY DEF RelaysSound
<1>1. pc \in {"publish", "done"} /\ p = Output(p.root) /\ p.root \in leaves
  BY MembersPrinted DEF Printed, Roots, Subagents
<1>2. p.relays = UNION {RelaysOf(d) : d \in IF p.root \in Roots THEN Tree(p.root) ELSE {}}
  <2>1. Output(p.root).relays =
          UNION {RelaysOf(d) : d \in IF p.root \in Roots THEN Tree(p.root) ELSE {}}
    BY DEF Output
  <2> QED
    BY <1>1, <2>1, Zenon
<1>3. ASSUME NEW x \in p.relays
      PROVE  x \in edges /\ x.relay # None /\ x.parent \in leaves /\ x \in RelaysOf(x.parent)
  <2>1. PICK d \in IF p.root \in Roots THEN Tree(p.root) ELSE {} : x \in RelaysOf(d)
    BY <1>2
  <2>2. x \in edges /\ x.relay # None /\ x.parent = d
    BY <2>1 DEF RelaysOf
  <2>3. d \in leaves
    BY <1>1, <2>1, TreesPartition
  <2> QED
    BY <2>1, <2>2, <2>3
<1> DEFINE local == {r \in Records(e.parent) : r.item.id = e.relay}
<1>4. local # {} /\ \A r, s \in local : r.origin = s.origin /\ r.index = s.index
  BY <1>1, <1>3, OneLocalCopy
<1>5. PICK r \in ThreadRecords(e.parent.thread) :
        /\ r.item.id = e.relay /\ r.item.author = e.agent
        /\ ResultNames(e.parent.thread, e.call) = {e.agent}
        /\ Recipients(e.child.thread) = {e.agent}
        /\ ParentAgent(e.agent) \in {<<>>, r.item.recipient}
        /\ e.call \in r.after
  BY <1>1, <1>3, Answer
<1>6. /\ r \in LocalRecords(Of(e.parent.thread))
      /\ \A s \in LocalRecords(Of(e.parent.thread)) : s.item.id = r.item.id => s.item = r.item
  BY <1>1, ThreadRecord DEF IInv
<1>7. r \in LocalRecords({k \in captures : k.thread = e.parent.thread})
  <2>1. Of(e.parent.thread) \subseteq {k \in captures : k.thread = e.parent.thread}
    BY <1>1, EvidenceCaptured DEF Of, IInv
  <2> QED
    BY <1>6, <2>1 DEF LocalRecords
<1>8. e.parent.session # Missing => \A s \in local : s.item = r.item
  <2> SUFFICES ASSUME e.parent.session # Missing, NEW s \in local PROVE s.item = r.item
    OBVIOUS
  <2>1. s \in LocalRecords(Of(e.parent.thread))
    BY <1>1, <1>3, OwnRecords DEF IInv
  <2> QED
    BY <1>5, <1>6, <2>1
<1>9. \A d \in p.relays \ {e} : d.parent = e.parent => d.relay # e.relay
  BY <1>3 DEF IInv, Relayed
<1> QED
  BY <1>4, <1>5, <1>7, <1>8, <1>9

(* A published relay is one message of the parent's captures, from the     *)
(* agent that the call's result and the child's messages name, sent after  *)
(* the call completed, and no other child's.                               *)
THEOREM RelaysProven == Spec => []RelaysSound
BY Relays, Inductive, PTL
=============================================================================
