-------------------------- MODULE Labelling_proofs --------------------------
(***************************************************************************)
(* What is labelled: theorems about LabelJob, the job, and about           *)
(* Classifier, which answers for one trajectory.  The specifications share *)
(* no variable; each is proved about alone.                                *)
(*                                                                         *)
(* LabelJob.  Whoever publishes new input while a job runs, whatever its   *)
(* threads and the cache do and wherever it is stopped, the labels of the  *)
(* release in force belong to one input manifest and one configuration,    *)
(* nothing is replaced before every answer is there, and the job is a      *)
(* publisher as ManifestRelease describes it.                              *)
(*                                                                         *)
(* Classifier.  What one trajectory may cost, and what its answer says,    *)
(* for every taxonomy, transcript and setting of the three kinds of        *)
(* retries, and whatever the endpoint answers.                             *)
(***************************************************************************)
EXTENDS LabelJob, Classifier, FiniteSetTheorems, NaturalsInduction, WellFoundedInduction, TLAPS

-----------------------------------------------------------------------------
(* The label job.                                                          *)

(* Stages after the input has been read, after it has been staged, and     *)
(* with checked candidates.                                                *)
Publishing  == {"put", "readback", "publish", "relist", "cleanup"}
Classifying == {"window", "collect", "drain"}
AfterStage  == Classifying \cup {"lineage"} \cup Publishing
AfterRead   == {"stage"} \cup AfterStage

(* What is staged is the input that the classifier was made for.           *)
StagedInput ==
  /\ pc \in AfterRead => input \in Inputs /\ classifier = input
  /\ pc = "stage" =>
       /\ todo \subseteq Trajectories(input)
       /\ \A n \in Trajectories(input) \ todo : staged[n] = input[n]
  /\ pc \in AfterStage => \A n \in Trajectories(input) : staged[n] = input[n]

(* Threads work only on the window, and what was collected has an answer.  *)
Collected(rest) == \A n \in Trajectories(input) \ rest : task[n] = "done"
Answering ==
  /\ \A n \in Names :
       /\ task[n] # "none" => pc \in AfterStage /\ n \in Trajectories(input)
       /\ task[n] \in {"storing", "done"} => answer[n] \in Answers
       /\ pc \notin {"collect", "drain"} => task[n] \in {"none", "done"}
       /\ pc = "collect" /\ n \notin batch => task[n] \in {"none", "done"}
  /\ pc = "window" => todo \subseteq Trajectories(input) /\ Collected(todo)
  /\ pc = "collect" => /\ todo \cup batch \subseteq Trajectories(input)
                       /\ Collected(todo \cup batch)
  /\ pc \in {"lineage"} \cup Publishing => Collected({})

(* What has been read back is there and stays there.                       *)
Uploaded(rest) == \A n \in DOMAIN plan \ rest : store[n] = plan[n]
Published ==
  /\ pc \in Publishing => plan \in Outputs
  /\ pc \in {"put", "readback"} =>
       todo # {} /\ todo \subseteq DOMAIN plan /\ Uploaded(todo)
  /\ pc \in {"publish", "relist", "cleanup"} => Uploaded({})
  /\ pc \in {"relist", "cleanup"} => manifest = plan
  /\ pc = "cleanup" => todo \cap DOMAIN plan = {}

IInv == TypeOK /\ StagedInput /\ Answering /\ Published

-----------------------------------------------------------------------------
(* Names are natural numbers: a set of them has a first element.           *)
LEMMA FirstIn ==
  ASSUME NEW S, S \subseteq Names, S # {}
  PROVE  First(S) \in S
<1> DEFINE R == OpToRel(<, Nat)
<1>1. IsWellFoundedOn(R, Nat)
  BY NatLessThanWellFounded, Zenon
<1>2. \A m, n \in Nat : m < n => <<m, n>> \in R
  BY Zenon DEF OpToRel
<1>3. S \subseteq Nat
  BY LabelAssumption
<1> HIDE DEF R
<1>4. \E n \in S : \A m \in S : ~ (<<m, n>> \in R)
  BY <1>1, <1>3, WFMin
<1>5. \A m, n \in S : ~(<<m, n>> \in R) => ~(m < n)
  BY <1>2, <1>3, Zenon
<1>6. \A m, n \in S : ~(m < n) => n <= m
  BY <1>3
<1>7. \E n \in S : \A m \in S : n <= m
  BY <1>4, <1>5, <1>6, Zenon
<1> QED
  BY <1>7 DEF First

(* What comes next is part of what is left to put.                         *)
LEMMA NextIn ==
  ASSUME todo \subseteq Names, todo # {}
  PROVE  NextPut \in todo
<1>1. CASE todo = {Lineage}
  BY <1>1 DEF NextPut
<1>2. CASE todo # {Lineage}
  <2>1. todo \ {Lineage} # {} /\ todo \ {Lineage} \subseteq Names
    BY <1>2
  <2> QED
    BY <1>2, <2>1, FirstIn DEF NextPut
<1> QED
  BY <1>1, <1>2

(* An input manifest names the lineage and has contents.                   *)
LEMMA InputType ==
  ASSUME NEW m \in Inputs
  PROVE  /\ DOMAIN m \subseteq Names /\ Lineage \in DOMAIN m
         /\ Trajectories(m) \subseteq Names /\ DOMAIN m # {}
         /\ \A n \in DOMAIN m : m[n] \in Digests
BY LabelAssumption DEF Trajectories

(* A candidate labelled throughout from one manifest under one             *)
(* configuration may be published,                                         *)
LEMMA MakesOutput ==
  ASSUME NEW m \in Inputs, NEW g \in Configs, NEW f, NEW p,
         \A n \in Trajectories(m) : f[n] \in Answers,
         p = [n \in DOMAIN m |-> IF n = Lineage THEN m[n] ELSE Row(m[n], m,
           g, f[n])]
  PROVE  p \in Outputs
<1> DEFINE h == [n \in Trajectories(m) |-> f[n]]
<1>1. h \in [Trajectories(m) -> Answers]
  OBVIOUS
<1>2. p = [n \in DOMAIN m |-> IF n = Lineage THEN m[n] ELSE Row(m[n], m, g,
  h[n])]
  BY DEF Trajectories
<1> HIDE DEF h
<1>3. p \in Labellings(m, g)
  BY <1>1, <1>2, Zenon DEF Labellings
<1> QED
  BY <1>3 DEF Outputs

(* and whatever may be published is such a candidate.                      *)
LEMMA IsOutput ==
  ASSUME NEW p \in Outputs
  PROVE  \E m \in Inputs, g \in Configs :
           /\ DOMAIN p = DOMAIN m
           /\ p[Lineage] = m[Lineage]
           /\ \A n \in Trajectories(m) : p[n] \in {Row(m[n], m, g, a) : a \in Answers}
<1>0. PICK m \in Inputs, g \in Configs : p \in Labellings(m, g)
  BY DEF Outputs
<1>1. PICK h \in [Trajectories(m) -> Answers] :
        p = [n \in DOMAIN m |-> IF n = Lineage THEN m[n] ELSE Row(m[n], m, g,
          h[n])]
  BY <1>0, Zenon DEF Labellings
<1>2. DOMAIN p = DOMAIN m /\ p[Lineage] = m[Lineage]
  BY <1>1, InputType
<1>3. \A n \in Trajectories(m) : p[n] = Row(m[n], m, g,
  h[n]) /\ h[n] \in Answers
  BY <1>1 DEF Trajectories
<1> QED
  BY <1>2, <1>3

(* An output names only names, and contains labelled rows and a lineage.   *)
LEMMA OutputType ==
  ASSUME NEW p \in Outputs
  PROVE  p # Absent /\ DOMAIN p \subseteq Names
BY IsOutput, InputType, OutputAssumption

(* A window is taken from what is left to classify.                        *)
LEMMA WindowIn == \A S, k : FirstOf(S, k) \subseteq S
BY DEF FirstOf

(* Every step keeps what is staged.                                        *)
LEMMA StageStep ==
  ASSUME TypeOK, StagedInput, [Next]_vars
  PROVE  StagedInput'
<1> USE LabelAssumption, InputType
<1>1. CASE Start
  BY <1>1 DEF Trajectories, world, rows, work, Running, Broken, Ended, Active,
    Tasks, TypeOK, Start, Publishing, Classifying, AfterStage, AfterRead,
    StagedInput
<1>2. ASSUME NEW m \in Inputs, ReadInput(m) PROVE StagedInput'
  BY <1>2 DEF Trajectories, world, rows, work, Running, Broken, Ended, Active,
    Tasks, Stored, TypeOK, ReadInput, Publishing, Classifying, AfterStage,
    AfterRead, StagedInput
<1>3. ASSUME NEW n \in Names, NEW d \in Digests, Stage(n, d) PROVE StagedInput'
  BY <1>3 DEF Trajectories, world, rows, setup, Running, Broken, Ended,
    Active, Tasks, TypeOK, Stage, Publishing, Classifying, AfterStage,
    AfterRead, StagedInput
<1>4. CASE AssignPaths
  BY <1>4 DEF Trajectories, world, rows, setup, work, Running, Broken, Ended,
    Active, Tasks, TypeOK, AssignPaths, Publishing, Classifying, AfterStage,
    AfterRead, StagedInput
<1>5. CASE Submit
  BY <1>5 DEF Trajectories, world, rows, setup, Running, Broken, Ended,
    Active, Tasks, TypeOK, Submit, Publishing, Classifying, AfterStage,
    AfterRead, StagedInput
<1>6. CASE Collect
  BY <1>6 DEF Trajectories, world, rows, setup, Running, Broken, Ended,
    Active, Tasks, TypeOK, Queued, CancelQueued, Collect, Publishing,
    Classifying, AfterStage, AfterRead, StagedInput
<1>7. CASE EndWindow
  BY <1>7 DEF Trajectories, world, rows, setup, work, Running, Broken, Ended,
    Active, Tasks, TypeOK, EndWindow, Publishing, Classifying, AfterStage,
    AfterRead, StagedInput
<1>8. CASE Drain
  BY <1>8 DEF Trajectories, world, rows, Running, Broken, Ended, Active,
    Tasks, TypeOK, Forget, NoTasks, Busy, Drain, Publishing, Classifying,
    AfterStage, AfterRead, StagedInput
<1>9. ASSUME NEW d \in Digests, CopyLineage(d) PROVE StagedInput'
  BY <1>9 DEF Trajectories, world, rows, setup, Running, Broken, Ended,
    Active, Tasks, TypeOK, Forget, NoTasks, Key, Candidate, CandidateValid,
    CopyLineage, Publishing, Classifying, AfterStage, AfterRead, StagedInput
<1>10. ASSUME NEW kept \in Labelled \cup Digests \cup {Damaged}, Put(kept)
      PROVE StagedInput'
  BY <1>10 DEF Trajectories, rows, setup, work, Running, Broken, Ended,
    Active, Tasks, TypeOK, Put, Publishing, Classifying, AfterStage,
    AfterRead, StagedInput
<1>11. CASE ReadBack
  BY <1>11 DEF Trajectories, world, rows, setup, work, Running, Broken, Ended,
    Active, Tasks, TypeOK, Forget, NoTasks, ReadBack, Publishing, Classifying,
    AfterStage, AfterRead, StagedInput
<1>12. CASE PutManifest
  BY <1>12 DEF Trajectories, rows, setup, work, Running, Broken, Ended,
    Active, Tasks, TypeOK, PutManifest, Publishing, Classifying, AfterStage,
    AfterRead, StagedInput
<1>13. CASE Relist
  BY <1>13 DEF Trajectories, world, rows, setup, work, Running, Broken, Ended,
    Active, Tasks, Stored, TypeOK, Relist, Publishing, Classifying,
    AfterStage, AfterRead, StagedInput
<1>14. CASE Delete
  BY <1>14 DEF Trajectories, rows, setup, work, Running, Broken, Ended,
    Active, Tasks, TypeOK, Delete, Publishing, Classifying, AfterStage,
    AfterRead, StagedInput
<1>15. CASE Succeed
  BY <1>15 DEF Trajectories, world, rows, Running, Broken, Ended, Active,
    Tasks, TypeOK, Forget, NoTasks, Succeed, Publishing, Classifying,
    AfterStage, AfterRead, StagedInput
<1>16. ASSUME NEW n \in Names, Lookup(n) PROVE StagedInput'
  BY <1>16 DEF Trajectories, world, rows, setup, Running, Broken, Ended,
    Active, Tasks, TypeOK, Queued, Busy, Key, Becomes, Answered, Take, Lookup,
    Publishing, Classifying, AfterStage, AfterRead, StagedInput
<1>17. ASSUME NEW n \in Names, PutCache(n) PROVE StagedInput'
  BY <1>17 DEF Trajectories, world, setup, Running, Broken, Ended, Active,
    Tasks, TypeOK, Key, Becomes, PutCache, Publishing, Classifying,
    AfterStage, AfterRead, StagedInput
<1>18. ASSUME NEW n \in Names, NEW a \in Answers, Classify(n, a)
      PROVE StagedInput'
  BY <1>18 DEF Trajectories, world, rows, setup, Running, Broken, Ended,
    Active, Tasks, TypeOK, Becomes, Answered, Classify, Publishing,
    Classifying, AfterStage, AfterRead, StagedInput
<1>19. ASSUME NEW n \in Names, RaiseInThread(n) PROVE StagedInput'
  BY <1>19 DEF Trajectories, world, rows, setup, Running, Broken, Ended,
    Active, Tasks, TypeOK, Becomes, RaiseInThread, Publishing, Classifying,
    AfterStage, AfterRead, StagedInput
<1>20. CASE Fail
  BY <1>20 DEF Trajectories, world, rows, setup, Running, Broken, Ended,
    Active, Tasks, TypeOK, Forget, NoTasks, Queued, CancelQueued, Fail,
    Publishing, Classifying, AfterStage, AfterRead, StagedInput
<1>21. CASE Kill
  BY <1>21 DEF Trajectories, world, rows, Running, Broken, Ended, Active,
    Tasks, TypeOK, Forget, NoTasks, Kill, Publishing, Classifying, AfterStage,
    AfterRead, StagedInput
<1>22. CASE UNCHANGED vars
  BY <1>22 DEF vars, Trajectories, world, rows, setup, work, Publishing,
    Classifying, AfterStage, AfterRead, StagedInput
<1> QED
  BY <1>1, <1>2, <1>3, <1>4, <1>5, <1>6, <1>7, <1>8, <1>9, <1>10, <1>11, <1>12,
     <1>13, <1>14, <1>15, <1>16, <1>17, <1>18, <1>19, <1>20, <1>21, <1>22
  DEF Next, JobStep, ThreadStep

(* Every step of the job and of its threads keeps what was collected.      *)
LEMMA AnswerStep ==
  ASSUME TypeOK, StagedInput, Answering, [Next]_vars
  PROVE  Answering'
<1> USE LabelAssumption, InputType, WindowIn
<1>1. CASE Start
  BY <1>1 DEF Trajectories, Answers, world, rows, work, Running, Broken,
    Ended, Active, Tasks, TypeOK, Start, Publishing, Classifying, AfterStage,
    AfterRead, StagedInput, Collected, Answering
<1>2. ASSUME NEW m \in Inputs, ReadInput(m) PROVE Answering'
  BY <1>2 DEF Trajectories, Answers, world, rows, work, Running, Broken,
    Ended, Active, Tasks, Stored, TypeOK, ReadInput, Publishing, Classifying,
    AfterStage, AfterRead, StagedInput, Collected, Answering
<1>3. ASSUME NEW n \in Names, NEW d \in Digests, Stage(n, d) PROVE Answering'
  BY <1>3 DEF Trajectories, Answers, world, rows, setup, Running, Broken,
    Ended, Active, Tasks, TypeOK, Stage, Publishing, Classifying, AfterStage,
    AfterRead, StagedInput, Collected, Answering
<1>4. CASE AssignPaths
  BY <1>4 DEF Trajectories, Answers, world, rows, setup, work, Running,
    Broken, Ended, Active, Tasks, TypeOK, AssignPaths, Publishing,
    Classifying, AfterStage, AfterRead, StagedInput, Collected, Answering
<1>5. CASE Submit
  BY <1>5 DEF Trajectories, Answers, world, rows, setup, Running, Broken,
    Ended, Active, Tasks, TypeOK, Submit, Publishing, Classifying, AfterStage,
    AfterRead, StagedInput, Collected, Answering
<1>6. CASE Collect
  BY <1>6 DEF Trajectories, Answers, world, rows, setup, Running, Broken,
    Ended, Active, Tasks, TypeOK, Queued, CancelQueued, Collect, Publishing,
    Classifying, AfterStage, AfterRead, StagedInput, Collected, Answering
<1>7. CASE EndWindow
  BY <1>7 DEF Trajectories, Answers, world, rows, setup, work, Running,
    Broken, Ended, Active, Tasks, TypeOK, EndWindow, Publishing, Classifying,
    AfterStage, AfterRead, StagedInput, Collected, Answering
<1>8. CASE Drain
  BY <1>8 DEF Trajectories, Answers, world, rows, Running, Broken, Ended,
    Active, Tasks, TypeOK, Forget, NoTasks, Busy, Drain, Publishing,
    Classifying, AfterStage, AfterRead, StagedInput, Collected, Answering
<1>9. ASSUME NEW d \in Digests, CopyLineage(d) PROVE Answering'
  BY <1>9 DEF Trajectories, Answers, world, rows, setup, Running, Broken,
    Ended, Active, Tasks, TypeOK, Forget, NoTasks, Key, Candidate,
    CandidateValid, CopyLineage, Publishing, Classifying, AfterStage,
    AfterRead, StagedInput, Collected, Answering
<1>10. ASSUME NEW kept \in Labelled \cup Digests \cup {Damaged}, Put(kept)
      PROVE Answering'
  BY <1>10 DEF Trajectories, Answers, rows, setup, work, Running, Broken,
    Ended, Active, Tasks, TypeOK, Put, Publishing, Classifying, AfterStage,
    AfterRead, StagedInput, Collected, Answering
<1>11. CASE ReadBack
  BY <1>11 DEF Trajectories, Answers, world, rows, setup, work, Running,
    Broken, Ended, Active, Tasks, TypeOK, Forget, NoTasks, ReadBack,
    Publishing, Classifying, AfterStage, AfterRead, StagedInput, Collected,
    Answering
<1>12. CASE PutManifest
  BY <1>12 DEF Trajectories, Answers, rows, setup, work, Running, Broken,
    Ended, Active, Tasks, TypeOK, PutManifest, Publishing, Classifying,
    AfterStage, AfterRead, StagedInput, Collected, Answering
<1>13. CASE Relist
  BY <1>13 DEF Trajectories, Answers, world, rows, setup, work, Running,
    Broken, Ended, Active, Tasks, Stored, TypeOK, Relist, Publishing,
    Classifying, AfterStage, AfterRead, StagedInput, Collected, Answering
<1>14. CASE Delete
  BY <1>14 DEF Trajectories, Answers, rows, setup, work, Running, Broken,
    Ended, Active, Tasks, TypeOK, Delete, Publishing, Classifying, AfterStage,
    AfterRead, StagedInput, Collected, Answering
<1>15. CASE Succeed
  BY <1>15 DEF Trajectories, Answers, world, rows, Running, Broken, Ended,
    Active, Tasks, TypeOK, Forget, NoTasks, Succeed, Publishing, Classifying,
    AfterStage, AfterRead, StagedInput, Collected, Answering
<1>16. ASSUME NEW n \in Names, Lookup(n) PROVE Answering'
  BY <1>16 DEF Trajectories, Answers, world, rows, setup, Running, Broken,
    Ended, Active, Tasks, TypeOK, Queued, Busy, Key, Becomes, Answered, Take,
    Lookup, Publishing, Classifying, AfterStage, AfterRead, StagedInput,
    Collected, Answering
<1>17. ASSUME NEW n \in Names, PutCache(n) PROVE Answering'
  BY <1>17 DEF Trajectories, Answers, world, setup, Running, Broken, Ended,
    Active, Tasks, TypeOK, Key, Becomes, PutCache, Publishing, Classifying,
    AfterStage, AfterRead, StagedInput, Collected, Answering
<1>18. ASSUME NEW n \in Names, NEW a \in Answers, Classify(n, a)
      PROVE Answering'
  BY <1>18 DEF Trajectories, Answers, world, rows, setup, Running, Broken,
    Ended, Active, Tasks, TypeOK, Becomes, Answered, Classify, Publishing,
    Classifying, AfterStage, AfterRead, StagedInput, Collected, Answering
<1>19. ASSUME NEW n \in Names, RaiseInThread(n) PROVE Answering'
  BY <1>19 DEF Trajectories, Answers, world, rows, setup, Running, Broken,
    Ended, Active, Tasks, TypeOK, Becomes, RaiseInThread, Publishing,
    Classifying, AfterStage, AfterRead, StagedInput, Collected, Answering
<1>20. CASE Fail
  BY <1>20 DEF Trajectories, Answers, world, rows, setup, Running, Broken,
    Ended, Active, Tasks, TypeOK, Forget, NoTasks, Queued, CancelQueued, Fail,
    Publishing, Classifying, AfterStage, AfterRead, StagedInput, Collected,
    Answering
<1>21. CASE Kill
  BY <1>21 DEF Trajectories, Answers, world, rows, Running, Broken, Ended,
    Active, Tasks, TypeOK, Forget, NoTasks, Kill, Publishing, Classifying,
    AfterStage, AfterRead, StagedInput, Collected, Answering
<1>22. CASE UNCHANGED vars
  BY <1>22 DEF vars, Trajectories, Answers, world, rows, setup, work,
    Publishing, Classifying, AfterStage, Collected, Answering
<1> QED
  BY <1>1, <1>2, <1>3, <1>4, <1>5, <1>6, <1>7, <1>8, <1>9, <1>10, <1>11, <1>12,
     <1>13, <1>14, <1>15, <1>16, <1>17, <1>18, <1>19, <1>20, <1>21, <1>22
  DEF Next, JobStep, ThreadStep

(* What the final check lets pass may be published.                        *)
LEMMA PlansOutput ==
  ASSUME TypeOK, StagedInput, Answering,
         NEW d \in Digests, CopyLineage(d), CandidateValid
  PROVE  plan' \in Outputs /\ DOMAIN plan' = DOMAIN input
<1>1. input \in Inputs /\ config \in Configs /\ classifier = input
  BY DEF CopyLineage, TypeOK, StagedInput, AfterRead, AfterStage
<1>2. \A n \in Trajectories(input) : answer[n] \in Answers /\ staged[n] = input[n]
  BY <1>1, InputType
  DEF CopyLineage, StagedInput, AfterStage, Answering, Collected
<1>3. plan' = [n \in DOMAIN input |->
                 IF n = Lineage THEN input[n]
                 ELSE Row(input[n], input, config, answer[n])]
  BY <1>1, <1>2 DEF CopyLineage, Candidate, Trajectories
<1> QED
  BY <1>1, <1>2, <1>3, MakesOutput

(* Every step keeps what has been read back, and publishes only that.      *)
LEMMA PublishStep ==
  ASSUME TypeOK, StagedInput, Answering, Published, [Next]_vars
  PROVE  Published'
<1> USE InputType, OutputType
<1>1. CASE Start
  BY <1>1 DEF Trajectories, Answers, world, rows, work, Running, Broken,
    Ended, Active, Tasks, TypeOK, Start, Publishing, Classifying, AfterStage,
    AfterRead, StagedInput, Collected, Answering, Uploaded, Published
<1>2. ASSUME NEW m \in Inputs, ReadInput(m) PROVE Published'
  BY <1>2 DEF Trajectories, Answers, world, rows, work, Running, Broken,
    Ended, Active, Tasks, Stored, TypeOK, ReadInput, Publishing, Classifying,
    AfterStage, AfterRead, StagedInput, Collected, Answering, Uploaded,
    Published
<1>3. ASSUME NEW n \in Names, NEW d \in Digests, Stage(n, d) PROVE Published'
  BY <1>3 DEF Trajectories, Answers, world, rows, setup, Running, Broken,
    Ended, Active, Tasks, TypeOK, Stage, Publishing, Classifying, AfterStage,
    AfterRead, StagedInput, Collected, Answering, Uploaded, Published
<1>4. CASE AssignPaths
  BY <1>4 DEF Trajectories, Answers, world, rows, setup, work, Running,
    Broken, Ended, Active, Tasks, TypeOK, AssignPaths, Publishing,
    Classifying, AfterStage, AfterRead, StagedInput, Collected, Answering,
    Uploaded, Published
<1>5. CASE Submit
  BY <1>5 DEF Trajectories, Answers, world, rows, setup, Running, Broken,
    Ended, Active, Tasks, TypeOK, Submit, Publishing, Classifying, AfterStage,
    AfterRead, StagedInput, Collected, Answering, Uploaded, Published
<1>6. CASE Collect
  BY <1>6 DEF Trajectories, Answers, world, rows, setup, Running, Broken,
    Ended, Active, Tasks, TypeOK, Queued, CancelQueued, Collect, Publishing,
    Classifying, AfterStage, AfterRead, StagedInput, Collected, Answering,
    Uploaded, Published
<1>7. CASE EndWindow
  BY <1>7 DEF Trajectories, Answers, world, rows, setup, work, Running,
    Broken, Ended, Active, Tasks, TypeOK, EndWindow, Publishing, Classifying,
    AfterStage, AfterRead, StagedInput, Collected, Answering, Uploaded,
    Published
<1>8. CASE Drain
  BY <1>8 DEF Trajectories, Answers, world, rows, Running, Broken, Ended,
    Active, Tasks, TypeOK, Forget, NoTasks, Busy, Drain, Publishing,
    Classifying, AfterStage, AfterRead, StagedInput, Collected, Answering,
    Uploaded, Published
<1>9. ASSUME NEW d \in Digests, CopyLineage(d) PROVE Published'
  <2>1. CASE CandidateValid
    BY <1>9, <2>1, PlansOutput DEF CopyLineage, Published, Publishing,
      Uploaded, StagedInput, AfterRead, AfterStage
  <2>2. CASE ~CandidateValid
    BY <1>9, <2>2 DEF CopyLineage, Published, Publishing
  <2> QED
    BY <2>1, <2>2
<1>10. ASSUME NEW kept \in Labelled \cup Digests \cup {Damaged}, Put(kept)
      PROVE Published'
  BY <1>10, NextIn DEF Trajectories, Answers, rows, setup, work, Running,
    Broken, Ended, Active, Tasks, TypeOK, Put, Publishing, Classifying,
    AfterStage, AfterRead, StagedInput, Collected, Answering, Uploaded,
    Published
<1>11. CASE ReadBack
  BY <1>11, NextIn DEF Trajectories, Answers, world, rows, setup, work,
    Running, Broken, Ended, Active, Tasks, TypeOK, Forget, NoTasks, ReadBack,
    Publishing, Classifying, AfterStage, AfterRead, StagedInput, Collected,
    Answering, Uploaded, Published
<1>12. CASE PutManifest
  BY <1>12 DEF Trajectories, Answers, rows, setup, work, Running, Broken,
    Ended, Active, Tasks, TypeOK, PutManifest, Publishing, Classifying,
    AfterStage, AfterRead, StagedInput, Collected, Answering, Uploaded,
    Published
<1>13. CASE Relist
  BY <1>13 DEF Trajectories, Answers, world, rows, setup, work, Running,
    Broken, Ended, Active, Tasks, Stored, TypeOK, Relist, Publishing,
    Classifying, AfterStage, AfterRead, StagedInput, Collected, Answering,
    Uploaded, Published
<1>14. CASE Delete
  BY <1>14, FirstIn DEF Trajectories, Answers, rows, setup, work, Running,
    Broken, Ended, Active, Tasks, TypeOK, Delete, Publishing, Classifying,
    AfterStage, AfterRead, StagedInput, Collected, Answering, Uploaded,
    Published
<1>15. CASE Succeed
  BY <1>15 DEF Trajectories, Answers, world, rows, Running, Broken, Ended,
    Active, Tasks, TypeOK, Forget, NoTasks, Succeed, Publishing, Classifying,
    AfterStage, AfterRead, StagedInput, Collected, Answering, Uploaded,
    Published
<1>16. ASSUME NEW n \in Names, Lookup(n) PROVE Published'
  BY <1>16 DEF Trajectories, Answers, world, rows, setup, Running, Broken,
    Ended, Active, Tasks, TypeOK, Queued, Busy, Key, Becomes, Answered, Take,
    Lookup, Publishing, Classifying, AfterStage, AfterRead, StagedInput,
    Collected, Answering, Uploaded, Published
<1>17. ASSUME NEW n \in Names, PutCache(n) PROVE Published'
  BY <1>17 DEF Trajectories, Answers, world, setup, Running, Broken, Ended,
    Active, Tasks, TypeOK, Key, Becomes, PutCache, Publishing, Classifying,
    AfterStage, AfterRead, StagedInput, Collected, Answering, Uploaded,
    Published
<1>18. ASSUME NEW n \in Names, NEW a \in Answers, Classify(n, a)
      PROVE Published'
  BY <1>18 DEF Trajectories, Answers, world, rows, setup, Running, Broken,
    Ended, Active, Tasks, TypeOK, Becomes, Answered, Classify, Publishing,
    Classifying, AfterStage, AfterRead, StagedInput, Collected, Answering,
    Uploaded, Published
<1>19. ASSUME NEW n \in Names, RaiseInThread(n) PROVE Published'
  BY <1>19 DEF Trajectories, Answers, world, rows, setup, Running, Broken,
    Ended, Active, Tasks, TypeOK, Becomes, RaiseInThread, Publishing,
    Classifying, AfterStage, AfterRead, StagedInput, Collected, Answering,
    Uploaded, Published
<1>20. CASE Fail
  BY <1>20 DEF Trajectories, Answers, world, rows, setup, Running, Broken,
    Ended, Active, Tasks, TypeOK, Forget, NoTasks, Queued, CancelQueued, Fail,
    Publishing, Classifying, AfterStage, AfterRead, StagedInput, Collected,
    Answering, Uploaded, Published
<1>21. CASE Kill
  BY <1>21 DEF Trajectories, Answers, world, rows, Running, Broken, Ended,
    Active, Tasks, TypeOK, Forget, NoTasks, Kill, Publishing, Classifying,
    AfterStage, AfterRead, StagedInput, Collected, Answering, Uploaded,
    Published
<1>22. CASE UNCHANGED vars
  BY <1>22 DEF vars, world, rows, setup, work, Publishing, Uploaded, Published
<1> QED
  BY <1>1, <1>2, <1>3, <1>4, <1>5, <1>6, <1>7, <1>8, <1>9, <1>10, <1>11, <1>12,
     <1>13, <1>14, <1>15, <1>16, <1>17, <1>18, <1>19, <1>20, <1>21, <1>22
  DEF Next, JobStep, ThreadStep

(* Every step keeps the types.                                             *)
LEMMA TypeStep ==
  ASSUME TypeOK, StagedInput, Answering, Published, [Next]_vars
  PROVE  TypeOK'
<1> USE InputType, OutputType, WindowIn
<1>1. CASE Start
  BY <1>1 DEF Answers, Labelled, Keys, world, rows, work, Running, Broken,
    Ended, Active, Tasks, TypeOK, Start, Publishing, Classifying, AfterStage,
    AfterRead, StagedInput, Collected, Answering, Uploaded, Published
<1>2. ASSUME NEW m \in Inputs, ReadInput(m) PROVE TypeOK'
  BY <1>2 DEF Answers, Labelled, Keys, world, rows, work, Running, Broken,
    Ended, Active, Tasks, Stored, TypeOK, ReadInput, Publishing, Classifying,
    AfterStage, AfterRead, StagedInput, Collected, Answering, Uploaded,
    Published
<1>3. ASSUME NEW n \in Names, NEW d \in Digests, Stage(n, d) PROVE TypeOK'
  BY <1>3 DEF Answers, Labelled, Keys, world, rows, setup, Running, Broken,
    Ended, Active, Tasks, TypeOK, Stage, Publishing, Classifying, AfterStage,
    AfterRead, StagedInput, Collected, Answering, Uploaded, Published
<1>4. CASE AssignPaths
  BY <1>4 DEF Answers, Labelled, Keys, world, rows, setup, work, Running,
    Broken, Ended, Active, Tasks, TypeOK, AssignPaths, Publishing,
    Classifying, AfterStage, AfterRead, StagedInput, Collected, Answering,
    Uploaded, Published
<1>5. CASE Submit
  BY <1>5 DEF Answers, Labelled, Keys, world, rows, setup, Running, Broken,
    Ended, Active, Tasks, TypeOK, Submit, Publishing, Classifying, AfterStage,
    AfterRead, StagedInput, Collected, Answering, Uploaded, Published
<1>6. CASE Collect
  BY <1>6 DEF Answers, Labelled, Keys, world, rows, setup, Running, Broken,
    Ended, Active, Tasks, TypeOK, Queued, CancelQueued, Collect, Publishing,
    Classifying, AfterStage, AfterRead, StagedInput, Collected, Answering,
    Uploaded, Published
<1>7. CASE EndWindow
  BY <1>7 DEF Answers, Labelled, Keys, world, rows, setup, work, Running,
    Broken, Ended, Active, Tasks, TypeOK, EndWindow, Publishing, Classifying,
    AfterStage, AfterRead, StagedInput, Collected, Answering, Uploaded,
    Published
<1>8. CASE Drain
  BY <1>8 DEF Answers, Labelled, Keys, world, rows, Running, Broken, Ended,
    Active, Tasks, TypeOK, Forget, NoTasks, Busy, Drain, Publishing,
    Classifying, AfterStage, AfterRead, StagedInput, Collected, Answering,
    Uploaded, Published
<1>9. ASSUME NEW d \in Digests, CopyLineage(d) PROVE TypeOK'
  <2>1. CASE CandidateValid
    BY <1>9, <2>1, PlansOutput DEF CopyLineage, TypeOK, Running, world, rows,
      setup,
      StagedInput, AfterRead, AfterStage
  <2>2. CASE ~CandidateValid
    BY <1>9, <2>2 DEF CopyLineage, TypeOK, Running, Broken, Ended, world, rows,
      Forget, NoTasks, Tasks
  <2> QED
    BY <2>1, <2>2
<1>10. ASSUME NEW kept \in Labelled \cup Digests \cup {Damaged}, Put(kept)
      PROVE TypeOK'
  BY <1>10 DEF Answers, Labelled, Keys, rows, setup, work, Running, Broken,
    Ended, Active, Tasks, TypeOK, Put, Publishing, Classifying, AfterStage,
    AfterRead, StagedInput, Collected, Answering, Uploaded, Published
<1>11. CASE ReadBack
  BY <1>11 DEF Answers, Labelled, Keys, world, rows, setup, work, Running,
    Broken, Ended, Active, Tasks, TypeOK, Forget, NoTasks, ReadBack,
    Publishing, Classifying, AfterStage, AfterRead, StagedInput, Collected,
    Answering, Uploaded, Published
<1>12. CASE PutManifest
  BY <1>12 DEF Answers, Labelled, Keys, rows, setup, work, Running, Broken,
    Ended, Active, Tasks, TypeOK, PutManifest, Publishing, Classifying,
    AfterStage, AfterRead, StagedInput, Collected, Answering, Uploaded,
    Published
<1>13. CASE Relist
  BY <1>13 DEF Answers, Labelled, Keys, world, rows, setup, work, Running,
    Broken, Ended, Active, Tasks, Stored, TypeOK, Relist, Publishing,
    Classifying, AfterStage, AfterRead, StagedInput, Collected, Answering,
    Uploaded, Published
<1>14. CASE Delete
  BY <1>14 DEF Answers, Labelled, Keys, rows, setup, work, Running, Broken,
    Ended, Active, Tasks, TypeOK, Delete, Publishing, Classifying, AfterStage,
    AfterRead, StagedInput, Collected, Answering, Uploaded, Published
<1>15. CASE Succeed
  BY <1>15 DEF Answers, Labelled, Keys, world, rows, Running, Broken, Ended,
    Active, Tasks, TypeOK, Forget, NoTasks, Succeed, Publishing, Classifying,
    AfterStage, AfterRead, StagedInput, Collected, Answering, Uploaded,
    Published
<1>16. ASSUME NEW n \in Names, Lookup(n) PROVE TypeOK'
  BY <1>16 DEF Lookup, Take, Queued, Becomes, Answered, TypeOK, Tasks, Active,
    Answers, world, rows, setup
<1>17. ASSUME NEW n \in Names, PutCache(n) PROVE TypeOK'
  <2>1. staged[n] \in Digests /\ classifier \in Inputs /\ config \in Configs
    BY <1>17 DEF PutCache, TypeOK, StagedInput, Answering, AfterRead,
      AfterStage, Trajectories
  <2>2. Key(n) \in Keys
    BY <2>1 DEF Key, Keys
  <2>3. cache' \subseteq Keys /\ outdated' \subseteq Keys \ cache'
    BY <1>17, <2>2 DEF PutCache, TypeOK
  <2> QED
    BY <1>17, <2>3 DEF PutCache, Becomes, TypeOK, Tasks, world, setup
<1>18. ASSUME NEW n \in Names, NEW a \in Answers, Classify(n, a) PROVE TypeOK'
  BY <1>18 DEF Answers, Labelled, Keys, world, rows, setup, Running, Broken,
    Ended, Active, Tasks, TypeOK, Becomes, Answered, Classify, Publishing,
    Classifying, AfterStage, AfterRead, StagedInput, Collected, Answering,
    Uploaded, Published
<1>19. ASSUME NEW n \in Names, RaiseInThread(n) PROVE TypeOK'
  BY <1>19 DEF Answers, Labelled, Keys, world, rows, setup, Running, Broken,
    Ended, Active, Tasks, TypeOK, Becomes, RaiseInThread, Publishing,
    Classifying, AfterStage, AfterRead, StagedInput, Collected, Answering,
    Uploaded, Published
<1>20. CASE Fail
  BY <1>20 DEF Answers, Labelled, Keys, world, rows, setup, Running, Broken,
    Ended, Active, Tasks, TypeOK, Forget, NoTasks, Queued, CancelQueued, Fail,
    Publishing, Classifying, AfterStage, AfterRead, StagedInput, Collected,
    Answering, Uploaded, Published
<1>21. CASE Kill
  BY <1>21 DEF Answers, Labelled, Keys, world, rows, Running, Broken, Ended,
    Active, Tasks, TypeOK, Forget, NoTasks, Kill, Publishing, Classifying,
    AfterStage, AfterRead, StagedInput, Collected, Answering, Uploaded,
    Published
<1>22. CASE UNCHANGED vars
  BY <1>22 DEF vars, Answers, Labelled, Keys, world, rows, setup, work,
    Running, Broken, Ended, Active, Tasks, TypeOK
<1> QED
  BY <1>1, <1>2, <1>3, <1>4, <1>5, <1>6, <1>7, <1>8, <1>9, <1>10, <1>11, <1>12,
     <1>13, <1>14, <1>15, <1>16, <1>17, <1>18, <1>19, <1>20, <1>21, <1>22
  DEF Next, JobStep, ThreadStep

(* The initial states are in the invariant.                                *)
LEMMA InitIInv == Init => IInv
<1> SUFFICES ASSUME Init PROVE IInv
  OBVIOUS
<1> USE LabelAssumption
<1>1. TypeOK
  BY DEF Init, TypeOK, Tasks, Keys, Ended, Running
<1>2. StagedInput /\ Answering /\ Published
  BY DEF Init, StagedInput, Answering, Published, AfterRead, AfterStage,
    Classifying, Publishing
<1> QED
  BY <1>1, <1>2 DEF IInv

(* The invariant is inductive.                                             *)
LEMMA StepIInv == IInv /\ [Next]_vars => IInv'
BY TypeStep, StageStep, AnswerStep, PublishStep DEF IInv

LEMMA Invariance == Spec => []IInv
BY InitIInv, StepIInv, PTL DEF Spec

(* Theorem: every label of the release in force was made of the content    *)
(* that one input manifest records, under one configuration, and says so;  *)
(* whatever is published on the input prefix meanwhile, whatever a cache   *)
(* of earlier jobs holds, and however many attempts were stopped.          *)
THEOREM LabelsAreOfTheirInput == Spec => []LabelsBelong
<1>1. IInv => LabelsBelong
  BY IsOutput DEF IInv, TypeOK, LabelsBelong
<1> QED
  BY <1>1, Invariance, PTL

(* Theorem: no object of the output prefix changes while a classification  *)
(* of the job is under way, waits or is missing.                           *)
THEOREM OutputWaitsForAnswers == Spec => NoChangeBeforeAnswers
<1>1. ASSUME IInv, [Next]_vars, store' # store
      PROVE  /\ Busy = {} /\ Queued = {}
             /\ \A n \in Trajectories(input) : task[n] = "done"
  <2>1. pc \in Publishing
    BY <1>1 DEF Next, vars, world, JobStep, ThreadStep, Start, ReadInput,
      Stage,
      AssignPaths, Submit, Collect, EndWindow, Drain, CopyLineage, Put, ReadBack,
      PutManifest, Relist, Delete, Succeed, Lookup, PutCache, Classify,
      RaiseInThread, Fail, Kill, Publishing
  <2>2. \A n \in Names : task[n] \in {"none", "done"}
    BY <1>1, <2>1 DEF IInv, Answering, Publishing
  <2> QED
    BY <1>1, <2>1, <2>2 DEF IInv, Answering, Collected, Busy, Queued, Active
<1> QED
  BY <1>1, Invariance, PTL DEF Spec, NoChangeBeforeAnswers

-----------------------------------------------------------------------------
(* A consumer is served the manifest in force or nothing, so a step of a   *)
(* job in progress that leaves that manifest alone disturbs or restores.   *)
LEMMA WorkingStep ==
  ASSUME manifest' = manifest, pc \in Running, pc' \in Running
  PROVE  Abstract!Next
<1>1. Served' \in {manifest', Absent}
  BY DEF Served
<1>2. CASE Served' = Absent
  BY <1>2 DEF Abstract!Next, Abstract!Disturb
<1>3. CASE Served' = manifest'
  BY <1>3 DEF Abstract!Next, Abstract!Restore
<1> QED
  BY <1>1, <1>2, <1>3

(* A job may be stopped at any time.                                       *)
LEMMA StoppingStep ==
  ASSUME UNCHANGED world, pc \in Running, pc' \notin Running
  PROVE  Abstract!Next
BY DEF world, Served, Verifies, Abstract!Next, Abstract!Abandon

(* Every step is a step of the abstract publisher, or leaves all that it   *)
(* speaks of alone.                                                        *)
LEMMA AbstractStep ==
  ASSUME IInv, [Next]_vars
  PROVE  [Abstract!Next]_(Abstract!vars)
<1> USE DEF IInv
<1>1. CASE Start
  BY <1>1 DEF Start, world, Running, Served, Verifies, Abstract!Next,
    Abstract!Begin
<1>2. ASSUME UNCHANGED world, pc \in Running PROVE Abstract!Next
  BY <1>2, WorkingStep, StoppingStep DEF world
<1>3. CASE \/ \E m \in Inputs : ReadInput(m)
           \/ \E n \in Names, d \in Digests : Stage(n, d)
           \/ AssignPaths \/ Submit \/ Collect \/ EndWindow \/ Drain
           \/ \E d \in Digests : CopyLineage(d)
           \/ ReadBack \/ Relist \/ Fail \/ Kill
  BY <1>2, <1>3 DEF ReadInput, Stage, AssignPaths, Submit, Collect, EndWindow,
    Drain, CopyLineage, ReadBack, Relist, Fail, Kill, Running
<1>4. CASE Delete \/ \E kept \in Labelled \cup Digests \cup {Damaged} : Put(kept)
  BY <1>4, WorkingStep DEF Delete, Put, Running
<1>5. CASE PutManifest
  <2>1. plan \in Outputs /\ manifest' = plan /\ store' = store
    BY <1>5 DEF PutManifest, Published, Publishing
  <2>2. Served' = plan
    BY <1>5, <2>1, OutputType DEF PutManifest, Published, Uploaded, Served,
      Verifies
  <2>3. \E r \in Outputs : Abstract!Commit(r)
    BY <1>5, <2>1, <2>2 DEF PutManifest, Running, Abstract!Commit
  <2> QED
    BY <2>3 DEF Abstract!Next
<1>6. CASE Succeed
  <2>1. manifest \in Outputs /\ Served = manifest
    BY <1>6, OutputType DEF Succeed, Published, Publishing, Uploaded, Served,
      Verifies
  <2>2. UNCHANGED <<manifest, Served>>
    BY <1>6 DEF Succeed, world, Served, Verifies
  <2> QED
    BY <1>6, <2>1, <2>2 DEF Succeed, Running, Abstract!Next, Abstract!Succeed
<1>7. CASE \E n \in Names : ThreadStep(n) \/ RaiseInThread(n)
  BY <1>7 DEF ThreadStep, Lookup, PutCache, Classify, RaiseInThread, world,
    Served, Verifies, Abstract!vars
<1>8. CASE UNCHANGED vars
  BY <1>8 DEF vars, world, Served, Verifies, Abstract!vars
<1> QED
  BY <1>1, <1>3, <1>4, <1>5, <1>6, <1>7, <1>8 DEF Next, JobStep

(* Theorem: the label job implements ManifestRelease: a consumer that      *)
(* verifies what it reads is served one whole labelled release or nothing, *)
(* and success leaves the job's own release in service.                    *)
THEOREM PublishesReleases == Spec => ImplementsRelease
<1>1. Init => Abstract!Init
  BY DEF Init, Running, Served, Abstract!Init
<1>2. IInv /\ [Next]_vars => [Abstract!Next]_(Abstract!vars)
  BY AbstractStep
<1> QED
  BY <1>1, <1>2, Invariance, PTL DEF Spec, Abstract!Spec, ImplementsRelease

-----------------------------------------------------------------------------
(* The classifier.                                                         *)
(*                                                                         *)
(* RequestsBounded needs the account of the calls that are over (Paid);    *)
(* AnswersHonest needs that a request knows whether it carries the whole   *)
(* transcript (CutKnown), also when an attempt of it is repeated;          *)
(* RepeatsShrink needs that the binary search returns what fits, although  *)
(* the sizes it tries are not ordered.  The search and the sums are        *)
(* recursive functions, which exist by Solution.                           *)
(* The requests of the calls that are over, and of the call under way.     *)
Spent == IF phase = "project" THEN 0
         ELSE IF phase = "call" THEN attempt ELSE MaxRetries + 1

Paid == requests <= (MaxRetries + 1) * (semanticAttempts + reductions) + Spent

CInv == ClassifyTypeOK /\ Paid

USE DEF Concluded

LEMMA Settings ==
  MaxRetries \in Nat /\ SemanticRetries \in Nat /\ MaxReductions \in Nat
  BY ClassifierAssumption

USE Settings

LEMMA CInvInit == ClassifyInit => CInv
  BY Settings DEF ClassifyInit, CInv, ClassifyTypeOK, Paid, Spent

(* One more call costs one more time the attempts of a call.               *)
LEMMA OneMoreCall ==
  ASSUME NEW k \in Nat
  PROVE (MaxRetries + 1) * (k + 1) = (MaxRetries + 1) * k + (MaxRetries + 1)
  BY Settings

LEMMA Monotone ==
  ASSUME NEW j \in Nat, NEW k \in Nat, j <= k
  PROVE (MaxRetries + 1) * j <= (MaxRetries + 1) * k
  BY Settings, Z3

(* A step that stays in its call, or ends it, keeps the account.           *)
LEMMA StayInCall ==
  ASSUME CInv, Sent,
         semanticAttempts' = semanticAttempts, reductions' = reductions,
         \/ attempt < MaxRetries /\ attempt' = attempt + 1 /\ phase' = phase
         \/ attempt' = attempt /\ phase' \in Concluded
  PROVE CInv'
PROOF
<1> DEFINE paid == (MaxRetries + 1) * (semanticAttempts + reductions)
<1>1. /\ phase = "call" /\ requests' = requests + 1 /\ requests \in Nat
      /\ attempt \in 0 .. MaxRetries /\ requests <= paid + attempt
  BY Settings DEF CInv, ClassifyTypeOK, Paid, Spent, Sent
<1>2. paid' = paid
  OBVIOUS
<1>3. paid \in Nat
  BY Settings DEF CInv, ClassifyTypeOK
<1> HIDE DEF paid
<1>4. CASE attempt < MaxRetries /\ attempt' = attempt + 1 /\ phase' = phase
  <2>1. requests' <= paid' + Spent'
    BY <1>1, <1>2, <1>3, <1>4 DEF Spent
  <2>2. ClassifyTypeOK'
    BY <1>1, <1>4 DEF CInv, ClassifyTypeOK, Sent
  <2> QED BY <2>1, <2>2 DEF CInv, Paid, paid
<1>5. CASE attempt' = attempt /\ phase' \in Concluded
  <2>1. requests' <= paid' + Spent'
    BY <1>1, <1>2, <1>3, <1>5 DEF Spent
  <2>2. ClassifyTypeOK'
    BY <1>1, <1>5 DEF CInv, ClassifyTypeOK, Sent
  <2> QED BY <2>1, <2>2 DEF CInv, Paid, paid
<1> QED BY <1>4, <1>5

(* A call that is followed by another has cost at most its attempts.       *)
LEMMA NextCall ==
  ASSUME CInv, Sent, phase' = "project", attempt' = attempt,
         semanticAttempts' \in 0 .. SemanticRetries, reductions' \in 0 .. MaxReductions,
         semanticAttempts' + reductions' = semanticAttempts + reductions + 1
  PROVE CInv'
PROOF
<1> DEFINE calls == semanticAttempts + reductions
<1>1. /\ phase = "call" /\ requests' = requests + 1 /\ requests \in Nat
      /\ attempt \in 0 .. MaxRetries /\ requests <= (MaxRetries + 1) * calls + attempt
  BY Settings DEF CInv, ClassifyTypeOK, Paid, Spent, Sent
<1>2. calls \in Nat /\ calls' = calls + 1
  <2>1. semanticAttempts \in Nat /\ reductions \in Nat
    BY DEF CInv, ClassifyTypeOK
  <2>2. semanticAttempts' \in Nat /\ reductions' \in Nat
    OBVIOUS
  <2>3. calls \in Nat
    BY <2>1
  <2>4. calls' = calls + 1
    BY <2>1, <2>2
  <2> QED BY <2>3, <2>4
<1> HIDE DEF calls
<1>3. (MaxRetries + 1) * calls \in Nat
  BY <1>2, Settings
<1>4. (MaxRetries + 1) * (calls + 1) = (MaxRetries + 1) * calls + (MaxRetries + 1)
  BY <1>2, OneMoreCall
<1>5. requests' <= (MaxRetries + 1) * calls + (MaxRetries + 1)
  BY <1>1, <1>3, Settings
<1>6. requests' <= (MaxRetries + 1) * calls' + Spent'
  <2>1. Spent' = 0
    BY DEF Spent
  <2>2. requests' <= (MaxRetries + 1) * (calls + 1)
    BY <1>4, <1>5
  <2>3. requests' <= (MaxRetries + 1) * calls'
    BY <2>2, <1>2
  <2>4. (MaxRetries + 1) * calls' \in Nat
    BY <1>2, Settings
  <2> QED BY <2>1, <2>3, <2>4
<1>7. ClassifyTypeOK'
  BY <1>1 DEF CInv, ClassifyTypeOK, Sent
<1> QED BY <1>6, <1>7 DEF CInv, Paid, calls

LEMMA CInvStep == CInv /\ [ClassifyNext]_classifyVars => CInv'
PROOF
<1> SUFFICES ASSUME CInv, [ClassifyNext]_classifyVars PROVE CInv'
  OBVIOUS
<1>1. CASE Project
  BY <1>1 DEF Project, loop, CInv, ClassifyTypeOK, Paid, Spent
<1>2. ASSUME NEW reason \in Transient, SufferTransient(reason) PROVE CInv'
  <2>1. Sent /\ semanticAttempts' = semanticAttempts /\ reductions' = reductions
    BY <1>2 DEF SufferTransient, Conclude, loop
  <2>2. \/ attempt < MaxRetries /\ attempt' = attempt + 1 /\ phase' = phase
        \/ attempt' = attempt /\ phase' \in Concluded
    BY <1>2 DEF SufferTransient, Conclude, CInv, ClassifyTypeOK
  <2> QED BY <2>1, <2>2, StayInCall
<1>3. CASE SufferNotFound
  <2>1. Sent /\ semanticAttempts' = semanticAttempts /\ reductions' = reductions
    BY <1>3 DEF SufferNotFound, loop
  <2>2. \/ attempt < MaxRetries /\ attempt' = attempt + 1 /\ phase' = phase
        \/ attempt' = attempt /\ phase' \in Concluded
    BY <1>3 DEF SufferNotFound, CInv, ClassifyTypeOK
  <2> QED BY <2>1, <2>2, StayInCall
<1>4. CASE SufferRefusal \/ SufferOther
  <2>1. Sent /\ semanticAttempts' = semanticAttempts /\ reductions' = reductions
    BY <1>4 DEF SufferRefusal, SufferOther, Conclude, loop
  <2>2. attempt' = attempt /\ phase' \in Concluded
    BY <1>4 DEF SufferRefusal, SufferOther, Conclude
  <2> QED BY <2>1, <2>2, StayInCall
<1>5. CASE ExceedContext
  <2>1. Sent /\ attempt' = attempt /\ semanticAttempts' = semanticAttempts
    BY <1>5 DEF ExceedContext, Conclude, loop
  <2>2. CASE reductions >= MaxReductions
    <3>1. reductions' = reductions /\ phase' \in Concluded
      BY <1>5, <2>2 DEF ExceedContext, Conclude, loop
    <3> QED BY <2>1, <3>1, StayInCall
  <2>3. CASE ~(reductions >= MaxReductions)
    <3>1. reductions' = reductions + 1 /\ phase' = "project"
      BY <1>5, <2>3 DEF ExceedContext
    <3>2. /\ reductions' \in 0 .. MaxReductions
          /\ semanticAttempts' \in 0 .. SemanticRetries
          /\ semanticAttempts' + reductions' = semanticAttempts + reductions + 1
      BY <2>1, <2>3, <3>1 DEF CInv, ClassifyTypeOK
    <3> QED BY <2>1, <3>1, <3>2, NextCall
  <2> QED BY <2>2, <2>3
<1>6. ASSUME NEW text \in Texts, Receive(text) PROVE CInv'
  <2>1. Sent /\ attempt' = attempt
    BY <1>6 DEF Receive
  <2>2. CASE Invalid(text) # "valid" /\ semanticAttempts < SemanticRetries
    <3>1. /\ reductions' = reductions /\ phase' = "project"
          /\ semanticAttempts' = semanticAttempts + 1
      BY <1>6, <2>2 DEF Receive
    <3>2. /\ reductions' \in 0 .. MaxReductions
          /\ semanticAttempts' \in 0 .. SemanticRetries
          /\ semanticAttempts' + reductions' = semanticAttempts + reductions + 1
      BY <2>2, <3>1 DEF CInv, ClassifyTypeOK
    <3> QED BY <2>1, <3>1, <3>2, NextCall
  <2>3. CASE ~(Invalid(text) # "valid" /\ semanticAttempts < SemanticRetries)
    <3>1. /\ reductions' = reductions /\ phase' \in Concluded
          /\ semanticAttempts' = semanticAttempts
      BY <1>6, <2>3 DEF Receive, Conclude, loop
    <3> QED BY <2>1, <3>1, StayInCall
  <2> QED BY <2>2, <2>3
<1>7. CASE UNCHANGED classifyVars
  BY <1>7 DEF classifyVars, loop, CInv, ClassifyTypeOK, Paid, Spent
<1> QED BY <1>1, <1>2, <1>3, <1>4, <1>5, <1>6, <1>7 DEF ClassifyNext

(* The account bounds the requests at every moment.                        *)
LEMMA CInvBounds == CInv => RequestsBounded
PROOF
<1> SUFFICES ASSUME CInv PROVE RequestsBounded
  OBVIOUS
<1> DEFINE calls == semanticAttempts + reductions
           most == SemanticRetries + MaxReductions
<1>1. /\ requests <= (MaxRetries + 1) * calls + Spent
      /\ Spent <= MaxRetries + 1 /\ Spent \in Nat /\ requests \in Nat
  BY Settings DEF CInv, ClassifyTypeOK, Paid, Spent
<1>2. calls \in Nat /\ most \in Nat /\ calls <= most
  BY Settings DEF CInv, ClassifyTypeOK
<1> HIDE DEF calls, most
<1>3. (MaxRetries + 1) * calls <= (MaxRetries + 1) * most
  BY <1>2, Settings, Monotone
<1>4. (MaxRetries + 1) * (most + 1) = (MaxRetries + 1) * most + (MaxRetries + 1)
  BY <1>2, OneMoreCall
<1>5. (MaxRetries + 1) * calls \in Nat /\ (MaxRetries + 1) * most \in Nat
  BY <1>2, Settings
<1>6. requests <= (MaxRetries + 1) * (most + 1)
  BY <1>1, <1>3, <1>4, <1>5, Settings
<1>7. most + 1 = SemanticRetries + MaxReductions + 1
  BY DEF most
<1> QED BY <1>6, <1>7 DEF RequestsBounded

(* For every number of retries, repetitions and reductions, a trajectory   *)
(* costs no more requests than the three bounds allow together.            *)
THEOREM Cost == ClassifySpec => []RequestsBounded
  BY CInvInit, CInvStep, CInvBounds, PTL DEF ClassifySpec

-----------------------------------------------------------------------------
(* Answers                                                                 *)

(* What the parser lets through keeps the contract.                        *)
LEMMA ValidKeeps ==
  ASSUME NEW text \in Texts, Invalid(text) = "valid"
  PROVE  Contract(Accepted(text))
<1>1. /\ text.form = "decision" /\ text.key # Unknown
      /\ Len(text.labels) \in 1..2 /\ IsInjective(text.labels) /\ Unknown \notin Range(text.labels)
  BY DEF Invalid, Texts
<1>2. text.key \in Scenarios \cup {Unknown} /\ text.labels \in LabelLists
  BY <1>1 DEF Texts
<1>3. PICK k \in 0..3 : text.labels \in [1..k -> Capabilities \cup {Unknown}]
  BY <1>2 DEF LabelLists
<1> DEFINE l == text.labels
<1>4. l \in Seq(Capabilities \cup {Unknown}) /\ Len(l) = k
  BY <1>3
<1>5. k \in 1..2
  BY <1>1, <1>4
<1>6. Range(l) \subseteq Capabilities
  BY <1>1, <1>3 DEF Range
<1>7. IsFiniteSet(1..k) /\ Cardinality(1..k) = k
  BY <1>5, FS_Interval
<1>8. l \in Bijection(1..k, Range(l))
  BY <1>1, <1>3 DEF Bijection, Injection, Surjection, IsInjective, Range
<1>9. Cardinality(Range(l)) = k
  BY <1>7, <1>8, FS_Bijection DEF ExistsBijection
<1>10. Len(<<text.key>>) = 1 /\ Range(<<text.key>>) = {text.key}
  BY DEF Range
<1> QED
  BY <1>1, <1>2, <1>4, <1>5, <1>6, <1>9, <1>10 DEF Contract, Accepted

LEMMA WholeUnlessCut ==
  ASSUME NEW t, NEW limit, ~Serialize(t, limit).cut
  PROVE  Serialize(t, limit).sent = Total(t)
<1>1. CASE Whole(t).size <= limit \/ t = <<>>
  BY <1>1 DEF Serialize, Whole
<1>2. CASE ~(Whole(t).size <= limit \/ t = <<>>)
  BY <1>2 DEF Serialize
<1> QED
  BY <1>1, <1>2

(* A request says whether it carries the whole transcript.                 *)
CutKnown == phase # "project" /\ ~request.cut => request.sent = Total(turns)

(* What is reported of the request is what the request carried.            *)
LEMMA BaseHonest ==
  ASSUME CutKnown, phase = "call", UNCHANGED <<turns, request>>
  PROVE  /\ Base.sent = request'.sent
         /\ ~Base.truncated => request'.sent = Total(turns)'
BY DEF CutKnown, Base

LEMMA FailedHonest ==
  ASSUME CutKnown, Sent, NEW reason, Conclude(Failed(reason)), Exhausted(reason)'
  PROVE  AnswersHonest'
<1>1. /\ outcome'.status = "failed" /\ outcome'.reason = reason /\ outcome'.base = Base
      /\ outcome'.cacheable = FALSE
  BY DEF Conclude, Failed
<1>2. /\ Base.sent = request'.sent
      /\ ~Base.truncated => request'.sent = Total(turns)'
  BY BaseHonest DEF Sent
<1> QED
  BY <1>1, <1>2 DEF AnswersHonest, Contract

LEMMA AcceptedHonest ==
  ASSUME CutKnown, Sent, NEW text \in Texts, Invalid(text) = "valid", Conclude(Accepted(text))
  PROVE  AnswersHonest'
<1>1. /\ outcome'.status = "accepted" /\ outcome'.base = Base /\ outcome'.cacheable = TRUE
      /\ outcome' = Accepted(text)
  BY DEF Conclude, Accepted
<1>2. /\ Base.sent = request'.sent
      /\ ~Base.truncated => request'.sent = Total(turns)'
  BY BaseHonest DEF Sent
<1>3. Contract(outcome')
  BY <1>1, ValidKeeps
<1> QED
  BY <1>1, <1>2, <1>3 DEF AnswersHonest, Contract

LEMMA HonestStep ==
  ASSUME CInv, CutKnown, AnswersHonest, [ClassifyNext]_classifyVars
  PROVE  CutKnown' /\ AnswersHonest'
<1>1. CASE UNCHANGED classifyVars
  BY <1>1 DEF classifyVars, loop, CutKnown, AnswersHonest, Contract, Exhausted
<1>2. CASE Project
  <2>1. request' = Serialize(turns, budget) /\ turns' = turns /\ phase' = "call"
    BY <1>2 DEF Project
  <2> QED
    BY <2>1, WholeUnlessCut DEF CutKnown, AnswersHonest
<1>3. ASSUME Sent PROVE CutKnown'
  BY <1>3 DEF Sent, CutKnown
<1>4. ASSUME NEW reason \in Transient, SufferTransient(reason) PROVE AnswersHonest'
  <2>1. CASE attempt = MaxRetries
    <3>1. Exhausted(reason)'
      <4>1. attempt' = MaxRetries
        BY <1>4, <2>1 DEF SufferTransient
      <4> QED
        BY <4>1, <1>4 DEF Exhausted, Transient
    <3> QED
      BY <1>4, <2>1, <3>1, FailedHonest DEF SufferTransient
  <2>2. CASE attempt # MaxRetries
    BY <1>4, <2>2 DEF SufferTransient, Sent, AnswersHonest
  <2> QED
    BY <2>1, <2>2
<1>5. ASSUME SufferNotFound \/ SufferRefusal PROVE AnswersHonest'
  BY <1>5 DEF SufferNotFound, SufferRefusal, Sent, AnswersHonest
<1>6. ASSUME SufferOther PROVE AnswersHonest'
  <2>1. Exhausted("classifier_http")'
    BY DEF Exhausted, Transient
  <2> QED
    BY <1>6, <2>1, FailedHonest DEF SufferOther
<1>7. ASSUME ExceedContext PROVE AnswersHonest'
  <2>1. CASE reductions >= MaxReductions
    <3>1. reductions' = MaxReductions
      BY <1>7, <2>1, Settings DEF ExceedContext, Conclude, loop, CInv, ClassifyTypeOK
    <3>2. Exhausted("context_limit_exhausted")'
      BY <3>1 DEF Exhausted, Transient
    <3> QED
      BY <1>7, <2>1, <3>2, FailedHonest DEF ExceedContext
  <2>2. CASE ~(reductions >= MaxReductions)
    BY <1>7, <2>2 DEF ExceedContext, AnswersHonest
  <2> QED
    BY <2>1, <2>2
<1>8. ASSUME NEW text \in Texts, Receive(text) PROVE AnswersHonest'
  <2>1. CASE Invalid(text) = "valid"
    BY <1>8, <2>1, AcceptedHonest DEF Receive
  <2>2. CASE Invalid(text) # "valid" /\ semanticAttempts < SemanticRetries
    BY <1>8, <2>2 DEF Receive, AnswersHonest
  <2>3. CASE Invalid(text) # "valid" /\ ~(semanticAttempts < SemanticRetries)
    <3>1. Sent /\ Conclude(Failed(Invalid(text)))
      BY <1>8, <2>3 DEF Receive
    <3>2. semanticAttempts' = SemanticRetries
      BY <2>3, <3>1, Settings DEF Conclude, loop, CInv, ClassifyTypeOK
    <3>3. Invalid(text) \in {"invalid_model_output_json", "invalid_model_output_fields",
                             "invalid_model_output_scenario_label",
                             "invalid_model_output_capability_labels"}
      BY <2>3 DEF Invalid
    <3>4. Exhausted(Invalid(text))'
      BY <3>2, <3>3 DEF Exhausted, Transient
    <3> QED
      BY <3>1, <3>4, FailedHonest
  <2> QED
    BY <2>1, <2>2, <2>3
<1> QED
  BY <1>1, <1>2, <1>3, <1>4, <1>5, <1>6, <1>7, <1>8
  DEF ClassifyNext, SufferTransient, SufferNotFound, SufferRefusal, SufferOther, ExceedContext, Receive

(* For every taxonomy, transcript and setting, whatever the endpoint       *)
(* answers and however its failures alternate, an answer keeps the label   *)
(* contract, says how much of the transcript its own request carried, and  *)
(* a failure is reported only when its retries are used up.                *)
THEOREM Honesty == ClassifySpec => []AnswersHonest
<1>1. ClassifyInit => CutKnown /\ AnswersHonest
  BY DEF ClassifyInit, CutKnown, AnswersHonest
<1> QED
  BY <1>1, CInvInit, CInvStep, HonestStep, PTL DEF ClassifySpec
-----------------------------------------------------------------------------
(* Repetitions                                                             *)

(* Induction over an interval, for a set in place of a predicate.          *)
LEMMA IntervalInduction ==
  ASSUME NEW N \in Nat, NEW S,
         0 \in S, \A n \in 0..N : n \in S /\ n < N => n + 1 \in S
  PROVE  \A n \in 0..N : n \in S
<1> DEFINE R == OpToRel(<, Nat)
           Bad == {n \in 0..N : n \notin S}
<1> SUFFICES ASSUME Bad # {} PROVE FALSE
  OBVIOUS
<1>1. IsWellFoundedOn(R, Nat)
  BY NatLessThanWellFounded, Zenon
<1>2. \A m, n \in Nat : m < n => <<m, n>> \in R
  BY Zenon DEF OpToRel
<1>3. Bad \subseteq Nat
  OBVIOUS
<1> HIDE DEF R
<1>4. \E n \in Bad : \A m \in Bad : ~ (<<m, n>> \in R)
  <2> HIDE DEF Bad
  <2> QED
    BY <1>1, <1>3, WFMin
<1>5. PICK n \in Bad : \A m \in Bad : ~ (<<m, n>> \in R)
  BY <1>4
<1>6. n # 0
  OBVIOUS
<1>7. n - 1 \in 0..N /\ n - 1 < n
  BY <1>6
<1>8. n - 1 \in S
  BY <1>2, <1>3, <1>5, <1>7
<1> QED
  BY <1>7, <1>8

Descends(D, V, m, step) ==
  \A x \in D : \A f, g \in [D -> V] :
    (\A y \in D : m[y] < m[x] => f[y] = g[y]) => step[<<x, f>>] = step[<<x, g>>]

Solvable(D, V, step) == \E f \in [D -> V] : \A x \in D : f[x] = step[<<x, f>>]

(* A recursive definition whose calls have a smaller measure has a         *)
(* solution: what CHOOSE, by which TLA+ defines recursive functions, needs *)
(* to be worth anything.                                                   *)
LEMMA Solution ==
  ASSUME NEW N \in Nat, NEW D, NEW V, NEW v \in V, NEW m \in [D -> 0..N],
         NEW step \in [D \X [D -> V] -> V], Descends(D, V, m, step)
  PROVE  Solvable(D, V, step)
<1> USE DEF Descends, Solvable
<1> DEFINE Solves(f, n) == \A x \in D : m[x] < n => f[x] = step[<<x, f>>]
           S == {n \in 0..N + 1 : \E f \in [D -> V] : Solves(f, n)}
<1>1. 0 \in S
  <2> DEFINE g == [x \in D |-> v]
  <2>1. g \in [D -> V]
    OBVIOUS
  <2>2. \A x \in D : ~ (m[x] < 0)
    OBVIOUS
  <2>3. Solves(g, 0)
    BY <2>2
  <2>4. 0 \in 0..N + 1
    OBVIOUS
  <2> HIDE DEF g, Solves
  <2> QED
    BY <2>1, <2>3, <2>4
<1>2. ASSUME NEW n \in 0..N + 1, n \in S, n < N + 1
      PROVE  n + 1 \in S
  <2>1. PICK f \in [D -> V] : Solves(f, n)
    BY <1>2
  <2> DEFINE g == [x \in D |-> step[<<x, f>>]]
  <2>2. g \in [D -> V] /\ \A x \in D : g[x] = step[<<x, f>>]
    OBVIOUS
  <2> HIDE DEF g
  <2>3. \A y \in D : m[y] < n => f[y] = g[y]
    BY <2>1, <2>2
  <2>4. ASSUME NEW x \in D, m[x] < n + 1 PROVE g[x] = step[<<x, g>>]
    <3>1. \A y \in D : m[y] < m[x] => f[y] = g[y]
      BY <2>3, <2>4
    <3>2. step[<<x, f>>] = step[<<x, g>>]
      BY <2>2, <3>1
    <3> QED
      BY <2>2, <3>2
  <2> QED
    BY <1>2, <2>2, <2>4
<1>3. N + 1 \in S
  <2> DEFINE M == N + 1
  <2>1. M \in Nat /\ M \in 0..M
    OBVIOUS
  <2>2. \A n \in 0..M : n \in S /\ n < M => n + 1 \in S
    BY <1>2
  <2> HIDE DEF S, M
  <2>3. \A n \in 0..M : n \in S
    BY <1>1, <2>1, <2>2, IntervalInduction
  <2> QED
    BY <2>1, <2>3 DEF M
<1>4. PICK f \in [D -> V] : Solves(f, N + 1)
  BY <1>3
<1>5. \A x \in D : m[x] < N + 1
  OBVIOUS
<1>6. \A x \in D : f[x] = step[<<x, f>>]
  BY <1>4, <1>5
<1> QED
  BY <1>6

(* The sum of finitely many lengths is a length.                           *)
Pick(s) == CHOOSE x \in s : TRUE

IsFold(iter, f, S) ==
  iter = [s \in SUBSET S |-> IF s = {} THEN 0 ELSE f[Pick(s)] + iter[s \ {Pick(s)}]]

LEMMA TotalIsFold ==
  ASSUME NEW S, NEW f, DOMAIN f = S, \E iter : IsFold(iter, f, S)
  PROVE  \E iter : IsFold(iter, f, S) /\ Total(f) = iter[S]
<1> DEFINE iter == CHOOSE iter : IsFold(iter, f, S)
<1>1. IsFold(iter, f, S)
  OBVIOUS
<1>2. Total(f) = iter[S]
  BY DEF Total, FoldFunction, FoldFunctionOnSet, MapThenFoldSet, IsFold, Pick
<1> QED
  BY <1>1, <1>2

LEMMA Smaller ==
  ASSUME NEW S, IsFiniteSet(S), NEW s \in SUBSET S, s # {}
  PROVE  /\ Pick(s) \in s /\ s \ {Pick(s)} \in SUBSET S
         /\ Cardinality(s \ {Pick(s)}) < Cardinality(s)
<1>1. Pick(s) \in s
  BY DEF Pick
<1>2. IsFiniteSet(s) /\ Cardinality(s) \in Nat
  BY FS_Subset, FS_CardinalityType
<1>3. Cardinality(s \ {Pick(s)}) = Cardinality(s) - 1
  BY <1>1, <1>2, FS_RemoveElement
<1> QED
  BY <1>1, <1>2, <1>3

LEMMA FoldExists ==
  ASSUME NEW S, IsFiniteSet(S), NEW f \in [S -> Nat]
  PROVE  \E iter : IsFold(iter, f, S)
<1> DEFINE D == SUBSET S
           N == Cardinality(S)
           m == [s \in D |-> Cardinality(s)]
           Body(s, g) == IF s = {} THEN 0 ELSE f[Pick(s)] + g[s \ {Pick(s)}]
           step == [p \in D \X [D -> Nat] |-> Body(p[1], p[2])]
<1>1. N \in Nat /\ \A s \in D : Cardinality(s) \in 0..N
  BY FS_Subset, FS_CardinalityType
<1>2. m \in [D -> 0..N]
  BY <1>1
<1>3. ASSUME NEW s \in D, NEW g \in [D -> Nat] PROVE Body(s, g) \in Nat
  <2>1. CASE s = {}
    BY <2>1
  <2>2. CASE s # {}
    <3>1. f[Pick(s)] \in Nat /\ g[s \ {Pick(s)}] \in Nat
      BY <2>2, Smaller
    <3> QED
      BY <2>2, <3>1
  <2> QED
    BY <2>1, <2>2
<1>4. step \in [D \X [D -> Nat] -> Nat]
  BY <1>3
<1>5. \A s \in D : \A g \in [D -> Nat] : step[<<s, g>>] = Body(s, g)
  OBVIOUS
<1>6. ASSUME NEW s \in D, NEW g \in [D -> Nat], NEW h \in [D -> Nat],
             \A r \in D : m[r] < m[s] => g[r] = h[r]
      PROVE  step[<<s, g>>] = step[<<s, h>>]
  <2>1. CASE s = {}
    BY <1>5, <2>1
  <2>2. CASE s # {}
    <3>1. g[s \ {Pick(s)}] = h[s \ {Pick(s)}]
      BY <1>6, <2>2, Smaller
    <3> QED
      BY <1>5, <3>1
  <2> QED
    BY <2>1, <2>2
<1>7. Solvable(D, Nat, step)
  <2>1. Descends(D, Nat, m, step)
    BY <1>6 DEF Descends
  <2>2. N \in Nat /\ 0 \in Nat
    BY <1>1
  <2> HIDE DEF D, N, m, step
  <2> QED
    BY ONLY <1>2, <1>4, <2>1, <2>2, Solution
<1>8. PICK g \in [D -> Nat] : \A s \in D : g[s] = step[<<s, g>>]
  BY <1>7 DEF Solvable
<1>9. \A s \in D : g[s] = Body(s, g)
  BY <1>5, <1>8
<1>10. g = [s \in D |-> Body(s, g)]
  BY <1>9
<1> QED
  BY <1>10 DEF IsFold

LEMMA TotalTyped ==
  ASSUME NEW S, IsFiniteSet(S), NEW f \in [S -> Nat]
  PROVE  Total(f) \in Nat
<1>1. PICK iter : IsFold(iter, f, S) /\ Total(f) = iter[S]
  BY FoldExists, TotalIsFold
<1> DEFINE N == Cardinality(S)
           T == {n \in 0..N : \A s \in SUBSET S : Cardinality(s) <= n => iter[s] \in Nat}
<1>2. N \in Nat /\ \A s \in SUBSET S : IsFiniteSet(s) /\ Cardinality(s) \in 0..N
  BY FS_Subset, FS_CardinalityType
<1>3. iter[{}] = 0
  BY <1>1 DEF IsFold
<1>4. 0 \in T
  <2>1. ASSUME NEW s \in SUBSET S, Cardinality(s) <= 0 PROVE s = {}
    BY <1>2, <2>1, FS_EmptySet
  <2> QED
    BY <1>2, <1>3, <2>1
<1>5. ASSUME NEW n \in 0..N, n \in T, n < N PROVE n + 1 \in T
  <2>1. ASSUME NEW s \in SUBSET S, Cardinality(s) <= n + 1 PROVE iter[s] \in Nat
    <3>1. CASE s = {}
      BY <1>3, <3>1
    <3>2. CASE s # {}
      <4>1. /\ Pick(s) \in S /\ s \ {Pick(s)} \in SUBSET S
            /\ Cardinality(s \ {Pick(s)}) < Cardinality(s)
        BY <3>2, Smaller
      <4>2. Cardinality(s \ {Pick(s)}) <= n
        BY <1>2, <2>1, <4>1
      <4>3. iter[s \ {Pick(s)}] \in Nat
        BY <1>5, <4>1, <4>2
      <4>4. iter[s] = f[Pick(s)] + iter[s \ {Pick(s)}]
        BY <1>1, <3>2 DEF IsFold
      <4> QED
        BY <4>1, <4>3, <4>4
    <3> QED
      BY <3>1, <3>2
  <2> QED
    BY <1>2, <1>5, <2>1
<1>6. N \in T
  <2> HIDE DEF T, N
  <2> QED
    BY <1>2, <1>4, <1>5, IntervalInduction
<1> QED
  BY <1>1, <1>2, <1>6

-----------------------------------------------------------------------------
(* The size of an excerpt                                                  *)

LEMMA Products ==
  ASSUME NEW a \in Nat, NEW b \in Nat PROVE a * b \in Nat
OBVIOUS

LEMMA PartTyped ==
  ASSUME NEW S, IsFiniteSet(S), NEW D \in SUBSET S, NEW t \in [S -> Nat], NEW part \in [D -> Nat]
  PROVE  TakenText(t, part) \in Nat /\ IsFiniteSet(D) /\ Cardinality(D) \in Nat
<1> DEFINE Short == {i \in DOMAIN part : part[i] < t[i]}
<1>1. IsFiniteSet(D) /\ Cardinality(D) \in Nat
  BY FS_Subset, FS_CardinalityType
<1>2. Cardinality(Short) \in Nat
  <2>1. Short \subseteq D
    OBVIOUS
  <2> HIDE DEF Short
  <2> QED
    BY <1>1, <2>1, FS_Subset, FS_CardinalityType
<1>3. MarkerCost * Cardinality(Short) \in Nat
  <2> HIDE DEF Short
  <2> QED
    BY <1>2, Products, ClassifierAssumption
<1>4. Total(part) \in Nat
  BY <1>1, TotalTyped
<1>5. TakenText(t, part) = Total(part) + MarkerCost * Cardinality(Short)
  BY DEF TakenText
<1> QED
  <2> HIDE DEF Short
  <2> QED
    BY <1>1, <1>3, <1>4, <1>5

LEMMA OffsetsTyped ==
  ASSUME NEW t \in Seq(Nat), NEW i \in DOMAIN t
  PROVE  Before(t, i) \in Nat /\ After(t, i) \in Nat
<1>1. /\ i \in 1..Len(t) /\ Len(t) \in Nat /\ \A j \in 1..Len(t) : t[j] \in Nat
  OBVIOUS
<1>2. [j \in 1..(i - 1) |-> t[j]] \in [1..(i - 1) -> Nat]
  BY <1>1
<1>3. [j \in (i + 1)..Len(t) |-> t[j]] \in [(i + 1)..Len(t) -> Nat]
  BY <1>1
<1>4. IsFiniteSet(1..(i - 1)) /\ IsFiniteSet((i + 1)..Len(t))
  <2>1. \A a, b \in Int : IsFiniteSet(a..b)
    BY FS_Interval
  <2>2. i - 1 \in Int /\ i + 1 \in Int /\ 1 \in Int /\ Len(t) \in Int
    BY <1>1
  <2> QED
    BY <2>1, <2>2
<1> QED
  BY <1>2, <1>3, <1>4, TotalTyped DEF Before, After

LEMMA TakesTyped ==
  ASSUME NEW t \in Seq(Nat), NEW chars \in Nat
  PROVE  /\ \E D \in SUBSET DOMAIN t : TakePrefix(t, chars) \in [D -> Nat]
         /\ \E D \in SUBSET DOMAIN t : TakeSuffix(t, chars) \in [D -> Nat]
<1> DEFINE P == {j \in DOMAIN t : Before(t, j) < chars}
           S == {j \in DOMAIN t : After(t, j) < chars}
<1>1. \A j \in DOMAIN t : t[j] \in Nat /\ Before(t, j) \in Nat /\ After(t, j) \in Nat
  BY OffsetsTyped
<1>2. \A j \in P : Least(t[j], chars - Before(t, j)) \in Nat
  BY <1>1 DEF Least
<1>3. \A j \in S : Least(t[j], chars - After(t, j)) \in Nat
  BY <1>1 DEF Least
<1>4. TakePrefix(t, chars) \in [P -> Nat]
  BY <1>2 DEF TakePrefix
<1>5. TakeSuffix(t, chars) \in [S -> Nat]
  BY <1>3 DEF TakeSuffix
<1>6. P \in SUBSET DOMAIN t /\ S \in SUBSET DOMAIN t
  OBVIOUS
<1> HIDE DEF P, S
<1> QED
  BY <1>4, <1>5, <1>6

(* What is tried is of some size, though not of one that grows with chars. *)
LEMMA TruncationTyped ==
  ASSUME NEW t \in Seq(Nat), NEW chars \in Nat
  PROVE  Truncation(t, chars).size \in Nat
<1> DEFINE half == Most(1, chars \div 2)
           head == TakePrefix(t, half)
           tail == TakeSuffix(t, Most(1, chars - half))
           n == Cardinality(DOMAIN head) + Cardinality(DOMAIN tail)
           text == TakenText(t, head) + TakenText(t, tail) + MarkerCost
           count == IF DOMAIN head \cap DOMAIN tail = {} THEN n + 1 ELSE n - 1
<1>1. half \in Nat /\ Most(1, chars - half) \in Nat
  BY DEF Most
<1>2. IsFiniteSet(DOMAIN t) /\ t \in [DOMAIN t -> Nat]
  <2>1. DOMAIN t = 1..Len(t) /\ Len(t) \in Nat
    OBVIOUS
  <2>2. t \in [DOMAIN t -> Nat]
    BY <2>1
  <2>3. IsFiniteSet(1..Len(t))
    <3>1. \A a, b \in Int : IsFiniteSet(a..b)
      BY FS_Interval
    <3> QED
      BY <2>1, <3>1
  <2> QED
    BY <2>1, <2>2, <2>3
<1>3. PICK H \in SUBSET DOMAIN t : head \in [H -> Nat]
  <2> HIDE DEF half
  <2> QED
    BY <1>1, TakesTyped
<1>4. PICK L \in SUBSET DOMAIN t : tail \in [L -> Nat]
  <2> HIDE DEF half
  <2> QED
    BY <1>1, TakesTyped
<1>5. Truncation(t, chars).size = NotesCost + TurnCost * count + text
  BY DEF Truncation
<1> HIDE DEF head, tail
<1>6. TakenText(t, head) \in Nat /\ IsFiniteSet(H) /\ Cardinality(H) \in Nat
  BY <1>2, <1>3, PartTyped
<1>7. TakenText(t, tail) \in Nat /\ IsFiniteSet(L) /\ Cardinality(L) \in Nat
  BY <1>2, <1>4, PartTyped
<1>8. DOMAIN head = H /\ DOMAIN tail = L
  BY <1>3, <1>4
<1>9. count \in Nat
  <2>1. CASE H \cap L = {}
    BY <1>6, <1>7, <1>8, <2>1
  <2>2. CASE H \cap L # {}
    <3>1. Cardinality(H) # 0
      BY <1>6, <2>2, FS_EmptySet
    <3> QED
      BY <1>6, <1>7, <1>8, <2>2, <3>1
  <2> QED
    BY <2>1, <2>2
<1>10. text \in Nat /\ NotesCost \in Nat /\ TurnCost \in Nat
  BY <1>6, <1>7, ClassifierAssumption
<1> HIDE DEF text, count
<1>11. TurnCost * count \in Nat
  BY <1>9, <1>10, Products
<1> QED
  BY <1>5, <1>10, <1>11

-----------------------------------------------------------------------------
(* The search                                                              *)

Reach(t) == 0..Total(t) + 1
Tried(t) == {Nothing} \cup {Truncation(t, chars) : chars \in Reach(t)}
Bounds(t) == [low : Reach(t), high : Reach(t), best : Tried(t)]
Middle(s) == (s.low + s.high - 1) \div 2
Higher(t, s) == [low |-> Middle(s) + 1, high |-> s.high, best |-> Truncation(t, Middle(s))]
Lower(s) == [low |-> s.low, high |-> Middle(s), best |-> s.best]

Turn(t, limit, s, g) ==
  IF s.low >= s.high THEN s.best
  ELSE IF Truncation(t, Middle(s)).size <= limit THEN g[Higher(t, s)] ELSE g[Lower(s)]

IsSearch(last, t, limit) == last = [s \in Bounds(t) |-> Turn(t, limit, s, last)]

Outset(t) == [low |-> 0, high |-> Total(t) + 1, best |-> Nothing]

LEMMA SearchIsLast ==
  ASSUME NEW t, NEW limit, \E last : IsSearch(last, t, limit)
  PROVE  \E last : IsSearch(last, t, limit) /\ Search(t, limit) = last[Outset(t)]
<1> DEFINE last == CHOOSE last : IsSearch(last, t, limit)
<1>1. IsSearch(last, t, limit)
  OBVIOUS
<1>2. Search(t, limit) = last[Outset(t)]
  BY DEF Search, IsSearch, Turn, Higher, Lower, Middle, Outset, Bounds, Tried, Reach
<1> QED
  BY <1>1, <1>2

Gap(s) == IF s.low < s.high THEN s.high - s.low ELSE 0

LEMMA SumTyped ==
  ASSUME NEW t \in Seq(Nat) PROVE Total(t) \in Nat
<1>1. Len(t) \in Nat /\ t \in [1..Len(t) -> Nat]
  OBVIOUS
<1>2. IsFiniteSet(1..Len(t))
  <2>1. \A a, b \in Int : IsFiniteSet(a..b)
    BY FS_Interval
  <2> QED
    BY <1>1, <2>1
<1> QED
  BY <1>1, <1>2, TotalTyped

(* The search goes on between smaller bounds.                              *)
LEMMA Halves ==
  ASSUME NEW t \in Seq(Nat), NEW s \in Bounds(t), ~ (s.low >= s.high)
  PROVE  /\ Middle(s) \in Reach(t)
         /\ Higher(t, s) \in Bounds(t) /\ Gap(Higher(t, s)) < Gap(s)
         /\ Lower(s) \in Bounds(t) /\ Gap(Lower(s)) < Gap(s)
<1>1. Total(t) \in Nat
  BY SumTyped
<1>2. s.low \in Reach(t) /\ s.high \in Reach(t) /\ s.best \in Tried(t)
  BY DEF Bounds
<1> DEFINE m == Middle(s)
<1>3. m \in Nat /\ s.low <= m /\ m < s.high
  BY <1>1, <1>2 DEF Middle, Reach
<1>4. m \in Reach(t) /\ m + 1 \in Reach(t)
  BY <1>1, <1>2, <1>3 DEF Reach
<1> HIDE DEF m
<1>5. Truncation(t, m) \in Tried(t)
  BY <1>4 DEF Tried
<1>6. Higher(t, s) = [low |-> m + 1, high |-> s.high, best |-> Truncation(t, m)]
  BY DEF Higher, m
<1>7. Lower(s) = [low |-> s.low, high |-> m, best |-> s.best]
  BY DEF Lower, m
<1>8. Higher(t, s) \in Bounds(t) /\ Lower(s) \in Bounds(t)
  BY <1>2, <1>4, <1>5, <1>6, <1>7 DEF Bounds
<1>9. Gap(Higher(t, s)) < Gap(s)
  BY <1>1, <1>2, <1>3, <1>6 DEF Gap, Reach
<1>10. Gap(Lower(s)) < Gap(s)
  BY <1>1, <1>2, <1>3, <1>7 DEF Gap, Reach
<1> QED
  BY <1>4, <1>8, <1>9, <1>10 DEF m

LEMMA GapTyped ==
  ASSUME NEW t \in Seq(Nat), NEW s \in Bounds(t) PROVE Gap(s) \in 0..Total(t) + 1
BY SumTyped DEF Bounds, Reach, Gap

LEMMA SearchExists ==
  ASSUME NEW t \in Seq(Nat), NEW limit
  PROVE  \E last : IsSearch(last, t, limit)
<1> DEFINE D == Bounds(t)
           V == Tried(t)
           N == Total(t) + 1
           m == [s \in D |-> Gap(s)]
           step == [p \in D \X [D -> V] |-> Turn(t, limit, p[1], p[2])]
<1>1. N \in Nat /\ Nothing \in V
  BY SumTyped DEF Tried
<1>2. m \in [D -> 0..N]
  BY GapTyped
<1>3. ASSUME NEW s \in D, NEW g \in [D -> V] PROVE Turn(t, limit, s, g) \in V
  <2>1. CASE s.low >= s.high
    <3>1. s.best \in V
      BY DEF Bounds
    <3> QED
      BY <2>1, <3>1 DEF Turn
  <2>2. CASE ~ (s.low >= s.high)
    <3>1. Higher(t, s) \in D /\ Lower(s) \in D
      BY <2>2, Halves
    <3>2. g[Higher(t, s)] \in V /\ g[Lower(s)] \in V
      BY <3>1
    <3> HIDE DEF V, D
    <3> QED
      BY <2>2, <3>2 DEF Turn
  <2> QED
    BY <2>1, <2>2
<1>4. step \in [D \X [D -> V] -> V]
  BY <1>3
<1>5. \A s \in D : \A g \in [D -> V] : step[<<s, g>>] = Turn(t, limit, s, g)
  OBVIOUS
<1>6. ASSUME NEW s \in D, NEW g \in [D -> V], NEW h \in [D -> V],
             \A r \in D : m[r] < m[s] => g[r] = h[r]
      PROVE  step[<<s, g>>] = step[<<s, h>>]
  <2>1. CASE s.low >= s.high
    BY <1>5, <2>1 DEF Turn
  <2>2. CASE ~ (s.low >= s.high)
    <3>1. /\ Higher(t, s) \in D /\ Gap(Higher(t, s)) < Gap(s)
          /\ Lower(s) \in D /\ Gap(Lower(s)) < Gap(s)
      BY <2>2, Halves
    <3>2. g[Higher(t, s)] = h[Higher(t, s)] /\ g[Lower(s)] = h[Lower(s)]
      BY <1>6, <3>1
    <3>3. Turn(t, limit, s, g) = Turn(t, limit, s, h)
      <4> HIDE DEF V, D
      <4> QED
        BY <2>2, <3>2 DEF Turn
    <3> QED
      BY <1>5, <3>3
  <2> QED
    BY <2>1, <2>2
<1>7. Solvable(D, V, step)
  <2>1. Descends(D, V, m, step)
    BY <1>6 DEF Descends
  <2> HIDE DEF D, N, V, m, step
  <2> QED
    BY ONLY <1>1, <1>2, <1>4, <2>1, Solution
<1>8. PICK g \in [D -> V] : \A s \in D : g[s] = step[<<s, g>>]
  BY <1>7 DEF Solvable
<1>9. \A s \in D : g[s] = Turn(t, limit, s, g)
  BY <1>5, <1>8
<1>10. g = [s \in D |-> Turn(t, limit, s, g)]
  BY <1>9
<1> QED
  BY <1>10 DEF IsSearch

Fits(r, limit) == r.size \in Nat /\ r.size <= Most(limit, NotesCost)

LEMMA Costs ==
  NotesCost \in Nat /\ TurnCost \in Nat /\ MaxContext \in Nat /\ LeastContext \in 0..MaxContext
BY ClassifierAssumption

(* Whatever the search finds is within the limit, although sizes do not    *)
(* grow with what is tried.                                                *)
LEMMA SearchFits ==
  ASSUME NEW t \in Seq(Nat), NEW limit \in Nat
  PROVE  Fits(Search(t, limit), limit)
<1>1. PICK last : IsSearch(last, t, limit) /\ Search(t, limit) = last[Outset(t)]
  BY SearchExists, SearchIsLast
<1> DEFINE N == Total(t) + 1
           T == {n \in 0..N : \A s \in Bounds(t) :
                   Gap(s) <= n /\ Fits(s.best, limit) => Fits(last[s], limit)}
<1>2. N \in Nat
  BY SumTyped
<1>3. \A s \in Bounds(t) : last[s] = Turn(t, limit, s, last)
  BY <1>1 DEF IsSearch
<1>4. ASSUME NEW s \in Bounds(t), s.low >= s.high PROVE last[s] = s.best
  BY <1>3, <1>4 DEF Turn
<1>5. ASSUME NEW s \in Bounds(t), Gap(s) <= 0 PROVE s.low >= s.high
  BY <1>5, SumTyped DEF Gap, Bounds, Reach
<1>6. 0 \in T
  BY <1>2, <1>4, <1>5
<1>7. ASSUME NEW n \in 0..N, n \in T, n < N PROVE n + 1 \in T
  <2>1. ASSUME NEW s \in Bounds(t), Gap(s) <= n + 1, Fits(s.best, limit)
        PROVE  Fits(last[s], limit)
    <3>1. CASE s.low >= s.high
      BY <1>4, <2>1, <3>1
    <3>2. CASE ~ (s.low >= s.high)
      <4>1. /\ Middle(s) \in Reach(t)
            /\ Higher(t, s) \in Bounds(t) /\ Gap(Higher(t, s)) < Gap(s)
            /\ Lower(s) \in Bounds(t) /\ Gap(Lower(s)) < Gap(s)
        BY <3>2, Halves
      <4>2. Gap(s) \in Nat /\ Gap(Higher(t, s)) \in Nat /\ Gap(Lower(s)) \in Nat
        BY <1>2, <4>1, GapTyped
      <4>3. Gap(Higher(t, s)) <= n /\ Gap(Lower(s)) <= n
        BY <1>2, <2>1, <4>1, <4>2
      <4>4. CASE Truncation(t, Middle(s)).size <= limit
        <5>1. Truncation(t, Middle(s)).size \in Nat
          <6>1. Middle(s) \in Nat
            BY <1>2, <4>1 DEF Reach
          <6> QED
            BY <6>1, TruncationTyped
        <5>2. Fits(Higher(t, s).best, limit)
          <6>1. Higher(t, s).best = Truncation(t, Middle(s))
            BY DEF Higher
          <6> QED
            BY <4>4, <5>1, <6>1, Costs DEF Fits, Most
        <5>3. last[s] = last[Higher(t, s)]
          BY <1>3, <3>2, <4>4 DEF Turn
        <5> QED
          BY <1>7, <4>1, <4>3, <5>2, <5>3
      <4>5. CASE ~ (Truncation(t, Middle(s)).size <= limit)
        <5>1. Lower(s).best = s.best
          BY DEF Lower
        <5>2. last[s] = last[Lower(s)]
          BY <1>3, <3>2, <4>5 DEF Turn
        <5> QED
          BY <1>7, <2>1, <4>1, <4>3, <5>1, <5>2
      <4> QED
        BY <4>4, <4>5
    <3> QED
      BY <3>1, <3>2
  <2> HIDE DEF N
  <2> QED
    BY <1>2, <1>7, <2>1
<1>8. N \in T
  <2>1. \A n \in 0..N : n \in T /\ n < N => n + 1 \in T
    BY <1>7
  <2> HIDE DEF N, T
  <2>2. N \in 0..N
    BY <1>2
  <2>3. \A n \in 0..N : n \in T
    BY ONLY <1>2, <1>6, <2>1, IntervalInduction
  <2> QED
    BY <2>2, <2>3
<1>9. Outset(t) \in Bounds(t) /\ Fits(Outset(t).best, limit)
  BY <1>2, Costs DEF Outset, Bounds, Reach, Tried, Fits, Nothing, Most
<1>10. Gap(Outset(t)) <= N
  BY <1>2, <1>9, GapTyped
<1> QED
  BY <1>1, <1>8, <1>9, <1>10

LEMMA SerializeFits ==
  ASSUME NEW t \in Seq(Nat), NEW limit \in Nat
  PROVE  Fits(Serialize(t, limit), limit)
<1>1. Total(t) \in Nat /\ Len(t) \in Nat
  BY SumTyped
<1>2. TurnCost * Len(t) \in Nat
  BY <1>1, Costs, Products
<1>3. Whole(t).size = NotesCost + TurnCost * Len(t) + Total(t)
  BY DEF Whole
<1>4. Whole(t).size \in Nat
  BY <1>1, <1>2, <1>3, Costs
<1>5. CASE Whole(t).size <= limit
  BY <1>4, <1>5, Costs DEF Serialize, Fits, Most
<1>6. CASE t = <<>>
  <2>1. Total(t) = 0
    <3>1. IsFiniteSet({}) /\ t \in [{} -> Nat]
      BY <1>6, FS_EmptySet
    <3>2. PICK iter : IsFold(iter, t, {}) /\ Total(t) = iter[{}]
      BY <3>1, FoldExists, TotalIsFold
    <3> QED
      BY <3>2 DEF IsFold
  <2>2. TurnCost * Len(t) = 0
    BY <1>6, Costs
  <2>3. Whole(t).size = NotesCost
    BY <1>3, <2>1, <2>2, Costs
  <2> QED
    BY <1>6, <2>3, Costs DEF Serialize, Fits, Most
<1>7. CASE ~ (Whole(t).size <= limit \/ t = <<>>)
  <2>1. Serialize(t, limit).size = Search(t, limit).size
    BY <1>7 DEF Serialize
  <2> QED
    BY <2>1, SearchFits DEF Fits
<1> QED
  BY <1>5, <1>6, <1>7

(* The budget in force, and that requests can be compared.                 *)
Sized == /\ budget \in LeastContext..MaxContext
         /\ request.size \in Nat

LEMMA ReducedLess ==
  ASSUME NEW b \in LeastContext..MaxContext
  PROVE  Reduced(b) \in LeastContext..MaxContext /\ Reduced(b) <= b
BY Costs DEF Reduced, Most

LEMMA ProjectFits ==
  ASSUME ClassifyTypeOK, Sized, Project
  PROVE  Fits(request', budget)
<1>1. turns \in Seq(Nat)
  BY ClassifierAssumption DEF ClassifyTypeOK
<1>2. budget \in Nat
  BY Costs DEF Sized
<1> QED
  BY <1>1, <1>2, SerializeFits DEF Project

LEMMA BudgetStep ==
  ASSUME ClassifyTypeOK, Sized, [ClassifyNext]_classifyVars
  PROVE  Sized' /\ budget' <= budget
<1>1. budget \in Int
  BY Costs DEF Sized
<1>2. CASE Project
  <2>1. request'.size \in Nat
    BY <1>2, ProjectFits DEF Fits
  <2>2. budget' = budget
    BY <1>2 DEF Project, loop
  <2> QED
    BY <1>1, <2>1, <2>2 DEF Sized
<1>3. CASE ExceedContext
  <2>1. request' = request /\ (budget' = budget \/ budget' = Reduced(budget))
    BY <1>3 DEF ExceedContext, Sent, Conclude, loop
  <2> QED
    BY <1>1, <2>1, ReducedLess DEF Sized
<1>4. ASSUME budget' = budget, request' = request PROVE Sized' /\ budget' <= budget
  BY <1>1, <1>4 DEF Sized
<1>5. ASSUME NEW reason \in Transient, SufferTransient(reason) PROVE budget' = budget /\ request' = request
  BY <1>5 DEF SufferTransient, Sent, Conclude, loop
<1>6. CASE SufferNotFound \/ SufferRefusal \/ SufferOther
  BY <1>4, <1>6 DEF SufferNotFound, SufferRefusal, SufferOther, Sent, Conclude, loop
<1>7. ASSUME NEW text \in Texts, Receive(text) PROVE budget' = budget /\ request' = request
  BY <1>7 DEF Receive, Sent, Conclude, loop
<1>8. CASE UNCHANGED classifyVars
  BY <1>4, <1>8 DEF classifyVars, loop
<1> QED
  BY <1>2, <1>3, <1>4, <1>5, <1>6, <1>7, <1>8 DEF ClassifyNext

LEMMA ShrinkStep ==
  ASSUME ClassifyTypeOK, Sized, [ClassifyNext]_classifyVars, phase = "project", classifyVars' # classifyVars
  PROVE  /\ request'.size <= Most(budget, NotesCost)
         /\ budget < request.size /\ NotesCost <= budget => request'.size < request.size
<1>1. Project
  BY DEF ClassifyNext, SufferTransient, SufferNotFound, SufferRefusal, SufferOther, ExceedContext,
         Receive, Sent
<1>2. Fits(request', budget)
  BY <1>1, ProjectFits
<1>3. budget \in Nat /\ NotesCost \in Nat /\ request.size \in Nat
  BY Costs DEF Sized
<1> QED
  BY <1>2, <1>3 DEF Fits, Most

(* Whatever the transcript and the costs of serializing it, the budget     *)
(* never grows, and a request that is made again is within it, and smaller *)
(* than one that exceeds it.                                               *)
THEOREM Shrinks == ClassifySpec => RepeatsShrink
<1>1. ClassifyInit => Sized
  BY Costs DEF ClassifyInit, Sized, NoRequest
<1>2. CInv /\ Sized /\ [ClassifyNext]_classifyVars => Sized'
  BY BudgetStep DEF CInv
<1>3. ASSUME CInv, Sized, [ClassifyNext]_classifyVars
      PROVE  [/\ budget' <= budget
              /\ phase = "project" /\ request # NoRequest =>
                   /\ request'.size <= Most(budget, NotesCost)
                   /\ budget < request.size /\ NotesCost <= budget
                        => request'.size < request.size]_classifyVars
  BY <1>3, BudgetStep, ShrinkStep DEF CInv
<1> QED
  BY <1>1, <1>2, <1>3, CInvInit, CInvStep, PTL DEF ClassifySpec, RepeatsShrink
=============================================================================
