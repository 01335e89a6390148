--------------------------- MODULE ManifestRelease ---------------------------
(***************************************************************************)
(* What publication promises to a consumer that reads manifest.json and    *)
(* then verifies every file it names against the recorded digest.  A       *)
(* release is a manifest: a function from file names to digests.  The      *)
(* consumer is served the release in force, or Nothing when some named     *)
(* file no longer has the recorded content.                                *)
(*                                                                         *)
(* A flat layout cannot swap all its files at once, so a run in progress   *)
(* may take the service down; it may never serve a mixture, commit an      *)
(* incomplete release, or end successfully with anything but its own       *)
(* release in service.                                                     *)
(***************************************************************************)
CONSTANTS Releases,      \* the manifests that a run may commit
          Nothing        \* served when the release in force does not verify

VARIABLES release,       \* the manifest in force, Nothing before the first
          served,        \* what a verifying consumer obtains
          running        \* whether a run is under way

vars == <<release, served, running>>

TypeOK == /\ release \in Releases \cup {Nothing}
          /\ served \in {release, Nothing}
          /\ running \in BOOLEAN

Init == /\ release \in Releases \cup {Nothing}
        /\ served \in {release, Nothing}
        /\ running = FALSE

Begin == /\ ~running
         /\ running' = TRUE
         /\ UNCHANGED <<release, served>>

(* Same-named files are being replaced.                                    *)
Disturb == /\ running
           /\ served' = Nothing
           /\ UNCHANGED <<release, running>>

(* The content written so far happens to be the content of the release.    *)
Restore == /\ running
           /\ served' = release
           /\ UNCHANGED <<release, running>>

Commit(r) == /\ running
             /\ release' = r
             /\ served' = r
             /\ UNCHANGED running

Succeed == /\ running
           /\ served = release
           /\ release \in Releases
           /\ running' = FALSE
           /\ UNCHANGED <<release, served>>

Abandon == /\ running
           /\ running' = FALSE
           /\ UNCHANGED <<release, served>>

Next == \/ Begin \/ Disturb \/ Restore \/ Succeed \/ Abandon
        \/ \E r \in Releases : Commit(r)

Spec == Init /\ [][Next]_vars
=============================================================================
