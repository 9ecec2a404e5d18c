------------------------------ MODULE Dialplan ------------------------------
(***************************************************************************)
(* What a deployment of the IVR dialplan promises, without saying how.     *)
(* The tables the dialplan is generated from have a revision, counted up   *)
(* by every publish, bind, unbind and delete; the file holds the dialplan  *)
(* of some revision, and FreeSWITCH has loaded that of some other.  Neither *)
(* goes back to an older one.  A deployment answered with success has the  *)
(* revision it was asked for, or a newer one, in the file, and loaded too  *)
(* unless FreeSWITCH has answered its reload without loading: the answer   *)
(* cannot tell.  A redeployment that finds no flow bound promises nothing. *)
(***************************************************************************)
EXTENDS Naturals

CONSTANTS
  Request,
  All       \* the requests that redeploy every flow

VARIABLES
  revision,  \* of the tables
  written,   \* the revision in the file
  loaded,    \* the revision FreeSWITCH has loaded
  asked,     \* the revision each deployment has to bring, 0 before it is asked
  refused,   \* the deployments whose reload was answered and not done
  answer     \* what each deployment was answered

vars == <<revision, written, loaded, asked, refused, answer>>

Init ==
  /\ revision = 1 /\ written = 0 /\ loaded = 0
  /\ asked = [r \in Request |-> 0] /\ refused = {}
  /\ answer = [r \in Request |-> "none"]

Change == revision' = revision + 1 /\ UNCHANGED <<written, loaded, asked, refused, answer>>

Ask(r) ==
  /\ asked[r] = 0 /\ asked' = [asked EXCEPT ![r] = revision]
  /\ UNCHANGED <<revision, written, loaded, refused, answer>>

Write ==
  /\ written' \in written..revision
  /\ UNCHANGED <<revision, loaded, asked, refused, answer>>

Load ==
  /\ loaded' \in loaded..written
  /\ UNCHANGED <<revision, written, asked, refused, answer>>

RefuseLoad(r) ==
  /\ answer[r] = "none" /\ refused' = refused \cup {r}
  /\ UNCHANGED <<revision, written, loaded, asked, answer>>

Answers(r, a) ==
  /\ asked[r] # 0 /\ answer[r] = "none"
  /\ answer' = [answer EXCEPT ![r] = a]
  /\ UNCHANGED <<revision, written, loaded, asked, refused>>

Accept(r) == asked[r] <= written /\ (asked[r] <= loaded \/ r \in refused) /\ Answers(r, "ok")

\* Success with a warning: FreeSWITCH could not be asked.
Warn(r) == asked[r] <= written /\ Answers(r, "warned")

Skip(r) == r \in All /\ Answers(r, "nothing")

\* Not done, or not known to be done; a restart leaves several that way.
Fail(R) ==
  /\ \A r \in R : answer[r] = "none"
  /\ answer' = [r \in Request |-> IF r \in R THEN "failed" ELSE answer[r]]
  /\ UNCHANGED <<revision, written, loaded, asked, refused>>

Next ==
  \/ Change \/ Write \/ Load
  \/ \E r \in Request : Ask(r) \/ RefuseLoad(r) \/ Accept(r) \/ Warn(r) \/ Skip(r)
  \/ \E R \in SUBSET Request : Fail(R)

Spec == Init /\ [][Next]_vars

\* Every deployment that is asked for is answered.
Answered == \A r \in Request : asked[r] # 0 ~> answer[r] # "none"

=============================================================================
