------------------------- MODULE PublishingInvariant -------------------------
(***************************************************************************)
(* Why a job is shown at most once: the inductive invariant of Publishing. *)
(* Its parts are true of no single statement; they hold because the claim  *)
(* is atomic and no statement ever leads back out of the states after it.  *)
(***************************************************************************)
EXTENDS Publishing

\* A worker owns its job from the claim until it has recorded the outcome.
Owning == {"prepare", "publish", "log", "mark", "fail"}

\* A claimed job never becomes claimable again, and an approved one stays out
\* of the operators' hands.
Claimed   == {"PUBLISHING", "PUBLISHED", "FAILED"}
Committed == Claimed \cup {"APPROVED"}

\* The job of an owner was claimed, and it has no other owner; recovery may
\* have given it up meanwhile.
Ownership ==
    /\ \A w \in Workers : pc[w] \in Owning => status[job[w]] \in Claimed
    /\ \A v, w \in Workers :
          pc[v] \in Owning /\ pc[w] \in Owning /\ job[v] = job[w] => v = w

\* An owner that has still to publish finds nothing published, logged or
\* reported; one that has published has the id that says what it did.
OwnersPosts ==
    \A w \in Workers :
       /\ pc[w] \in {"prepare", "publish"} =>
             /\ posts[job[w]] = <<>>
             /\ successLog[job[w]] = "none"
             /\ status[job[w]] # "PUBLISHED"
       /\ pc[w] \in {"log", "mark"} => MediaID(w) = TrueID(job[w])

\* What is on Instagram or in the log was claimed; a success log and a
\* PUBLISHED row tell a post from a dry run.
JobsPosts ==
    \A j \in Jobs :
       /\ Len(posts[j]) <= 1
       /\ posts[j] # <<>> \/ successLog[j] # "none" => status[j] \in Claimed
       /\ status[j] = "PUBLISHED" => media[j] = TrueID(j)
       /\ successLog[j] # "none" => successLog[j] = TrueID(j)

LogsRead ==
    \A r \in Recoverers :
       rpc[r] = "mark" /\ found[r] # "none" => successLog[rjob[r]] = found[r]

\* A worker about to send a notice reports the state the row has for good.
NoticesDue ==
    \A w \in Workers :
       /\ pc[w] = "notePublished" => status[job[w]] = "PUBLISHED"
       /\ pc[w] = "noteFailed" => status[job[w]] = "FAILED"

\* From the listing on, a worker's job is beyond every change of the selection
\* but an overlapping generation's.
ChoiceHeld ==
    \A w \in Workers :
       /\ pass[w] = "approved" => \A j \in todo[w] : status[j] \in Committed
       /\ pc[w] \in {"load", "claim", "prepare", "publish"} =>
             status[job[w]] \in Committed
       /\ pc[w] \in {"claim", "prepare", "publish"} =>
             selected[job[w]] \in {variant[w], NULL}

\* One owner, one post: the parts above together.
OwnedOnce == Ownership /\ OwnersPosts /\ JobsPosts /\ LogsRead /\ NoticesDue /\ ChoiceHeld
=============================================================================
