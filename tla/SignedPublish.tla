---------------------------- MODULE SignedPublish ----------------------------
(***************************************************************************)
(* Runs of .github/scripts/publish_signed_pr.py that publish to one        *)
(* automation branch.  The workflows that call it name no concurrency      *)
(* group and are started by every push and by hand, so runs overlap, and a *)
(* runner may be cancelled between any two calls of the GitHub API.  Each  *)
(* action is one such call with the script's reaction to the answer; what  *)
(* the service does with the call is its side of the action.               *)
(***************************************************************************)
EXTENDS Integers, FiniteSets

CONSTANTS Runs,          \* the runs of the script
          MaxBase,       \* bound: commits the base branch gets
          MaxPushes,     \* bound: commits a maintainer pushes to the branch
          MaxCancelled   \* bound: runs that are cancelled

\* Runs are told apart from the other authors of commits.
ASSUME PublishAssumption == Runs \cap {"none", "base", "maintainer"} = {}

VARIABLES tip,       \* number of the newest commit of the base branch
          head,      \* what the automation branch points at
          pullOpen,  \* a pull request from the branch is open
          pushes,    \* commits the maintainer pushed
          pc,        \* where each run is
          base,      \* --base-sha of each run
          seen,      \* the head each run read
          signed,    \* the commits GitHub shows as verified
          readSince  \* a run read the head since the last one was cancelled
                     \* and the maintainer last pushed

publishVars == <<tip, head, pullOpen, pushes, pc, base, seen, signed, readSince>>

\* A commit is who made it and the base commit that is its only parent; one
\* on top of anything else has parent 0.  The base branch's and the
\* maintainer's commits are numbered instead.
NoRef == [by |-> "none", parent |-> 0]
BaseCommit(b) == [by |-> "base", parent |-> b]

Ended == {"unchanged", "published", "failed", "blocked", "cancelled"}
Running == {"reset", "commit", "verify", "list", "open"}

PublishInit ==
    /\ tip = 1
    /\ head = NoRef
    /\ pullOpen = FALSE
    /\ pushes = 0
    /\ pc = [r \in Runs |-> "idle"]
    /\ base = [r \in Runs |-> 1]
    /\ seen = [r \in Runs |-> NoRef]
    /\ signed = {}
    /\ readSince = FALSE

Goto(r, place) == pc' = [pc EXCEPT ![r] = place]
GotoIf(r, test, place) == Goto(r, IF test THEN place ELSE "failed")

(***************************************************************************)
(* The steps of main().                                                    *)
(***************************************************************************)
\* Nothing differs from the base.
NothingToPublish(r) ==
    /\ pc[r] = "idle"
    /\ Goto(r, "unchanged")
    /\ UNCHANGED <<tip, head, pullOpen, pushes, base, seen, signed, readSince>>

\* The branch is the default one, or a call before the read of the head fails.
Refuse(r) ==
    /\ pc[r] = "idle"
    /\ Goto(r, "failed")
    /\ UNCHANGED <<tip, head, pullOpen, pushes, base, seen, signed, readSince>>

\* The branch is another one, and its head is read from matching-refs.  A
\* re-run keeps the GITHUB_SHA of its first attempt, so the base is not
\* always the tip.
ReadHead(r) ==
    /\ pc[r] = "idle"
    /\ \E b \in 1..tip :
         /\ base' = [base EXCEPT ![r] = b]
         /\ seen' = [seen EXCEPT ![r] = head]
         /\ Goto(r, IF head = BaseCommit(b) THEN "commit" ELSE "reset")
    /\ readSince' = TRUE
    /\ UNCHANGED <<tip, head, pullOpen, pushes, signed>>

\* POST git/refs when there was no branch, refused if there is one by now.
CreateRef(r) ==
    /\ pc[r] = "reset" /\ seen[r] = NoRef
    /\ GotoIf(r, head = NoRef, "commit")
    /\ head' = IF head = NoRef THEN BaseCommit(base[r]) ELSE head
    /\ UNCHANGED <<tip, pullOpen, pushes, base, seen, signed, readSince>>

\* updateRefs with beforeOid: the service moves the branch only from there.
LeaseIgnored(r) == TRUE
LeaseHolds(r) == head = seen[r]

LeasedReset(r) ==
    /\ pc[r] = "reset" /\ seen[r] # NoRef
    /\ GotoIf(r, LeaseHolds(r), "commit")
    /\ head' = IF LeaseHolds(r) THEN BaseCommit(base[r]) ELSE head
    /\ UNCHANGED <<tip, pullOpen, pushes, base, seen, signed, readSince>>

\* createCommitOnBranch with expectedHeadOid; the service signs the commit,
\* or does not.
ExpectSeenHead(r) == seen[r]
CurrentHead(r) == head
ExpectedHead(r) == BaseCommit(base[r])

MadeCommit(r) == [by |-> r, parent |-> IF head.by = "base" THEN head.parent ELSE 0]
CreateCommit(r) ==
    /\ pc[r] = "commit"
    /\ GotoIf(r, head = ExpectedHead(r), "verify")
    /\ head' = IF head = ExpectedHead(r) THEN MadeCommit(r) ELSE head
    /\ \E ok \in BOOLEAN :
         signed' = IF ok /\ head = ExpectedHead(r)
                   THEN signed \union {MadeCommit(r)} ELSE signed
    /\ UNCHANGED <<tip, pullOpen, pushes, base, seen, readSince>>

\* verify_commit looks at the commit, wherever the branch is by now.
VerifyCommit(r) == [by |-> r, parent |-> base[r]] \in signed

Verify(r) ==
    /\ pc[r] = "verify"
    /\ \E opener \in {"self", "ring-0"} :
         GotoIf(r, VerifyCommit(r), IF opener = "self" THEN "list" ELSE "published")
    /\ UNCHANGED <<tip, head, pullOpen, pushes, base, seen, signed, readSince>>

ListPulls(r) ==
    /\ pc[r] = "list"
    /\ Goto(r, IF pullOpen THEN "published" ELSE "open")
    /\ UNCHANGED <<tip, head, pullOpen, pushes, base, seen, signed, readSince>>

\* gh pr create: opened, refused because one is open by now, or blocked by
\* the repository's policy, which the script reports as a retained commit.
OpenPull(r) ==
    /\ pc[r] = "open"
    /\ \/ /\ GotoIf(r, ~pullOpen, "published")
          /\ pullOpen' = TRUE
       \/ /\ Goto(r, "blocked")
          /\ UNCHANGED pullOpen
    /\ UNCHANGED <<tip, head, pushes, base, seen, signed, readSince>>

(***************************************************************************)
(* The rest of the world.                                                  *)
(***************************************************************************)
\* The runner is cancelled, or a call fails for another reason than the ones
\* above: the script ends before what the call does, or after it when only
\* the answer is lost.
Cancel(r) ==
    /\ pc[r] \in Running
    /\ Cardinality({q \in Runs : pc[q] = "cancelled"}) < MaxCancelled
    /\ Goto(r, "cancelled")
    /\ readSince' = FALSE
    /\ UNCHANGED <<tip, head, pullOpen, pushes, base, seen, signed>>

BaseAdvances ==
    /\ tip < MaxBase
    /\ tip' = tip + 1
    /\ UNCHANGED <<head, pullOpen, pushes, pc, base, seen, signed, readSince>>

MaintainerPushes ==
    /\ pushes < MaxPushes /\ head # NoRef
    /\ pushes' = pushes + 1
    /\ head' = [by |-> "maintainer", parent |-> pushes']
    /\ readSince' = FALSE
    /\ UNCHANGED <<tip, pullOpen, pc, base, seen, signed>>

Step(r) ==
    \/ NothingToPublish(r) \/ Refuse(r) \/ ReadHead(r) \/ CreateRef(r)
    \/ LeasedReset(r) \/ CreateCommit(r) \/ Verify(r) \/ ListPulls(r) \/ OpenPull(r)
PublishNext ==
    \/ \E r \in Runs : Step(r) \/ Cancel(r)
    \/ BaseAdvances \/ MaintainerPushes
PublishSpec == PublishInit /\ [][PublishNext]_publishVars

(***************************************************************************)
(* Properties.                                                             *)
(***************************************************************************)
\* The script's first lines: "using beforeOid as a lease".  A commit, a
\* maintainer's or another run's, leaves the branch only by a run that read
\* it as the head, however the runs interleave.
UnreadCommitsStay ==
    [][\A r \in Runs :
         (pc[r] # pc'[r] /\ head' # head /\ head.by \notin {"base", "none"})
           => seen[r] = head]_publishVars

\* Whatever races or is cancelled, a commit a run made is the one commit on
\* top of that run's own base, which is the shape the ring-0 sweep accepts.
SingleCommitOnOwnBase ==
    head.by \in Runs => head = [by |-> head.by, parent |-> base[head.by]]

\* Runs that fail because of each other never all fail, and a branch that a
\* cancelled run or a maintainer left behind in any state can be published
\* over: once every run has ended, and one of them read the head after the
\* last cancellation and the last push, the branch holds a commit of a run.
RaceHasWinner ==
    (\A r \in Runs : pc[r] \in Ended) /\ readSince => head.by \in Runs

=============================================================================
