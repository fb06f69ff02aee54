------------------------------ MODULE ProofCI ------------------------------
(***************************************************************************)
(* The proof workflow of the repository: pull-request runs build the       *)
(* Isabelle sessions and publish the heaps they built; a push to main may  *)
(* start from those heaps or from a cache written by an earlier push, but  *)
(* must build and audit natively all the same (scripts/proof-ci.mjs, the   *)
(* commands of the workflow proofs.yml).                                   *)
(*                                                                         *)
(* What runs concurrently: pull requests that advance and are merged, runs *)
(* queued, cancelled and re-run by the host, artifacts and cache entries   *)
(* that expire or arrive damaged, permissions that change.  A source tree  *)
(* is the set of merged revisions it contains, and a digest is the thing   *)
(* it is a digest of.                                                      *)
(***************************************************************************)
EXTENDS Integers, FiniteSets, Sequences, Functions

CONSTANTS
  PullRequests,
  Forks,        \* pull requests whose head is in another repository
  DriverPRs,    \* pull requests that change tools, pins, options or driver
  MaxRevision,  \* bound on the revisions of a pull request (of a fork: one)
  MaxRuns,      \* bound on the attempts of all workflow runs together
  NoPR,
  None          \* no saved state, no artifact

ASSUME ProofCIAssumption ==
  /\ Forks \subseteq PullRequests
  /\ DriverPRs \subseteq PullRequests
  /\ NoPR \notin PullRequests
  /\ {MaxRevision, MaxRuns} \subseteq Nat \ {0}

VARIABLES
  pulls,      \* pull request -> revision, merged, the main commit of its merge
  commits,    \* the trees of main, in order: sets of <<pull request, revision>>
  permitted,  \* pull requests whose actor has write permission now
  runs,       \* the workflow runs, in order of creation
  artifacts,  \* uploaded states of pull-request runs
  caches      \* saved states of main, oldest first

vars == <<pulls, commits, permitted, runs, artifacts, caches>>

RunId == 1 .. MaxRuns

(* Tool and dependency pins, OS release, options and driver digests. *)
profileIdentity(tree) == {change \in tree : change[1] \in DriverPRs}

FaultySourceIdentity(tree) ==     \* the fingerprint of the driver inputs only
  {change \in tree : change[1] \in DriverPRs}

(* The fingerprint of every tracked file. *)
sourceIdentity(tree) == tree

----------------------------------------------------------------------------
(* Events of the host: revisions, merges, re-runs, expiry, permissions.    *)

Fresh(event, p, head, commit, tree, attempt) ==
  [event |-> event, pr |-> p, head |-> head, commit |-> commit, tree |-> tree,
   attempt |-> attempt, step |-> "queued", hit |-> FALSE, mainState |-> None,
   prState |-> None, selected |-> None, heaps |-> "absent",
   origin |-> "none", result |-> "none"]

Active(run) == run.step # "done"

Attempts == FoldFunction(LAMBDA run, n : n + run.attempt, 0, runs)

(* The runner and its disk go; what a success was made of is remembered.   *)
Ended(run, result) ==
  [run EXCEPT !.step = "done", !.result = result,
              !.hit = FALSE, !.mainState = None, !.prState = None,
              !.selected = None,
              !.heaps = IF result = "success" THEN @ ELSE "absent",
              !.origin = IF result = "success" THEN @ ELSE "none"]

(* The concurrency group: a newer pull-request run cancels what runs in    *)
(* its group, a newer push only the push that still waits.                 *)
Supersede(event, p) ==
  [i \in DOMAIN runs |->
     IF /\ runs[i].event = event /\ runs[i].pr = p
        /\ runs[i].step = "queued" \/ (event = "pull_request" /\ Active(runs[i]))
     THEN Ended(runs[i], "cancelled") ELSE runs[i]]

MainTree == commits[Len(commits)]

(* A pull-request run checks out the merge of its head into main. *)
MergeTree(p, revision) ==
  {change \in MainTree : change[1] # p} \cup {<<p, revision>>}

OpenRun(p) ==
  /\ ~pulls[p].merged
  /\ Attempts < MaxRuns
  /\ \A i \in DOMAIN runs : ~(runs[i].pr = p /\ runs[i].event = "pull_request"
                              /\ runs[i].head = pulls[p].revision)
  /\ runs' = Append(Supersede("pull_request", p),
                    Fresh("pull_request", p, pulls[p].revision, 0,
                          MergeTree(p, pulls[p].revision), 1))
  /\ UNCHANGED <<pulls, commits, permitted, artifacts, caches>>

Revise(p) ==
  /\ ~pulls[p].merged
  /\ p \notin Forks
  /\ pulls[p].revision < MaxRevision
  /\ pulls' = [pulls EXCEPT ![p].revision = @ + 1]
  /\ UNCHANGED <<commits, permitted, runs, artifacts, caches>>

Merge(p) ==
  LET tree == MergeTree(p, pulls[p].revision) IN
  /\ ~pulls[p].merged
  /\ Attempts < MaxRuns
  /\ commits' = Append(commits, tree)
  /\ pulls' = [pulls EXCEPT ![p].merged = TRUE, ![p].commit = Len(commits) + 1]
  /\ runs' = Append(Supersede("push", NoPR),
                    Fresh("push", NoPR, 0, Len(commits) + 1, tree, 1))
  /\ UNCHANGED <<permitted, artifacts, caches>>

(* A called or dispatched run with clean = true. *)
CleanRun ==
  /\ Attempts < MaxRuns
  /\ \A i \in DOMAIN runs : runs[i].event # "clean"
  /\ runs' = Append(runs, Fresh("clean", NoPR, 0, Len(commits), MainTree, 1))
  /\ UNCHANGED <<pulls, commits, permitted, artifacts, caches>>

Rerun(i) ==
  /\ runs[i].step = "done"
  /\ Attempts < MaxRuns
  /\ \A j \in DOMAIN runs : runs[j].event = runs[i].event /\ runs[j].pr = runs[i].pr
                            => ~Active(runs[j])
  /\ runs' = [runs EXCEPT ![i] = Fresh(@.event, @.pr, @.head, @.commit, @.tree,
                                       @.attempt + 1)]
  /\ UNCHANGED <<pulls, commits, permitted, artifacts, caches>>

ChangePermission(p) ==
  /\ p \notin Forks
  /\ permitted' = IF p \in permitted THEN permitted \ {p} ELSE permitted \cup {p}
  /\ UNCHANGED <<pulls, commits, runs, artifacts, caches>>

Expire ==
  /\ \/ /\ \E a \in artifacts : artifacts' = artifacts \ {a}
        /\ UNCHANGED caches
     \/ /\ caches # <<>>
        /\ caches' = Tail(caches)
        /\ UNCHANGED artifacts
  /\ UNCHANGED <<pulls, commits, permitted, runs>>

----------------------------------------------------------------------------
(* The steps of one attempt.                                               *)

(* One push at a time; the policy checks, then the identity of the tree.   *)
Start(i) ==
  /\ runs[i].step = "queued"
  /\ \A j \in DOMAIN runs \ {i} :
       runs[j].event = runs[i].event /\ runs[j].pr = runs[i].pr
       => runs[j].step \in {"queued", "done"}
  /\ \/ runs' = [runs EXCEPT ![i].step =
                     IF runs[i].event = "clean" THEN "build" ELSE "cache"]
     \/ runs' = [runs EXCEPT ![i] = Ended(@, "failure")]
  /\ UNCHANGED <<pulls, commits, permitted, artifacts, caches>>

SameKey(state, run) ==
  /\ state.profile = profileIdentity(run.tree)
  /\ state.source = sourceIdentity(run.tree)

(* The exact key, or else the newest entry of the same profile. *)
CacheFor(run) ==
  LET exact  == {k \in DOMAIN caches : SameKey(caches[k], run)}
      prefix == {k \in DOMAIN caches :
                   caches[k].profile = profileIdentity(run.tree)}
      found  == IF exact # {} THEN exact ELSE prefix
  IN {k \in found : \A other \in found : other <= k}

Damaged(state) == [state EXCEPT !.intact = FALSE]

RestoreCache(i) ==
  LET next == IF runs[i].event = "push" THEN "select" ELSE "restore" IN
  /\ runs[i].step = "cache"
  /\ \/ \E k \in CacheFor(runs[i]) :
          runs' = [runs EXCEPT ![i].step = next, ![i].mainState = caches[k],
                               ![i].hit = SameKey(caches[k], runs[i])]
     \/ \E k \in CacheFor(runs[i]) :
          runs' = [runs EXCEPT ![i].step = next,
                               ![i].mainState = Damaged(caches[k])]
     \/ runs' = [runs EXCEPT ![i].step = next]
  /\ UNCHANGED <<pulls, commits, permitted, artifacts, caches>>

eligibleRun(run, p) ==
  /\ pulls[p].merged
  /\ p \notin Forks
  /\ run.event = "pull_request"
  /\ run.step = "done" /\ run.result = "success"
  /\ run.pr = p /\ run.head = pulls[p].revision

(* The lookup names the artifact after the current identity and the        *)
(* attempt the run is at now.                                              *)
selectPrArtifact(run) ==
  {a \in artifacts :
     /\ a.attempt = runs[a.run].attempt
     /\ SameKey(a, run)
     /\ \E p \in permitted : pulls[p].commit = run.commit
                             /\ eligibleRun(runs[a.run], p)}

FaultySelectPr(i) ==              \* an unavailable lookup is not caught
  /\ runs[i].step = "select"
  /\ \E a \in selectPrArtifact(runs[i]) :
       runs' = [runs EXCEPT ![i].step = "download",
                  ![i].selected = [run |-> a.run, attempt |-> a.attempt]]
  /\ UNCHANGED <<pulls, commits, permitted, artifacts, caches>>

(* The lookup may also fail, which is not an error. *)
SelectPr(i) ==
  /\ runs[i].step = "select"
  /\ \/ \E a \in selectPrArtifact(runs[i]) :
          runs' = [runs EXCEPT ![i].step = "download",
                     ![i].selected = [run |-> a.run, attempt |-> a.attempt]]
     \/ runs' = [runs EXCEPT ![i].step = "restore"]
  /\ UNCHANGED <<pulls, commits, permitted, artifacts, caches>>

(* What was selected may have expired since, or arrive damaged. *)
Download(i) ==
  LET there == {a \in artifacts : /\ a.run = runs[i].selected.run
                                  /\ a.attempt = runs[i].selected.attempt}
  IN
  /\ runs[i].step = "download"
  /\ \E state \in there \cup {Damaged(a) : a \in there} \cup {None} :
       runs' = [runs EXCEPT ![i].step = "restore", ![i].prState = state]
  /\ UNCHANGED <<pulls, commits, permitted, artifacts, caches>>

FaultyValidateState(state, run, origin) ==   \* no comparison of the inventory
  /\ state # None
  /\ state.profile = profileIdentity(run.tree)
  /\ IF origin = "pr"
     THEN /\ state.source = sourceIdentity(run.tree)
          /\ state.event = "pull_request"
          /\ state.run = run.selected.run
     ELSE state.event = "push"

validateState(state, run, origin) ==
  /\ state # None
  /\ state.intact
  /\ state.profile = profileIdentity(run.tree)
  /\ IF origin = "pr"
     THEN /\ state.source = sourceIdentity(run.tree)
          /\ state.event = "pull_request"
          /\ state.run = run.selected.run
     ELSE state.event = "push"

(* Copying verified heaps into place: all of them, none, or some of them   *)
(* before an I/O error.                                                    *)
CopyOutcome(state, run, origin) ==
  IF validateState(state, run, origin)
  THEN {origin, "absent", "partial"} ELSE {"absent"}

(* The states tried in turn; whatever is left of an interrupted copy stops *)
(* the job, because the destination must be fresh.                         *)
RestoreOutcome(run) ==
  LET first == CopyOutcome(run.prState, run, "pr")
  IN (first \ {"absent"}) \cup
     (IF "absent" \in first THEN CopyOutcome(run.mainState, run, "main") ELSE {})

Restore(i) ==
  /\ runs[i].step = "restore"
  /\ \E heaps \in RestoreOutcome(runs[i]) :
       runs' = IF heaps = "partial"
               THEN [runs EXCEPT ![i] = Ended(@, "failure")]
               ELSE [runs EXCEPT ![i].step = "build", ![i].heaps = heaps,
                       ![i].origin = IF heaps = "absent" THEN "none" ELSE heaps]
  /\ UNCHANGED <<pulls, commits, permitted, artifacts, caches>>

FaultySeals(run) == run.event # "clean"   \* forks publish too

Seals(run) ==
  run.event = "push" \/ (run.event = "pull_request" /\ run.pr \notin Forks)

(* Scan, native build of every session, export and audit, in that order;   *)
(* the first to fail fails the job.                                        *)
Build(i) ==
  /\ runs[i].step = "build"
  /\ \/ runs' = [runs EXCEPT ![i].heaps = "built",
                     ![i].step = IF Seals(runs[i]) THEN "seal" ELSE "report"]
     \/ runs' = [runs EXCEPT ![i] = Ended(@, "failure")]
  /\ UNCHANGED <<pulls, commits, permitted, artifacts, caches>>

(* The receipt, and who may publish what it describes: a pull request an   *)
(* artifact, main a cache entry unless the exact key is there already.     *)
Seal(i) ==
  LET run == runs[i]
      receipt == [profile |-> profileIdentity(run.tree),
                  source |-> sourceIdentity(run.tree), event |-> run.event,
                  run |-> i, attempt |-> run.attempt, intact |-> TRUE]
      stored == \E k \in DOMAIN caches : SameKey(caches[k], run)
  IN
  /\ run.step = "seal"
  /\ runs' = [runs EXCEPT ![i].step = "report"]
  /\ artifacts' = IF run.event = "pull_request"
                  THEN artifacts \cup {receipt} ELSE artifacts
  /\ caches' = IF run.event = "push" /\ ~run.hit /\ ~stored
               THEN Append(caches, receipt) ELSE caches
  /\ UNCHANGED <<pulls, commits, permitted>>

(* The aggregate job requires the success of both jobs. *)
Report(i) ==
  /\ runs[i].step = "report"
  /\ runs' = [runs EXCEPT ![i] = Ended(@, "success")]
  /\ UNCHANGED <<pulls, commits, permitted, artifacts, caches>>

Timeout(i) ==
  /\ runs[i].step \notin {"queued", "done"}
  /\ runs' = [runs EXCEPT ![i] = Ended(@, "failure")]
  /\ UNCHANGED <<pulls, commits, permitted, artifacts, caches>>

Advance(i) ==
  \/ Start(i) \/ RestoreCache(i) \/ SelectPr(i) \/ Download(i)
  \/ Restore(i) \/ Build(i) \/ Seal(i) \/ Report(i)

Init ==
  /\ pulls = [p \in PullRequests |->
               [revision |-> 1, merged |-> FALSE, commit |-> 0]]
  /\ commits = <<{}>>
  /\ permitted = PullRequests \ Forks
  /\ runs = <<>>
  /\ artifacts = {}
  /\ caches = <<>>

Next ==
  \/ \E p \in PullRequests :
       Revise(p) \/ OpenRun(p) \/ Merge(p) \/ ChangePermission(p)
  \/ CleanRun \/ Expire
  \/ \E i \in DOMAIN runs : Rerun(i) \/ Timeout(i) \/ Advance(i)

(* The host keeps running the jobs it has started or queued. *)
Fairness == \A i \in RunId : WF_vars(i \in DOMAIN runs /\ Advance(i))

Spec == Init /\ [][Next]_vars /\ Fairness

----------------------------------------------------------------------------
(* Properties.                                                             *)

(* What a push takes from a pull request was built from the very tree it   *)
(* is about to build, by a run of the final head of the pull request whose *)
(* merge made this commit: also when main moved between that run and the   *)
(* merge, when the pull request advanced, or when runs are repeated.       *)
ReuseExact ==
  \A i \in DOMAIN runs : runs[i].origin = "pr" =>
    \E p \in PullRequests \ Forks, j \in DOMAIN runs :
      /\ runs[i].event = "push" /\ pulls[p].commit = runs[i].commit
      /\ runs[j].event = "pull_request" /\ runs[j].pr = p
      /\ runs[j].head = pulls[p].revision
      /\ runs[j].tree = runs[i].tree

(* Shared state belongs to its writers: an entry of the cache is the build *)
(* of a commit of main and there is one per key; an artifact comes from a  *)
(* run of a pull request of this repository; a clean run leaves neither.   *)
SharedStateOwned ==
  /\ \A k \in DOMAIN caches :
       /\ \E n \in DOMAIN commits : caches[k].source = sourceIdentity(commits[n])
       /\ runs[caches[k].run].event = "push"
       /\ \A other \in DOMAIN caches \ {k} : ~ (/\ caches[other].source = caches[k].source
                                             /\ caches[other].profile = caches[k].profile)
  /\ \A a \in artifacts : /\ runs[a.run].event = "pull_request"
                          /\ runs[a.run].pr \notin Forks

(* Reuse is an input of the build and never replaces it: the build starts  *)
(* from heaps that are absent or whole, of the profile in force (and for a *)
(* pull request of this source), a clean one from nothing; and no run      *)
(* succeeds without having built natively in that very attempt.            *)
NativeBuild ==
  \A i \in DOMAIN runs :
    LET run == runs[i]
        whole(state) == /\ state # None /\ state.intact
                        /\ state.profile = profileIdentity(run.tree)
    IN /\ run.step = "build" =>
            /\ run.heaps = "main" => whole(run.mainState)
            /\ run.heaps = "pr" => /\ whole(run.prState)
                                   /\ run.prState.source = sourceIdentity(run.tree)
            /\ run.heaps \in {"absent", "main", "pr"}
            /\ run.event = "clean" => run.heaps = "absent"
       /\ run.result = "success" => run.heaps = "built"

(* Whatever is missing, damaged or denied, and however runs supersede and  *)
(* wait for each other, every run that was created or repeated concludes.  *)
EveryRunConcludes ==
  \A i \in RunId :
    (i \in DOMAIN runs /\ Active(runs[i]))
      ~> (i \in DOMAIN runs /\ ~Active(runs[i]))
=============================================================================
