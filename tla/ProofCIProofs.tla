--------------------------- MODULE ProofCIProofs ---------------------------
(***************************************************************************)
(* What the proof workflow reuses is what it would have built, for every   *)
(* set of pull requests and forks and any number of revisions and runs.    *)
(***************************************************************************)
EXTENDS ProofCI, SequenceTheorems, TLAPS

USE ProofCIAssumption
-----------------------------------------------------------------------------
(* The inductive invariant *)

\* The types of the variables: a tree is a set of changes, a state what a
\* receipt describes, and a run records who asked for it and how far it is.
Change == PullRequests \X Nat
Tree == SUBSET Change
Events == {"pull_request", "push", "clean"}
Steps == {"queued", "cache", "select", "download", "restore", "build", "seal", "report",
          "done"}
State == [profile: Tree, source: Tree, event: Events, run: Nat, attempt: Nat,
          intact: BOOLEAN]
Selection == [run: Nat, attempt: Nat]
Run == [event: Events, pr: PullRequests \cup {NoPR}, head: Nat, commit: Nat, tree: Tree,
        attempt: Nat, step: Steps, hit: BOOLEAN, mainState: State \cup {None},
        prState: State \cup {None}, selected: Selection \cup {None},
        heaps: {"absent", "main", "pr", "built"}, origin: {"none", "main", "pr"},
        result: {"none", "success", "failure", "cancelled"}]
Pull == [revision: Nat, merged: BOOLEAN, commit: Nat]

\* The type invariant.
TypeOK ==
  /\ pulls \in [PullRequests -> Pull]
  /\ commits \in Seq(Tree) /\ commits # <<>>
  /\ permitted \subseteq PullRequests
  /\ runs \in Seq(Run)
  /\ artifacts \subseteq State /\ caches \in Seq(State)

\* A saved state that is complete and of the profile a run is about to use.
Whole(state, run) ==
  /\ state # None /\ state.intact
  /\ state.profile = profileIdentity(run.tree)

\* What the steps of an attempt have established on the way to the report.
Orderly(run) ==
  /\ run.step = "queued" => run.heaps = "absent"
  /\ run.step \in {"cache", "select", "download", "restore"} => run.event # "clean"
  /\ run.step \in {"select", "download"} => run.event = "push"
  /\ run.step = "build" =>
       /\ run.heaps = "main" => Whole(run.mainState, run)
       /\ run.heaps = "pr" => /\ Whole(run.prState, run)
                              /\ run.prState.source = sourceIdentity(run.tree)
       /\ run.heaps # "built"
       /\ run.event = "clean" => run.heaps = "absent"
  /\ run.step = "seal" => Seals(run)
  /\ run.step \in {"seal", "report"} \/ run.result = "success" => run.heaps = "built"
  /\ run.result = "success" => run.step = "done"

\* Run j built the tree of push i for the final head of the pull request whose
\* merge made the commit of i.
Exact(i, j) ==
  \E p \in PullRequests \ Forks :
    /\ pulls[p].merged
    /\ runs[i].event = "push" /\ pulls[p].commit = runs[i].commit
    /\ j \in DOMAIN runs
    /\ runs[j].event = "pull_request" /\ runs[j].pr = p
    /\ runs[j].head = pulls[p].revision
    /\ runs[j].tree = runs[i].tree

\* So did every run whose artifact is selected, downloaded or used.
Reuses(i, run) ==
  /\ run.step = "download" \/ run.prState # None => Exact(i, run.selected.run)
  /\ run.origin = "pr" => \E j \in DOMAIN runs : Exact(i, j)

\* A push builds the commit it was triggered by.
OfCommit(run) ==
  run.event = "push" => /\ run.commit \in DOMAIN commits
                        /\ run.tree = commits[run.commit]

\* The runs, what they have uploaded and what they have saved.
RunsOK ==
  \A i \in DOMAIN runs : /\ Orderly(runs[i]) /\ OfCommit(runs[i])
                         /\ Reuses(i, runs[i])

\* An artifact describes the tree of the run that uploaded it, of a pull request
\* of this repository.
Uploaded(a) ==
  /\ a.run \in DOMAIN runs /\ a.source = runs[a.run].tree
  /\ runs[a.run].event = "pull_request" /\ runs[a.run].pr \notin Forks
ArtifactsOK == \A a \in artifacts : Uploaded(a)

\* A cache entry describes a commit of main and was saved by a push.
Saved(state) ==
  /\ \E n \in DOMAIN commits : state.source = sourceIdentity(commits[n])
  /\ state.run \in DOMAIN runs /\ runs[state.run].event = "push"

\* Two entries differ in their keys.
OneKey(k, other) ==
  ~ (caches[other].source = caches[k].source /\ caches[other].profile = caches[k].profile)
CachesOK ==
  \A k \in DOMAIN caches : /\ Saved(caches[k])
                           /\ \A other \in DOMAIN caches \ {k} : OneKey(k, other)

\* The inductive invariant of the workflow.
CIInv == TypeOK /\ RunsOK /\ ArtifactsOK /\ CachesOK
-----------------------------------------------------------------------------
(* What never changes *)

\* What a run is for.
Same(r, s) ==
  /\ s.event = r.event /\ s.pr = r.pr /\ s.head = r.head /\ s.commit = r.commit
  /\ s.tree = r.tree

\* Runs keep what they are for, merged pull requests stay as they are, and main
\* only grows.
Grows ==
  /\ \A i \in DOMAIN runs : i \in DOMAIN runs' /\ Same(runs[i], runs'[i])
  /\ \A p \in PullRequests : pulls[p].merged => pulls'[p] = pulls[p]
  /\ \A n \in DOMAIN commits : n \in DOMAIN commits' /\ commits'[n] = commits[n]

\* What a run may reuse it may reuse ever after, ...
LEMMA ExactStays ==
  ASSUME Grows, NEW i \in DOMAIN runs, NEW j, Exact(i, j)
  PROVE  Exact(i, j)'
<1>1. PICK p \in PullRequests \ Forks :
        /\ pulls[p].merged
        /\ runs[i].event = "push" /\ pulls[p].commit = runs[i].commit
        /\ j \in DOMAIN runs
        /\ runs[j].event = "pull_request" /\ runs[j].pr = p
        /\ runs[j].head = pulls[p].revision
        /\ runs[j].tree = runs[i].tree
  BY DEF Exact
<1>2. pulls'[p] = pulls[p]
  BY <1>1 DEF Grows
<1>3. j \in DOMAIN runs' /\ Same(runs[i], runs'[i]) /\ Same(runs[j], runs'[j])
  BY <1>1 DEF Grows
<1> QED
  BY <1>1, <1>2, <1>3 DEF Exact, Same

\* ... so what it has selected, downloaded or used it may still reuse, ...
LEMMA ReusesStays ==
  ASSUME Grows, NEW i \in DOMAIN runs, NEW r, Reuses(i, r)
  PROVE  /\ r.step = "download" \/ r.prState # None => Exact(i, r.selected.run)'
         /\ r.origin = "pr" => \E j \in DOMAIN runs' : Exact(i, j)'
<1>1. r.step = "download" \/ r.prState # None => Exact(i, r.selected.run)'
  BY ExactStays DEF Reuses
<1>2. ASSUME r.origin = "pr" PROVE \E j \in DOMAIN runs' : Exact(i, j)'
  <2>1. PICK j \in DOMAIN runs : Exact(i, j)
    BY <1>2 DEF Reuses
  <2> QED
    BY <2>1, ExactStays DEF Grows
<1> QED
  BY <1>1, <1>2

\* ... and what is stored stays what it was stored as.
LEMMA StoredStays ==
  ASSUME Grows
  PROVE  /\ \A a : Uploaded(a) => Uploaded(a)'
         /\ \A state : Saved(state) => Saved(state)'
<1>1. ASSUME NEW a, Uploaded(a) PROVE Uploaded(a)'
  BY <1>1 DEF Uploaded, Grows, Same
<1>2. ASSUME NEW state, Saved(state) PROVE Saved(state)'
  BY <1>2 DEF Saved, Grows, Same, sourceIdentity
<1> QED
  BY <1>1, <1>2

\* A push keeps building its commit.
LEMMA OfCommitStays ==
  ASSUME Grows, NEW i \in DOMAIN runs, OfCommit(runs[i])
  PROVE  OfCommit(runs[i])'
BY DEF OfCommit, Grows, Same

\* A step that stores nothing keeps what is stored.
LEMMA StoresStay ==
  ASSUME Grows, ArtifactsOK, CachesOK, UNCHANGED <<artifacts, caches>>
  PROVE  ArtifactsOK' /\ CachesOK'
<1>1. ArtifactsOK'
  BY StoredStays DEF ArtifactsOK
<1>2. CachesOK'
  BY StoredStays DEF CachesOK, OneKey
<1> QED
  BY <1>1, <1>2

\* What is to be shown of the runs a step leaves.
Kept(s) ==
  /\ s \in Seq(Run) /\ DOMAIN s = DOMAIN runs
  /\ \A i \in DOMAIN runs : Same(runs[i], s[i]) /\ Orderly(s[i]) /\ Reuses(i, s[i])

\* Runs that are kept so are in order again.
LEMMA KeptRuns ==
  ASSUME CIInv, Kept(runs'), UNCHANGED <<pulls, commits>>
  PROVE  Grows /\ RunsOK'
<1>1. Grows
  BY DEF Kept, Grows
<1>2. ASSUME NEW i \in DOMAIN runs'
      PROVE  Orderly(runs'[i]) /\ OfCommit(runs[i])' /\ Reuses(i, runs[i])'
  <2>1. i \in DOMAIN runs /\ OfCommit(runs[i])
    BY DEF Kept, CIInv, RunsOK
  <2>2. PICK r : r = runs'[i]
    OBVIOUS
  <2>3. Orderly(r) /\ Reuses(i, r)
    BY <2>1, <2>2 DEF Kept
  <2>4. /\ r.step = "download" \/ r.prState # None => Exact(i, r.selected.run)'
        /\ r.origin = "pr" => \E j \in DOMAIN runs' : Exact(i, j)'
    BY <1>1, <2>1, <2>3, ReusesStays
  <2>5. Reuses(i, runs[i])'
    BY <2>2, <2>4 DEF Reuses
  <2> QED
    BY <1>1, <2>1, <2>2, <2>3, <2>5, OfCommitStays
<1>3. RunsOK'
  BY <1>2 DEF RunsOK, Orderly, Seals, Whole, profileIdentity, sourceIdentity
<1> QED
  BY <1>1, <1>3

\* One run moves on.
LEMMA RunMoves ==
  ASSUME CIInv, NEW i \in DOMAIN runs, NEW r \in Run, Same(runs[i], r), Orderly(r),
         Reuses(i, r), runs' = [runs EXCEPT ![i] = r],
         UNCHANGED <<pulls, commits, permitted>>
  PROVE  Grows /\ RunsOK' /\ runs' \in Seq(Run)
<1>1. Kept(runs')
  <2>1. runs' \in Seq(Run) /\ DOMAIN runs' = DOMAIN runs
    BY DEF CIInv, TypeOK
  <2>2. runs'[i] = r /\ \A j \in DOMAIN runs \ {i} : runs'[j] = runs[j]
    BY DEF CIInv, TypeOK
  <2>3. \A j \in DOMAIN runs : Orderly(runs[j]) /\ Reuses(j, runs[j])
    BY DEF CIInv, RunsOK
  <2>4. ASSUME NEW j \in DOMAIN runs
        PROVE  Same(runs[j], runs'[j]) /\ Orderly(runs'[j])
    <3>1. CASE j = i
      BY <2>2, <3>1
    <3>2. CASE j # i
      BY <2>2, <2>3, <3>2 DEF Same
    <3> QED
      BY <3>1, <3>2
  <2>5. ASSUME NEW j \in DOMAIN runs, NEW s, s = runs'[j] PROVE Reuses(j, s)
    BY <2>2, <2>3, <2>5
  <2> QED
    BY <2>1, <2>4, <2>5 DEF Kept
<1> QED
  BY <1>1, KeptRuns DEF Kept

\* One run moves on and nothing else changes.
LEMMA AttemptMoves ==
  ASSUME CIInv, NEW i \in DOMAIN runs, NEW r \in Run, Same(runs[i], r), Orderly(r),
         Reuses(i, r), runs' = [runs EXCEPT ![i] = r],
         UNCHANGED <<pulls, commits, permitted, artifacts, caches>>
  PROVE  CIInv'
<1>1. Grows /\ RunsOK' /\ runs' \in Seq(Run)
  BY RunMoves
<1>2. TypeOK'
  BY <1>1 DEF CIInv, TypeOK
<1>3. ArtifactsOK' /\ CachesOK'
  BY <1>1, StoresStay DEF CIInv
<1> QED
  BY <1>1, <1>2, <1>3 DEF CIInv
-----------------------------------------------------------------------------
(* Attempts that end, and the events of the host *)

\* A run that ends forgets what it was about to reuse; only a success keeps
\* what it was made of.
LEMMA EndedIs ==
  ASSUME NEW i, NEW r \in Run, Orderly(r), Reuses(i, r),
         NEW result \in {"success", "failure", "cancelled"},
         result = "success" => r.heaps = "built"
  PROVE  LET e == Ended(r, result)
         IN  e \in Run /\ Same(r, e) /\ Orderly(e) /\ Reuses(i, e)
<1> DEFINE h == IF result = "success" THEN r.heaps ELSE "absent"
           o == IF result = "success" THEN r.origin ELSE "none"
<1>1. PICK a : a = [r EXCEPT !.step = "done", !.result = result]
  OBVIOUS
<1>2. /\ a \in Run /\ Same(r, a) /\ a.step = "done" /\ a.result = result
  BY <1>1 DEF Run, Steps, Same
<1>3. PICK b : b = [a EXCEPT !.hit = FALSE, !.mainState = None, !.prState = None]
  OBVIOUS
<1>4. /\ b \in Run /\ Same(r, b) /\ b.step = "done" /\ b.result = result
      /\ b.prState = None
  BY <1>2, <1>3 DEF Run, Same
<1>5. PICK d : d = [b EXCEPT !.selected = None]
  OBVIOUS
<1>6. /\ d \in Run /\ Same(r, d) /\ d.step = "done" /\ d.result = result
      /\ d.prState = None
  BY <1>4, <1>5 DEF Run, Same
<1>7. h \in {"absent", "main", "pr", "built"} /\ o \in {"none", "main", "pr"}
  BY DEF Run
<1> HIDE DEF h, o
<1>8. PICK c : c = [d EXCEPT !.heaps = h]
  OBVIOUS
<1>9. /\ c \in Run /\ Same(r, c) /\ c.step = "done" /\ c.result = result
      /\ c.prState = None /\ c.heaps = h
  BY <1>6, <1>7, <1>8 DEF Run, Same
<1>10. PICK e : e = [c EXCEPT !.origin = o]
  OBVIOUS
<1>11. /\ e \in Run /\ Same(r, e) /\ e.step = "done" /\ e.result = result
       /\ e.prState = None /\ e.heaps = h /\ e.origin = o
  BY <1>7, <1>9, <1>10 DEF Run, Same
<1>12. Ended(r, result) = e
  BY <1>1, <1>3, <1>5, <1>8, <1>10 DEF Ended, h, o
<1>13. Orderly(e)
  BY <1>11 DEF Orderly, h
<1>14. Reuses(i, e)
  BY <1>11 DEF Reuses, o
<1> QED
  BY <1>11, <1>12, <1>13, <1>14

\* An attempt that fails is over.
LEMMA AttemptFails ==
  ASSUME CIInv, NEW i \in DOMAIN runs, runs' = [runs EXCEPT ![i] = Ended(@, "failure")],
         UNCHANGED <<pulls, commits, permitted, artifacts, caches>>
  PROVE  CIInv'
<1>1. PICK r : r = runs[i]
  OBVIOUS
<1>2. r \in Run /\ Orderly(r) /\ Reuses(i, r)
  BY <1>1 DEF CIInv, TypeOK, RunsOK
<1>3. PICK e : e = Ended(r, "failure")
  OBVIOUS
<1>4. e \in Run /\ Same(r, e) /\ Orderly(e) /\ Reuses(i, e)
  BY <1>2, <1>3, EndedIs
<1>5. runs' = [runs EXCEPT ![i] = e]
  BY <1>1, <1>3
<1> QED
  BY <1>1, <1>4, <1>5, AttemptMoves

\* What is in order stays so.
LEMMA KeptAsIs == ASSUME CIInv PROVE Kept(runs)
<1>1. ASSUME NEW i \in DOMAIN runs
      PROVE  Same(runs[i], runs[i]) /\ Orderly(runs[i]) /\ Reuses(i, runs[i])
  BY DEF CIInv, RunsOK, Same
<1> QED
  BY <1>1 DEF Kept, CIInv, TypeOK

\* A newer run of a group cancels some of the older.
LEMMA SupersedeIs ==
  ASSUME CIInv, NEW event, NEW p PROVE Kept(Supersede(event, p))
<1> DEFINE s == Supersede(event, p)
           out(i) == /\ runs[i].event = event /\ runs[i].pr = p
                     /\ \/ runs[i].step = "queued"
                        \/ event = "pull_request" /\ Active(runs[i])
<1>1. s = [i \in DOMAIN runs |-> IF out(i) THEN Ended(runs[i], "cancelled") ELSE runs[i]]
  BY DEF Supersede
<1> HIDE DEF s, out
<1>2. ASSUME NEW i \in DOMAIN runs
      PROVE  s[i] \in Run /\ Same(runs[i], s[i]) /\ Orderly(s[i]) /\ Reuses(i, s[i])
  <2>1. PICK r : r = runs[i]
    OBVIOUS
  <2>2. r \in Run /\ Orderly(r) /\ Reuses(i, r) /\ Same(r, r)
    BY <2>1 DEF CIInv, TypeOK, RunsOK, Same
  <2>3. PICK e : e = Ended(r, "cancelled")
    OBVIOUS
  <2>4. e \in Run /\ Same(r, e) /\ Orderly(e) /\ Reuses(i, e)
    BY <2>2, <2>3, EndedIs
  <2>5. s[i] = IF out(i) THEN e ELSE r
    BY <1>1, <2>1, <2>3
  <2> QED
    BY <2>1, <2>2, <2>4, <2>5
<1>3. s \in Seq(Run) /\ DOMAIN s = DOMAIN runs
  <2>1. DOMAIN runs = 1 .. Len(runs) /\ Len(runs) \in Nat
    BY DEF CIInv, TypeOK
  <2>2. s \in [1 .. Len(runs) -> Run]
    BY <1>1, <1>2, <2>1
  <2> QED
    BY <1>1, <2>1, <2>2, SeqDef
<1> QED
  BY <1>2, <1>3 DEF Kept, s

\* A run that was just created.
New(r) ==
  /\ r.step = "queued" /\ r.prState = None /\ r.heaps = "absent" /\ r.origin = "none"
  /\ r.result = "none"

\* A run created for this.
Begins(r, event, p, head, commit, tree) ==
  /\ r \in Run /\ New(r) /\ Orderly(r) /\ \A i : Reuses(i, r)
  /\ r.event = event /\ r.pr = p /\ r.head = head /\ r.commit = commit
  /\ r.tree = tree

\* A fresh run is for what it was created for and has nothing yet.
LEMMA FreshIs ==
  ASSUME NEW event \in Events, NEW p \in PullRequests \cup {NoPR}, NEW head \in Nat,
         NEW commit \in Nat, NEW tree \in Tree, NEW attempt \in Nat
  PROVE  Begins(Fresh(event, p, head, commit, tree, attempt),
                event, p, head, commit, tree)
<1>1. PICK r : r = Fresh(event, p, head, commit, tree, attempt)
  OBVIOUS
<1>2. /\ r \in Run /\ New(r)
      /\ r.event = event /\ r.pr = p /\ r.head = head /\ r.commit = commit
      /\ r.tree = tree
  BY <1>1 DEF Fresh, Run, Steps, New
<1>3. Orderly(r) /\ \A i : Reuses(i, r)
  BY <1>2 DEF New, Orderly, Reuses
<1> QED
  BY <1>1, <1>2, <1>3 DEF Begins

\* A run is created while main may grow and a pull request be merged.
LEMMA Created ==
  ASSUME CIInv, NEW s, Kept(s), NEW r \in Run, New(r), runs' = Append(s, r),
         pulls' \in [PullRequests -> Pull], commits' \in Seq(Tree), commits' # <<>>,
         permitted' = permitted,
         \A p \in PullRequests : pulls[p].merged => pulls'[p] = pulls[p],
         \A n \in DOMAIN commits : n \in DOMAIN commits' /\ commits'[n] = commits[n],
         r.event = "push" => r.commit \in DOMAIN commits' /\ r.tree = commits'[r.commit],
         UNCHANGED <<artifacts, caches>>
  PROVE  CIInv'
<1>1. /\ runs' \in Seq(Run) /\ DOMAIN runs' = DOMAIN runs \cup {Len(s) + 1}
      /\ Len(s) + 1 \notin DOMAIN runs /\ runs'[Len(s) + 1] = r
      /\ \A i \in DOMAIN runs : runs'[i] = s[i]
  <2>1. s \in Seq(Run) /\ DOMAIN s = DOMAIN runs
    BY DEF Kept
  <2> QED
    BY <2>1
<1>2. Grows
  BY <1>1 DEF Kept, Grows
<1>3. ASSUME NEW i \in DOMAIN runs
      PROVE  Orderly(runs'[i]) /\ OfCommit(runs[i])' /\ Reuses(i, runs[i])'
  <2>1. OfCommit(runs[i])
    BY DEF CIInv, RunsOK
  <2>2. PICK q : q = runs'[i]
    OBVIOUS
  <2>3. Orderly(q) /\ Reuses(i, q)
    BY <1>1, <2>2 DEF Kept
  <2>4. /\ q.step = "download" \/ q.prState # None => Exact(i, q.selected.run)'
        /\ q.origin = "pr" => \E j \in DOMAIN runs' : Exact(i, j)'
    BY <1>2, <2>3, ReusesStays
  <2>5. Reuses(i, runs[i])'
    BY <2>2, <2>4 DEF Reuses
  <2> QED
    BY <1>2, <2>1, <2>2, <2>3, <2>5, OfCommitStays
<1>4. ASSUME NEW i, i = Len(s) + 1
      PROVE  Orderly(runs'[i]) /\ OfCommit(runs[i])' /\ Reuses(i, runs[i])'
  <2>1. runs'[i] = r
    BY <1>1, <1>4
  <2>2. Orderly(r)
    BY DEF New, Orderly
  <2>3. OfCommit(runs[i])'
    BY <2>1 DEF OfCommit
  <2>4. Reuses(i, runs[i])'
    BY <2>1 DEF Reuses, New
  <2> QED
    BY <2>1, <2>2, <2>3, <2>4
<1>5. RunsOK'
  <2>1. \A i \in DOMAIN runs' : /\ Orderly(runs'[i]) /\ OfCommit(runs[i])'
                                 /\ Reuses(i, runs[i])'
    BY <1>1, <1>3, <1>4
  <2> QED
    BY <2>1 DEF RunsOK, Orderly, Seals, Whole, profileIdentity, sourceIdentity
<1>6. TypeOK'
  BY <1>1 DEF CIInv, TypeOK
<1>7. ArtifactsOK' /\ CachesOK'
  BY <1>2, StoresStay DEF CIInv
<1> QED
  BY <1>5, <1>6, <1>7 DEF CIInv

\* The tree of the tip of main, and of the merge of a pull request into it.
LEMMA TreesAre ==
  ASSUME TypeOK, NEW p \in PullRequests
  PROVE  /\ Len(commits) \in DOMAIN commits /\ Len(commits) \in Nat
         /\ MainTree \in Tree /\ MergeTree(p, pulls[p].revision) \in Tree
<1>1. Len(commits) \in DOMAIN commits /\ Len(commits) \in Nat
  BY DEF TypeOK
<1>2. MainTree \in Tree
  BY <1>1 DEF MainTree, TypeOK
<1>3. pulls[p].revision \in Nat
  BY DEF TypeOK, Pull
<1> QED
  BY <1>1, <1>2, <1>3 DEF MergeTree, Tree, Change

\* A pull-request run is created and cancels the older ones.
LEMMA OpenRunKeeps ==
  ASSUME CIInv, NEW p \in PullRequests, OpenRun(p) PROVE CIInv'
<1>1. TypeOK
  BY DEF CIInv
<1>2. pulls[p].revision \in Nat /\ 0 \in Nat /\ 1 \in Nat /\ "pull_request" \in Events
  BY <1>1 DEF TypeOK, Pull, Events
<1>3. PICK tree \in Tree : tree = MergeTree(p, pulls[p].revision)
  BY <1>1, TreesAre
<1>4. PICK s : s = Supersede("pull_request", p)
  OBVIOUS
<1>5. PICK r : r = Fresh("pull_request", p, pulls[p].revision, 0, tree, 1)
  OBVIOUS
<1>6. r \in Run /\ New(r) /\ r.event = "pull_request"
  <2>1. PICK h \in Nat : h = pulls[p].revision
    BY <1>2
  <2>2. Begins(r, "pull_request", p, h, 0, tree)
    BY <1>2, <1>5, <2>1, FreshIs
  <2> QED
    BY <2>2 DEF Begins
<1>7. Kept(s)
  BY <1>4, SupersedeIs
<1>8. /\ runs' = Append(s, r)
      /\ UNCHANGED <<pulls, commits, permitted, artifacts, caches>>
  BY <1>3, <1>4, <1>5 DEF OpenRun
<1> QED
  BY <1>1, <1>6, <1>7, <1>8, Created DEF TypeOK

\* A merge extends main and creates the push that builds it.
LEMMA MergeKeeps ==
  ASSUME CIInv, NEW p \in PullRequests, Merge(p) PROVE CIInv'
<1>1. TypeOK
  BY DEF CIInv
<1>2. PICK tree \in Tree, n \in Nat :
        tree = MergeTree(p, pulls[p].revision) /\ n = Len(commits) + 1
  BY <1>1, TreesAre
<1>3. "push" \in Events /\ NoPR \in PullRequests \cup {NoPR} /\ 0 \in Nat /\ 1 \in Nat
  BY DEF Events
<1>4. PICK s : s = Supersede("push", NoPR)
  OBVIOUS
<1>5. PICK r : r = Fresh("push", NoPR, 0, n, tree, 1)
  OBVIOUS
<1>6. r \in Run /\ New(r) /\ r.event = "push" /\ r.commit = n /\ r.tree = tree
  BY <1>2, <1>3, <1>5, FreshIs DEF Begins
<1>7. Kept(s)
  BY <1>4, SupersedeIs
<1>8. /\ runs' = Append(s, r) /\ commits' = Append(commits, tree)
      /\ ~ pulls[p].merged
      /\ pulls' = [pulls EXCEPT ![p].merged = TRUE, ![p].commit = Len(commits) + 1]
      /\ UNCHANGED <<permitted, artifacts, caches>>
  BY <1>2, <1>4, <1>5 DEF Merge
<1>9. /\ commits' \in Seq(Tree) /\ commits' # <<>> /\ n \in DOMAIN commits'
      /\ commits'[n] = tree
      /\ \A m \in DOMAIN commits : m \in DOMAIN commits' /\ commits'[m] = commits[m]
  BY <1>1, <1>2, <1>8 DEF TypeOK
<1>10. PICK k : k = [pulls[p] EXCEPT !.merged = TRUE, !.commit = n]
  OBVIOUS
<1>11. k \in Pull
  BY <1>1, <1>10 DEF TypeOK, Pull
<1>12. pulls' = [pulls EXCEPT ![p] = k]
  BY <1>2, <1>8, <1>10
<1>13. /\ pulls' \in [PullRequests -> Pull]
       /\ \A q \in PullRequests : pulls[q].merged => pulls'[q] = pulls[q]
  BY <1>1, <1>8, <1>11, <1>12 DEF TypeOK
<1> QED
  BY <1>1, <1>6, <1>7, <1>8, <1>9, <1>13, Created

\* A clean run is created and cancels nothing.
LEMMA CleanRunKeeps ==
  ASSUME CIInv, CleanRun PROVE CIInv'
<1>1. TypeOK
  BY DEF CIInv
<1>2. MainTree \in Tree /\ Len(commits) \in Nat
  BY <1>1 DEF MainTree, TypeOK
<1>3. "clean" \in Events /\ NoPR \in PullRequests \cup {NoPR} /\ 0 \in Nat /\ 1 \in Nat
  BY DEF Events
<1>4. PICK r : r = Fresh("clean", NoPR, 0, Len(commits), MainTree, 1)
  OBVIOUS
<1>5. r \in Run /\ New(r) /\ r.event = "clean"
  BY <1>2, <1>3, <1>4, FreshIs DEF Begins
<1>6. /\ runs' = Append(runs, r)
      /\ UNCHANGED <<pulls, commits, permitted, artifacts, caches>>
  BY <1>4 DEF CleanRun
<1>7. Kept(runs)
  BY KeptAsIs
<1>8. PICK s : s = runs
  OBVIOUS
<1> QED
  BY <1>1, <1>5, <1>6, <1>7, <1>8, Created DEF TypeOK

\* A run that is repeated is for what it was for.
LEMMA RerunKeeps ==
  ASSUME CIInv, NEW i \in DOMAIN runs, Rerun(i) PROVE CIInv'
<1>1. PICK r : r = runs[i]
  OBVIOUS
<1>2. r \in Run
  BY <1>1 DEF CIInv, TypeOK
<1>3. /\ r.event \in Events /\ r.pr \in PullRequests \cup {NoPR} /\ r.head \in Nat
      /\ r.commit \in Nat /\ r.tree \in Tree /\ r.attempt + 1 \in Nat
  BY <1>2 DEF Run
<1>4. PICK k : k = Fresh(r.event, r.pr, r.head, r.commit, r.tree, r.attempt + 1)
  OBVIOUS
<1>5. k \in Run /\ Orderly(k) /\ Reuses(i, k) /\ Same(r, k)
  <2>1. Begins(k, r.event, r.pr, r.head, r.commit, r.tree)
    BY <1>3, <1>4, FreshIs
  <2> QED
    BY <2>1 DEF Begins, Same
<1>6. /\ runs' = [runs EXCEPT ![i] = k]
      /\ UNCHANGED <<pulls, commits, permitted, artifacts, caches>>
  BY <1>1, <1>4 DEF Rerun
<1> QED
  BY <1>1, <1>5, <1>6, AttemptMoves

\* Revisions, permissions and expiry touch no run.
LEMMA EventKeeps ==
  ASSUME CIInv, (\E p \in PullRequests : Revise(p) \/ ChangePermission(p)) \/ Expire
  PROVE  CIInv'
<1>1. TypeOK /\ RunsOK /\ ArtifactsOK /\ CachesOK
  BY DEF CIInv
<1>2. runs' = runs /\ commits' = commits
  BY DEF Revise, ChangePermission, Expire
<1>3. /\ pulls' \in [PullRequests -> Pull]
      /\ \A p \in PullRequests : pulls[p].merged => pulls'[p] = pulls[p]
  <2>1. CASE pulls' = pulls
    BY <1>1, <2>1 DEF TypeOK
  <2>2. ASSUME NEW p \in PullRequests, Revise(p)
        PROVE  /\ pulls' \in [PullRequests -> Pull]
               /\ \A q \in PullRequests : pulls[q].merged => pulls'[q] = pulls[q]
    <3>1. PICK k : k = [pulls[p] EXCEPT !.revision = pulls[p].revision + 1]
      OBVIOUS
    <3>2. k \in Pull
      <4>1. pulls[p] \in Pull
        BY <1>1 DEF TypeOK
      <4>2. PICK n \in Nat : n = pulls[p].revision + 1
        BY <4>1 DEF Pull
      <4> QED
        BY <3>1, <4>1, <4>2 DEF Pull
    <3>3. pulls' = [pulls EXCEPT ![p] = k] /\ ~ pulls[p].merged
      BY <2>2, <3>1 DEF Revise
    <3> QED
      BY <1>1, <3>2, <3>3 DEF TypeOK
  <2> QED
    BY <2>1, <2>2 DEF ChangePermission, Expire
<1>4. Grows
  BY <1>2, <1>3 DEF Grows, Same
<1>5. ASSUME NEW i \in DOMAIN runs PROVE Reuses(i, runs[i])'
  <2>1. PICK r : r = runs[i]
    OBVIOUS
  <2>2. Reuses(i, r)
    BY <1>1, <2>1 DEF RunsOK
  <2>3. /\ r.step = "download" \/ r.prState # None => Exact(i, r.selected.run)'
        /\ r.origin = "pr" => \E j \in DOMAIN runs' : Exact(i, j)'
    BY <1>4, <2>2, ReusesStays
  <2> QED
    BY <1>2, <2>1, <2>3 DEF Reuses
<1>6. RunsOK'
  BY <1>1, <1>2, <1>5
     DEF RunsOK, Orderly, OfCommit, Seals, Whole, profileIdentity, sourceIdentity
<1>7. permitted' \subseteq PullRequests
  BY <1>1 DEF TypeOK, Revise, ChangePermission, Expire
<1>8. /\ artifacts' \subseteq artifacts
      /\ caches' = caches \/ (caches # <<>> /\ caches' = Tail(caches))
  BY DEF Revise, ChangePermission, Expire
<1>9. ArtifactsOK'
  BY <1>1, <1>4, <1>8, StoredStays DEF ArtifactsOK
<1>10. /\ caches' \in Seq(State)
       /\ \E d \in {0, 1} : /\ \A k \in DOMAIN caches' : k + d \in DOMAIN caches
                            /\ \A k \in DOMAIN caches' : caches'[k] = caches[k + d]
                            /\ \A k \in DOMAIN caches' : k \in Nat
  <2>1. CASE caches' = caches
    <3>1. \A k \in DOMAIN caches : k \in Nat /\ k + 0 = k
      BY <1>1 DEF TypeOK
    <3> QED
      BY <1>1, <2>1, <3>1 DEF TypeOK
  <2>2. CASE caches # <<>> /\ caches' = Tail(caches)
    <3>1. \A k \in DOMAIN Tail(caches) : /\ k + 1 \in DOMAIN caches /\ k \in Nat
                                         /\ Tail(caches)[k] = caches[k + 1]
      BY <1>1, <2>2 DEF TypeOK
    <3>2. Tail(caches) \in Seq(State)
      BY <1>1, <2>2 DEF TypeOK
    <3> QED
      BY <2>2, <3>1, <3>2
  <2> QED
    BY <1>8, <2>1, <2>2
<1>11. CachesOK'
  <2>1. PICK d \in {0, 1} : \A k \in DOMAIN caches' :
          /\ k + d \in DOMAIN caches /\ k \in Nat
          /\ caches'[k] = caches[k + d]
    BY <1>10
  <2>2. ASSUME NEW k \in DOMAIN caches'
        PROVE  Saved(caches[k])' /\ \A other \in DOMAIN caches' \ {k} : OneKey(k, other)'
    <3>1. PICK state : state = caches'[k]
      OBVIOUS
    <3>2. Saved(state)
      BY <1>1, <2>1, <3>1 DEF CachesOK
    <3>3. Saved(state)'
      BY <1>4, <3>2, StoredStays
    <3>4. ASSUME NEW other \in DOMAIN caches' \ {k} PROVE OneKey(k, other)'
      <4>1. k + d \in DOMAIN caches /\ other + d \in DOMAIN caches \ {k + d}
        BY <2>1
      <4>2. OneKey(k + d, other + d)
        BY <1>1, <4>1 DEF CachesOK
      <4> QED
        BY <2>1, <4>2 DEF OneKey
    <3> QED
      BY <3>1, <3>3, <3>4
  <2> QED
    BY <2>2 DEF CachesOK
<1>12. TypeOK'
  BY <1>1, <1>2, <1>3, <1>7, <1>8, <1>10 DEF TypeOK
<1> QED
  BY <1>6, <1>9, <1>11, <1>12 DEF CIInv
-----------------------------------------------------------------------------
(* The steps of one attempt *)

\* What an attempt holds on its way to the report.
LEMMA RunIs ==
  ASSUME CIInv, NEW i \in DOMAIN runs, NEW r, r = runs[i]
  PROVE  r \in Run /\ Orderly(r) /\ OfCommit(r) /\ Reuses(i, r) /\ Same(r, r)
BY DEF CIInv, TypeOK, RunsOK, Same

\* What else stays as it is when a run reaches a step.
Reaches(r, k, step) ==
  /\ k \in Run /\ Same(r, k) /\ k.step = step
  /\ k.heaps = r.heaps /\ k.origin = r.origin /\ k.result = r.result
  /\ k.mainState = r.mainState /\ k.prState = r.prState /\ k.selected = r.selected

\* Only the step changes.
LEMMA ReachesIs ==
  ASSUME NEW r \in Run, NEW step \in Steps
  PROVE  Reaches(r, [r EXCEPT !.step = step], step)
<1>1. PICK k : k = [r EXCEPT !.step = step]
  OBVIOUS
<1> QED
  BY <1>1 DEF Run, Same, Reaches

\* Starting takes an attempt to the cache, or a clean one to the build.
LEMMA StartKeeps ==
  ASSUME CIInv, NEW i \in DOMAIN runs, Start(i) PROVE CIInv'
<1>1. PICK r : r = runs[i]
  OBVIOUS
<1>2. r \in Run /\ Orderly(r) /\ Reuses(i, r)
  BY <1>1, RunIs
<1>3. r.step = "queued" /\ UNCHANGED <<pulls, commits, permitted, artifacts, caches>>
  BY <1>1 DEF Start
<1>4. CASE runs' = [runs EXCEPT ![i] = Ended(runs[i], "failure")]
  BY <1>3, <1>4, AttemptFails
<1>5. CASE runs' = [runs EXCEPT ![i].step =
                      IF runs[i].event = "clean" THEN "build" ELSE "cache"]
  <2>1. PICK step \in Steps : step = IF r.event = "clean" THEN "build" ELSE "cache"
    BY DEF Steps
  <2>2. PICK k : k = [r EXCEPT !.step = step]
    OBVIOUS
  <2>3. Reaches(r, k, step)
    BY <1>2, <2>2, ReachesIs
  <2>4. Orderly(k)
    BY <1>2, <1>3, <2>1, <2>3 DEF Orderly, Reaches, Same
  <2>5. Reuses(i, k)
    BY <1>2, <2>1, <2>3 DEF Reuses, Reaches
  <2>6. runs' = [runs EXCEPT ![i] = k]
    BY <1>1, <1>5, <2>1, <2>2
  <2> QED
    BY <1>1, <1>3, <2>3, <2>4, <2>5, <2>6, AttemptMoves DEF Reaches
<1> QED
  BY <1>4, <1>5 DEF Start

\* A cache entry is restored, whole or damaged, or none is.
LEMMA RestoreCacheKeeps ==
  ASSUME CIInv, NEW i \in DOMAIN runs, RestoreCache(i) PROVE CIInv'
<1>1. PICK r : r = runs[i]
  OBVIOUS
<1>2. r \in Run /\ Orderly(r) /\ Reuses(i, r)
  BY <1>1, RunIs
<1>3. r.step = "cache" /\ UNCHANGED <<pulls, commits, permitted, artifacts, caches>>
  BY <1>1 DEF RestoreCache
<1>4. PICK step \in Steps : step = IF r.event = "push" THEN "select" ELSE "restore"
  BY DEF Steps
<1>5. PICK k : k = [r EXCEPT !.step = step]
  OBVIOUS
<1>6. Reaches(r, k, step)
  BY <1>2, <1>5, ReachesIs
<1>7. ASSUME NEW m, m \in Run, Same(k, m), m.step = k.step, m.heaps = k.heaps,
             m.origin = k.origin, m.result = k.result, m.prState = k.prState,
             m.selected = k.selected, runs' = [runs EXCEPT ![i] = m]
      PROVE  CIInv'
  <2>1. Orderly(m)
    BY <1>2, <1>3, <1>4, <1>6, <1>7 DEF Orderly, Reaches, Same
  <2>2. Reuses(i, m)
    BY <1>2, <1>4, <1>6, <1>7 DEF Reuses, Reaches
  <2>3. Same(r, m)
    BY <1>6, <1>7 DEF Reaches, Same
  <2> QED
    BY <1>1, <1>3, <1>7, <2>1, <2>2, <2>3, AttemptMoves
<1>8. CASE runs' = [runs EXCEPT ![i].step = step]
  <2>1. runs' = [runs EXCEPT ![i] = k]
    BY <1>1, <1>5, <1>8
  <2> QED
    BY <1>6, <1>7, <2>1 DEF Reaches, Same
<1>9. ASSUME NEW state \in State,
             \/ runs' = [runs EXCEPT ![i].step = step, ![i].mainState = state]
             \/ runs' = [runs EXCEPT ![i].step = step, ![i].mainState = state,
                                     ![i].hit = SameKey(state, runs[i])]
      PROVE  CIInv'
  <2>1. PICK m : m = [k EXCEPT !.mainState = state]
    OBVIOUS
  <2>2. /\ m \in Run /\ Same(k, m) /\ m.step = k.step /\ m.heaps = k.heaps
        /\ m.origin = k.origin /\ m.result = k.result /\ m.prState = k.prState
        /\ m.selected = k.selected
    BY <1>6, <2>1 DEF Reaches, Run, Same
  <2>3. CASE runs' = [runs EXCEPT ![i].step = step, ![i].mainState = state]
    <3>1. runs' = [runs EXCEPT ![i] = m]
      BY <1>1, <1>5, <2>1, <2>3
    <3> QED
      BY <1>7, <2>2, <3>1
  <2>4. CASE runs' = [runs EXCEPT ![i].step = step, ![i].mainState = state,
                                  ![i].hit = SameKey(state, runs[i])]
    <3>1. PICK hit \in BOOLEAN : hit = SameKey(state, runs[i])
      BY DEF SameKey
    <3>2. PICK n : n = [m EXCEPT !.hit = hit]
      OBVIOUS
    <3>3. /\ n \in Run /\ Same(m, n) /\ n.step = m.step /\ n.heaps = m.heaps
          /\ n.origin = m.origin /\ n.result = m.result /\ n.prState = m.prState
          /\ n.selected = m.selected
      BY <2>2, <3>2 DEF Run, Same
    <3>4. runs' = [runs EXCEPT ![i] = n]
      BY <1>1, <1>5, <2>1, <2>4, <3>1, <3>2
    <3> QED
      BY <1>7, <2>2, <3>3, <3>4 DEF Same
  <2> QED
    BY <1>9, <2>3, <2>4
<1>10. \A c \in CacheFor(runs[i]) : caches[c] \in State /\ Damaged(caches[c]) \in State
  <2>1. \A state \in State : Damaged(state) \in State
    BY DEF Damaged, State
  <2>2. \A c \in CacheFor(runs[i]) : c \in DOMAIN caches
    BY DEF CacheFor
  <2> QED
    BY <2>1, <2>2 DEF CIInv, TypeOK
<1> QED
  BY <1>1, <1>4, <1>8, <1>9, <1>10 DEF RestoreCache

\* An artifact is selected only if it is of this tree, from the run of the final
\* head of the pull request merged as this commit.
LEMMA SelectedIsExact ==
  ASSUME CIInv, NEW i \in DOMAIN runs, runs[i].event = "push",
         NEW a \in selectPrArtifact(runs[i])
  PROVE  a \in State /\ Exact(i, a.run)
<1>1. a \in artifacts /\ a.source = runs[i].tree
  BY DEF selectPrArtifact, SameKey, sourceIdentity
<1>2. PICK p \in permitted : pulls[p].commit = runs[i].commit /\ eligibleRun(runs[a.run], p)
  BY DEF selectPrArtifact
<1>3. a \in State /\ Uploaded(a) /\ p \in PullRequests
  BY <1>1 DEF CIInv, TypeOK, ArtifactsOK
<1> QED
  BY <1>1, <1>2, <1>3 DEF Exact, Uploaded, eligibleRun

\* An artifact is selected, which is exact, or none is.
LEMMA SelectPrKeeps ==
  ASSUME CIInv, NEW i \in DOMAIN runs, SelectPr(i) PROVE CIInv'
<1>1. PICK r : r = runs[i]
  OBVIOUS
<1>2. r \in Run /\ Orderly(r) /\ Reuses(i, r)
  BY <1>1, RunIs
<1>3. /\ r.step = "select" /\ r.event = "push"
      /\ UNCHANGED <<pulls, commits, permitted, artifacts, caches>>
  BY <1>1, <1>2 DEF SelectPr, Orderly
<1>4. CASE runs' = [runs EXCEPT ![i].step = "restore"]
  <2>1. PICK k : k = [r EXCEPT !.step = "restore"]
    OBVIOUS
  <2>2. Reaches(r, k, "restore")
    BY <1>2, <2>1, ReachesIs DEF Steps
  <2>3. Orderly(k) /\ Reuses(i, k)
    BY <1>2, <1>3, <2>2 DEF Orderly, Reuses, Reaches, Same
  <2>4. runs' = [runs EXCEPT ![i] = k]
    BY <1>1, <1>4, <2>1
  <2> QED
    BY <1>1, <1>3, <2>2, <2>3, <2>4, AttemptMoves DEF Reaches
<1>5. ASSUME NEW a \in selectPrArtifact(runs[i]),
             runs' = [runs EXCEPT ![i].step = "download",
                        ![i].selected = [run |-> a.run, attempt |-> a.attempt]]
      PROVE  CIInv'
  <2>1. a \in State /\ Exact(i, a.run)
    BY <1>1, <1>3, SelectedIsExact
  <2>2. PICK s \in Selection : s = [run |-> a.run, attempt |-> a.attempt]
    BY <2>1 DEF Selection, State
  <2>3. PICK k : k = [r EXCEPT !.step = "download"]
    OBVIOUS
  <2>4. Reaches(r, k, "download")
    BY <1>2, <2>3, ReachesIs DEF Steps
  <2>5. PICK m : m = [k EXCEPT !.selected = s]
    OBVIOUS
  <2>6. /\ m \in Run /\ Same(r, m) /\ m.step = "download" /\ m.heaps = r.heaps
        /\ m.origin = r.origin /\ m.result = r.result /\ m.selected.run = a.run
    BY <2>2, <2>4, <2>5 DEF Reaches, Run, Same
  <2>7. Orderly(m)
    BY <1>2, <1>3, <2>6 DEF Orderly, Same
  <2>8. Reuses(i, m)
    BY <1>2, <2>1, <2>6 DEF Reuses
  <2>9. runs' = [runs EXCEPT ![i] = m]
    BY <1>1, <1>5, <2>2, <2>3, <2>5
  <2> QED
    BY <1>1, <1>3, <2>6, <2>7, <2>8, <2>9, AttemptMoves
<1> QED
  BY <1>4, <1>5 DEF SelectPr

\* What was selected is downloaded, damaged, or gone.
LEMMA DownloadKeeps ==
  ASSUME CIInv, NEW i \in DOMAIN runs, Download(i) PROVE CIInv'
<1>1. PICK r : r = runs[i]
  OBVIOUS
<1>2. r \in Run /\ Orderly(r) /\ Reuses(i, r)
  BY <1>1, RunIs
<1>3. /\ r.step = "download" /\ r.event = "push"
      /\ UNCHANGED <<pulls, commits, permitted, artifacts, caches>>
  BY <1>1, <1>2 DEF Download, Orderly
<1>4. PICK state \in State \cup {None} :
        runs' = [runs EXCEPT ![i].step = "restore", ![i].prState = state]
  <2>1. artifacts \subseteq State /\ \A a \in artifacts : Damaged(a) \in State
    BY DEF CIInv, TypeOK, Damaged, State
  <2> QED
    BY <2>1 DEF Download
<1>5. PICK k : k = [r EXCEPT !.step = "restore"]
  OBVIOUS
<1>6. Reaches(r, k, "restore")
  BY <1>2, <1>5, ReachesIs DEF Steps
<1>7. PICK m : m = [k EXCEPT !.prState = state]
  OBVIOUS
<1>8. /\ m \in Run /\ Same(r, m) /\ m.step = "restore" /\ m.heaps = r.heaps
      /\ m.origin = r.origin /\ m.result = r.result /\ m.selected = r.selected
  BY <1>6, <1>7 DEF Reaches, Run, Same
<1>9. Orderly(m)
  BY <1>2, <1>3, <1>8 DEF Orderly, Same
<1>10. Reuses(i, m)
  BY <1>2, <1>3, <1>8 DEF Reuses
<1>11. runs' = [runs EXCEPT ![i] = m]
  BY <1>1, <1>4, <1>5, <1>7
<1> QED
  BY <1>1, <1>3, <1>8, <1>9, <1>10, <1>11, AttemptMoves

\* Heaps are restored from a state that was validated, or not at all.
LEMMA RestoreOutcomeIs ==
  ASSUME NEW run, NEW heaps \in RestoreOutcome(run), heaps # "partial"
  PROVE  /\ heaps \in {"absent", "main", "pr"}
         /\ heaps = "main" => validateState(run.mainState, run, "main")
         /\ heaps = "pr" => validateState(run.prState, run, "pr")
<1>1. \A state, origin : \A h \in CopyOutcome(state, run, origin) :
        /\ h \in {origin, "absent", "partial"}
        /\ h = origin => validateState(state, run, origin) \/ origin = "absent"
  BY DEF CopyOutcome
<1>2. \/ heaps \in CopyOutcome(run.prState, run, "pr")
      \/ heaps \in CopyOutcome(run.mainState, run, "main")
  BY DEF RestoreOutcome
<1> QED
  BY <1>1, <1>2

\* An attempt goes on to the build with what was restored, or ends with a
\* part of it.
LEMMA RestoreKeeps ==
  ASSUME CIInv, NEW i \in DOMAIN runs, Restore(i) PROVE CIInv'
<1>1. PICK r : r = runs[i]
  OBVIOUS
<1>2. r \in Run /\ Orderly(r) /\ Reuses(i, r)
  BY <1>1, RunIs
<1>3. /\ r.step = "restore" /\ r.event # "clean"
      /\ UNCHANGED <<pulls, commits, permitted, artifacts, caches>>
  BY <1>1, <1>2 DEF Restore, Orderly
<1>4. PICK heaps \in RestoreOutcome(r) :
        runs' = IF heaps = "partial"
                THEN [runs EXCEPT ![i] = Ended(@, "failure")]
                ELSE [runs EXCEPT ![i].step = "build", ![i].heaps = heaps,
                        ![i].origin = IF heaps = "absent" THEN "none" ELSE heaps]
  BY <1>1 DEF Restore
<1>5. CASE heaps = "partial"
  BY <1>3, <1>4, <1>5, AttemptFails
<1>6. CASE heaps # "partial"
  <2>1. /\ heaps \in {"absent", "main", "pr"}
        /\ heaps = "main" => validateState(r.mainState, r, "main")
        /\ heaps = "pr" => validateState(r.prState, r, "pr")
    BY <1>6, RestoreOutcomeIs
  <2>2. PICK origin \in {"none", "main", "pr"} :
          /\ origin = IF heaps = "absent" THEN "none" ELSE heaps
          /\ origin = "pr" => heaps = "pr"
    BY <2>1
  <2>3. PICK k : k = [r EXCEPT !.step = "build"]
    OBVIOUS
  <2>4. Reaches(r, k, "build")
    BY <1>2, <2>3, ReachesIs DEF Steps
  <2>5. PICK m : m = [k EXCEPT !.heaps = heaps]
    OBVIOUS
  <2>6. /\ m \in Run /\ Same(r, m) /\ m.step = "build" /\ m.heaps = heaps
        /\ m.origin = r.origin /\ m.result = r.result /\ m.selected = r.selected
        /\ m.mainState = r.mainState /\ m.prState = r.prState
    BY <2>1, <2>4, <2>5 DEF Reaches, Run, Same
  <2>7. PICK n : n = [m EXCEPT !.origin = origin]
    OBVIOUS
  <2>8. /\ n \in Run /\ Same(r, n) /\ n.step = "build" /\ n.heaps = heaps
        /\ n.origin = origin /\ n.result = r.result /\ n.selected = r.selected
        /\ n.mainState = r.mainState /\ n.prState = r.prState
    BY <2>2, <2>6, <2>7 DEF Run, Same
  <2>9. /\ heaps = "main" => Whole(n.mainState, n)
        /\ heaps = "pr" => Whole(n.prState, n) /\ n.prState.source = sourceIdentity(n.tree)
    BY <2>1, <2>8 DEF validateState, Whole, Same, profileIdentity, sourceIdentity
  <2>10. Orderly(n)
    BY <1>2, <1>3, <2>1, <2>8, <2>9 DEF Orderly, Same
  <2>11. heaps = "pr" => r.prState # None
    BY <2>1 DEF validateState
  <2>12. Reuses(i, n)
    BY <1>2, <2>2, <2>8, <2>11 DEF Reuses, Exact
  <2>13. runs' = [runs EXCEPT ![i] = n]
    BY <1>1, <1>4, <1>6, <2>2, <2>3, <2>5, <2>7
  <2> QED
    BY <1>1, <1>3, <2>8, <2>10, <2>12, <2>13, AttemptMoves
<1> QED
  BY <1>5, <1>6

\* The build is native, whatever it started from.
LEMMA BuildKeeps ==
  ASSUME CIInv, NEW i \in DOMAIN runs, Build(i) PROVE CIInv'
<1>1. PICK r : r = runs[i]
  OBVIOUS
<1>2. r \in Run /\ Orderly(r) /\ Reuses(i, r)
  BY <1>1, RunIs
<1>3. r.step = "build" /\ UNCHANGED <<pulls, commits, permitted, artifacts, caches>>
  BY <1>1 DEF Build
<1>4. CASE runs' = [runs EXCEPT ![i] = Ended(runs[i], "failure")]
  BY <1>3, <1>4, AttemptFails
<1>5. CASE runs' = [runs EXCEPT ![i].heaps = "built",
                      ![i].step = IF Seals(runs[i]) THEN "seal" ELSE "report"]
  <2>1. PICK step \in Steps : step = IF Seals(r) THEN "seal" ELSE "report"
    BY DEF Steps
  <2>2. PICK k : k = [r EXCEPT !.step = step]
    OBVIOUS
  <2>3. Reaches(r, k, step)
    BY <1>2, <2>2, ReachesIs
  <2>4. PICK m : m = [k EXCEPT !.heaps = "built"]
    OBVIOUS
  <2>5. /\ m \in Run /\ Same(r, m) /\ m.step = step /\ m.heaps = "built"
        /\ m.origin = r.origin /\ m.result = r.result /\ m.selected = r.selected
        /\ m.prState = r.prState
    BY <2>3, <2>4 DEF Reaches, Run, Same
  <2>6. step \in {"seal", "report"} /\ (step = "seal" => Seals(m))
    BY <2>1, <2>5 DEF Seals, Same
  <2>7. Orderly(m)
    BY <1>2, <1>3, <2>5, <2>6 DEF Orderly, Same
  <2>8. Reuses(i, m)
    BY <1>2, <2>5, <2>6 DEF Reuses
  <2>9. runs' = [runs EXCEPT ![i] = m]
    BY <1>1, <1>5, <2>1, <2>2, <2>4
  <2> QED
    BY <1>1, <1>3, <2>5, <2>7, <2>8, <2>9, AttemptMoves
<1> QED
  BY <1>4, <1>5 DEF Build

\* What a seal publishes, and where.
Receipt(i, r) ==
  [profile |-> profileIdentity(r.tree), source |-> sourceIdentity(r.tree),
   event |-> r.event, run |-> i, attempt |-> r.attempt, intact |-> TRUE]
Stored(r) == \E k \in DOMAIN caches : SameKey(caches[k], r)

\* A receipt describes the tree its run has built.
LEMMA ReceiptIs ==
  ASSUME NEW i \in Nat, NEW r \in Run
  PROVE  /\ Receipt(i, r) \in State /\ Receipt(i, r).run = i
         /\ Receipt(i, r).source = r.tree
         /\ Receipt(i, r).profile = profileIdentity(r.tree)
<1>1. r.tree \in Tree /\ profileIdentity(r.tree) \in Tree /\ sourceIdentity(r.tree) = r.tree
  BY DEF Run, Tree, profileIdentity, sourceIdentity
<1>2. r.event \in Events /\ r.attempt \in Nat
  BY DEF Run
<1> QED
  BY <1>1, <1>2 DEF Receipt, State

\* Only a run of this repository publishes an artifact, of what it has built, ...
LEMMA ArtifactsKept ==
  ASSUME CIInv, Grows, NEW i \in DOMAIN runs, NEW r, r = runs[i], r \in Run, Seals(r),
         artifacts' = IF r.event = "pull_request"
                      THEN artifacts \cup {Receipt(i, r)} ELSE artifacts
  PROVE  artifacts' \subseteq State /\ ArtifactsOK'
<1>1. i \in Nat
  BY DEF CIInv, TypeOK
<1>2. PICK receipt : receipt = Receipt(i, r)
  OBVIOUS
<1>3. receipt \in State /\ receipt.run = i /\ receipt.source = r.tree
  BY <1>1, <1>2, ReceiptIs
<1>4. artifacts' \subseteq State
  BY <1>2, <1>3 DEF CIInv, TypeOK
<1>5. ASSUME NEW a \in artifacts' PROVE Uploaded(a)'
  <2>1. CASE a \in artifacts
    BY <2>1, StoredStays DEF CIInv, ArtifactsOK
  <2>2. CASE a \notin artifacts
    <3>1. a = receipt /\ r.event = "pull_request"
      BY <1>2, <1>5, <2>2
    <3>2. Uploaded(a)
      BY <1>3, <3>1 DEF Uploaded, Seals
    <3> QED
      BY <3>2, StoredStays
  <2> QED
    BY <2>1, <2>2
<1> QED
  BY <1>4, <1>5 DEF ArtifactsOK

\* ... and only a push a cache entry, of its commit, under a key of its own.
LEMMA CachesKept ==
  ASSUME CIInv, Grows, NEW i \in DOMAIN runs, NEW r, r = runs[i], r \in Run, OfCommit(r),
         \/ caches' = caches
         \/ r.event = "push" /\ ~ Stored(r) /\ caches' = Append(caches, Receipt(i, r))
  PROVE  caches' \in Seq(State) /\ CachesOK'
<1>1. CachesOK /\ caches \in Seq(State) /\ i \in Nat
  BY DEF CIInv, TypeOK
<1>2. CASE caches' = caches
  BY <1>1, <1>2, StoredStays DEF CachesOK, OneKey
<1>3. CASE r.event = "push" /\ ~ Stored(r) /\ caches' = Append(caches, Receipt(i, r))
  <2>1. PICK receipt : receipt = Receipt(i, r)
    OBVIOUS
  <2>2. /\ receipt \in State /\ receipt.run = i /\ receipt.source = r.tree
        /\ receipt.profile = profileIdentity(r.tree)
    BY <1>1, <2>1, ReceiptIs
  <2>3. Saved(receipt)
    BY <1>3, <2>2 DEF Saved, OfCommit, sourceIdentity
  <2>4. PICK new : new = Len(caches) + 1
    OBVIOUS
  <2>5. /\ caches' \in Seq(State) /\ DOMAIN caches' = DOMAIN caches \cup {new}
        /\ new \notin DOMAIN caches /\ caches'[new] = receipt
        /\ \A k \in DOMAIN caches : caches'[k] = caches[k]
    BY <1>1, <1>3, <2>1, <2>2, <2>4
  <2>6. ASSUME NEW k \in DOMAIN caches'
        PROVE  Saved(caches[k])'
    <3>1. PICK state : state = caches'[k]
      OBVIOUS
    <3>2. Saved(state)
      BY <1>1, <2>3, <2>5, <3>1 DEF CachesOK
    <3>3. Saved(state)'
      BY <3>2, StoredStays
    <3> QED
      BY <3>1, <3>3 DEF Saved
  <2>7. \A k \in DOMAIN caches :
          ~ (caches[k].source = receipt.source /\ caches[k].profile = receipt.profile)
    BY <1>3, <2>2 DEF Stored, SameKey, sourceIdentity
  <2>8. ASSUME NEW k \in DOMAIN caches', NEW other \in DOMAIN caches' \ {k}
        PROVE  OneKey(k, other)'
    <3>1. CASE k \in DOMAIN caches /\ other \in DOMAIN caches
      BY <1>1, <2>5, <2>8, <3>1 DEF CachesOK, OneKey
    <3>2. CASE k = new /\ other \in DOMAIN caches
      BY <2>5, <2>7, <3>2 DEF OneKey
    <3>3. CASE k \in DOMAIN caches /\ other = new
      BY <2>5, <2>7, <3>3 DEF OneKey
    <3> QED
      BY <2>5, <2>8, <3>1, <3>2, <3>3
  <2> QED
    BY <2>5, <2>6, <2>8 DEF CachesOK
<1> QED
  BY <1>2, <1>3

\* Sealing takes the attempt to its report.
LEMMA SealKeeps ==
  ASSUME CIInv, NEW i \in DOMAIN runs, Seal(i) PROVE CIInv'
<1>1. PICK r : r = runs[i]
  OBVIOUS
<1>2. r \in Run /\ Orderly(r) /\ OfCommit(r) /\ Reuses(i, r)
  BY <1>1, RunIs
<1>3. /\ r.step = "seal" /\ runs' = [runs EXCEPT ![i].step = "report"]
      /\ artifacts' = IF r.event = "pull_request"
                      THEN artifacts \cup {Receipt(i, r)} ELSE artifacts
      /\ UNCHANGED <<pulls, commits, permitted>>
  BY <1>1 DEF Seal, Receipt
<1>4. \/ caches' = caches
      \/ r.event = "push" /\ ~ Stored(r) /\ caches' = Append(caches, Receipt(i, r))
  BY <1>1 DEF Seal, Receipt, Stored
<1>5. PICK k : k = [r EXCEPT !.step = "report"]
  OBVIOUS
<1>6. Reaches(r, k, "report")
  BY <1>2, <1>5, ReachesIs DEF Steps
<1>7. Orderly(k) /\ Seals(r)
  BY <1>2, <1>3, <1>6 DEF Orderly, Reaches, Same
<1>8. Reuses(i, k)
  BY <1>2, <1>6 DEF Reuses, Reaches
<1>9. runs' = [runs EXCEPT ![i] = k]
  BY <1>1, <1>3, <1>5
<1>10. Grows /\ RunsOK' /\ runs' \in Seq(Run)
  BY <1>1, <1>3, <1>6, <1>7, <1>8, <1>9, RunMoves DEF Reaches
<1>11. artifacts' \subseteq State /\ ArtifactsOK'
  BY <1>1, <1>2, <1>3, <1>7, <1>10, ArtifactsKept
<1>12. caches' \in Seq(State) /\ CachesOK'
  BY <1>1, <1>2, <1>4, <1>10, CachesKept
<1> QED
  BY <1>3, <1>10, <1>11, <1>12 DEF CIInv, TypeOK

\* Only what has built natively is reported as a success.
LEMMA ReportKeeps ==
  ASSUME CIInv, NEW i \in DOMAIN runs, Report(i) PROVE CIInv'
<1>1. PICK r : r = runs[i]
  OBVIOUS
<1>2. r \in Run /\ Orderly(r) /\ Reuses(i, r)
  BY <1>1, RunIs
<1>3. PICK e : e = Ended(r, "success")
  OBVIOUS
<1>4. /\ r.step = "report" /\ runs' = [runs EXCEPT ![i] = e]
      /\ UNCHANGED <<pulls, commits, permitted, artifacts, caches>>
  BY <1>1, <1>3 DEF Report
<1>5. r.heaps = "built"
  BY <1>2, <1>4 DEF Orderly
<1>6. e \in Run /\ Same(r, e) /\ Orderly(e) /\ Reuses(i, e)
  BY <1>2, <1>3, <1>5, EndedIs
<1> QED
  BY <1>1, <1>4, <1>6, AttemptMoves

\* A timeout ends the attempt.
LEMMA TimeoutKeeps ==
  ASSUME CIInv, NEW i \in DOMAIN runs, Timeout(i) PROVE CIInv'
BY AttemptFails DEF Timeout
-----------------------------------------------------------------------------
(* The theorems *)

\* Nothing has run and nothing is stored when main has only its first commit.
LEMMA InitHolds == Init => CIInv
<1> SUFFICES ASSUME Init PROVE CIInv
  OBVIOUS
<1>1. PICK zero \in Nat, one \in Nat :
        pulls = [p \in PullRequests |->
                  [revision |-> one, merged |-> FALSE, commit |-> zero]]
  BY DEF Init
<1>2. pulls \in [PullRequests -> Pull]
  BY <1>1 DEF Pull
<1>3. commits \in Seq(Tree) /\ commits # <<>>
  <2>1. {} \in Tree
    BY DEF Tree
  <2> QED
    BY <2>1 DEF Init
<1>4. runs \in Seq(Run) /\ caches \in Seq(State) /\ DOMAIN runs = {} /\ DOMAIN caches = {}
  BY DEF Init
<1> QED
  BY <1>2, <1>3, <1>4 DEF Init, CIInv, TypeOK, RunsOK, ArtifactsOK, CachesOK

\* Every step of the workflow keeps what was established.
LEMMA StepKeeps == CIInv /\ [Next]_vars => CIInv'
<1> SUFFICES ASSUME CIInv, [Next]_vars PROVE CIInv'
  OBVIOUS
<1>1. ASSUME NEW i \in DOMAIN runs, Rerun(i) \/ Timeout(i) \/ Advance(i) PROVE CIInv'
  BY <1>1, RerunKeeps, TimeoutKeeps, StartKeeps, RestoreCacheKeeps, SelectPrKeeps,
     DownloadKeeps, RestoreKeeps, BuildKeeps, SealKeeps, ReportKeeps DEF Advance
<1>2. ASSUME NEW p \in PullRequests,
             Revise(p) \/ OpenRun(p) \/ Merge(p) \/ ChangePermission(p)
      PROVE  CIInv'
  BY <1>2, OpenRunKeeps, MergeKeeps, EventKeeps
<1>3. CASE CleanRun
  BY <1>3, CleanRunKeeps
<1>4. CASE Expire
  BY <1>4, EventKeeps
<1>5. CASE UNCHANGED vars
  <2>1. Kept(runs') /\ UNCHANGED <<pulls, commits, permitted, runs, artifacts, caches>>
    BY <1>5, KeptAsIs DEF vars
  <2>2. Grows /\ RunsOK'
    BY <2>1, KeptRuns
  <2>3. ArtifactsOK' /\ CachesOK'
    BY <2>1, <2>2, StoresStay DEF CIInv
  <2>4. TypeOK'
    BY <2>1 DEF CIInv, TypeOK
  <2> QED
    BY <2>2, <2>3, <2>4 DEF CIInv
<1> QED
  BY <1>1, <1>2, <1>3, <1>4, <1>5 DEF Next

\* Whatever order pull requests, merges, runs and their failures come in, runs
\* pass through their steps in order, reuse only what was built from their own
\* tree, and store only what they may.
THEOREM WorkflowHolds == Spec => []CIInv
BY InitHolds, StepKeeps, PTL DEF Spec

\* What a push takes from a pull request was built from the very tree it is
\* about to build (selectPrArtifact and validateState of proof-ci.mjs).
THEOREM ReuseIsExact == Spec => []ReuseExact
<1>1. CIInv => ReuseExact
  <2> SUFFICES ASSUME CIInv, NEW i \in DOMAIN runs, runs[i].origin = "pr"
               PROVE  \E p \in PullRequests \ Forks, j \in DOMAIN runs :
                        /\ runs[i].event = "push" /\ pulls[p].commit = runs[i].commit
                        /\ runs[j].event = "pull_request" /\ runs[j].pr = p
                        /\ runs[j].head = pulls[p].revision
                        /\ runs[j].tree = runs[i].tree
    BY DEF ReuseExact
  <2>1. PICK j \in DOMAIN runs : Exact(i, j)
    BY DEF CIInv, RunsOK, Reuses
  <2> QED
    BY <2>1 DEF Exact
<1> QED
  BY <1>1, WorkflowHolds, PTL

\* A cache entry is the build of a commit of main, alone under its key, and an
\* artifact comes from a pull request of this repository (the conditions under
\* which the workflow uploads and saves).
THEOREM SharedStateIsOwned == Spec => []SharedStateOwned
<1>1. CIInv => SharedStateOwned
  BY DEF CIInv, ArtifactsOK, Uploaded, CachesOK, Saved, OneKey, SharedStateOwned
<1> QED
  BY <1>1, WorkflowHolds, PTL

\* Reuse never replaces the build: it starts from heaps that are absent or whole
\* and no run succeeds without having built natively in that attempt.
THEOREM BuildsAreNative == Spec => []NativeBuild
<1>1. CIInv => NativeBuild
  <2> SUFFICES ASSUME CIInv PROVE NativeBuild
    OBVIOUS
  <2>1. ASSUME NEW i \in DOMAIN runs, NEW run, run = runs[i]
        PROVE  /\ run.step = "build" =>
                   /\ run.heaps = "main" => Whole(run.mainState, run)
                   /\ run.heaps = "pr" => /\ Whole(run.prState, run)
                                          /\ run.prState.source = sourceIdentity(run.tree)
                   /\ run.heaps \in {"absent", "main", "pr"}
                   /\ run.event = "clean" => run.heaps = "absent"
               /\ run.result = "success" => run.heaps = "built"
    <3>1. run \in Run /\ Orderly(run)
      BY <2>1, RunIs
    <3> QED
      BY <3>1 DEF Orderly, Run
  <2> QED
    BY <2>1 DEF NativeBuild, Whole
<1> QED
  BY <1>1, WorkflowHolds, PTL
=============================================================================
