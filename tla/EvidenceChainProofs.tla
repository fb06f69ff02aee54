------------------------ MODULE EvidenceChainProofs ------------------------
(***************************************************************************)
(* What continuous integration accepts carries no stale credit, whatever   *)
(* was edited, removed, cut off or run out of order before, and however    *)
(* often.                                                                  *)
(***************************************************************************)
EXTENDS EvidenceChain, FiniteSums, SequenceTheorems
-----------------------------------------------------------------------------
(* The last write *)

\* A file holds what it held, or what one of the writes put there.
LEMMA AppliedIs ==
  ASSUME NEW t, NEW S, NEW s \in Seq(S)
  PROVE  /\ DOMAIN Applied(t, s) = DOMAIN t
         /\ \A f \in DOMAIN t :
              \/ Applied(t, s)[f] = t[f]
              \/ \E w \in S : w.file = f /\ Applied(t, s)[f] = w.to
<1>1. DOMAIN Applied(t, s) = DOMAIN t
  BY DEF Applied
<1>2. ASSUME NEW f \in DOMAIN t
      PROVE  \/ Applied(t, s)[f] = t[f]
             \/ \E w \in S : w.file = f /\ Applied(t, s)[f] = w.to
  <2> DEFINE to == {i \in DOMAIN s : s[i].file = f}
  <2>1. Applied(t, s)[f] = IF to = {} THEN t[f] ELSE s[Max(to)].to
    BY DEF Applied
  <2>2. ASSUME to # {}
        PROVE  Max(to) \in to
    <3>1. Len(s) \in Nat /\ DOMAIN s = 1 .. Len(s)
      OBVIOUS
    <3>2. IsFiniteSet(1 .. Len(s))
      BY <3>1, FS_Interval
    <3>3. IsFiniteSet(to) /\ to \subseteq Int
      BY <3>1, <3>2, FS_Subset
    <3> HIDE DEF to
    <3> QED
      BY <2>2, <3>3, MaxIs
  <2>3. \A i \in DOMAIN s : s[i] \in S
    OBVIOUS
  <2> QED
    BY <2>1, <2>2, <2>3
<1> QED
  BY <1>1, <1>2
-----------------------------------------------------------------------------
(* Commands one after the other *)

\* What holds at first, and after every step when it held before, holds throughout.
LEMMA Throughout ==
  ASSUME NEW N \in Nat, NEW P, 0 \in P, \A n \in 0 .. N - 1 : n \in P => n + 1 \in P
  PROVE  \A n \in 0 .. N : n \in P
<1>1. PICK bad : bad = {n \in 0 .. N : n \notin P}
  OBVIOUS
<1>2. IsFiniteSet(bad) /\ bad \subseteq Int
  <2>1. IsFiniteSet(0 .. N) /\ bad \subseteq 0 .. N
    BY <1>1, FS_Interval
  <2>2. bad \subseteq Int
    BY <1>1
  <2>3. IsFiniteSet(bad)
    BY <2>1, FS_Subset
  <2> QED
    BY <2>2, <2>3
<1>3. ASSUME bad # {} PROVE FALSE
  <2>1. PICK x \in bad : \A y \in bad : x <= y
    BY <1>2, <1>3, MinIs
  <2>2. x \in 0 .. N /\ x \notin P /\ x # 0
    BY <1>1
  <2>3. x - 1 \in 0 .. N - 1
    BY <2>2
  <2>4. x - 1 \notin bad
    BY <2>1, <2>2
  <2>5. x - 1 \in P
    BY <1>1, <2>3, <2>4
  <2>6. (x - 1) + 1 \in P
    BY <2>3, <2>5
  <2> QED
    BY <2>2, <2>6
<1> QED
  BY <1>1, <1>3

\* The trees after each command.
Step(r, c) == Applied(r, Writes(c, r))
\* g is the function from how many of them ran to the tree.
After(t, commands, N, g) ==
  g = [n \in 0 .. N |-> IF n = 0 THEN t ELSE Step(g[n - 1], commands[n])]

\* There are such trees: those of the commands before the last, and what the last
\* makes of them.
LEMMA AfterExists ==
  ASSUME NEW t, NEW commands, NEW N \in Nat
  PROVE  \E g : After(t, commands, N, g)
<1>1. PICK P : P = {n \in 0 .. N : \E g : After(t, commands, n, g)}
  OBVIOUS
<1>2. 0 \in P
  <2>1. PICK g : g = [n \in 0 .. 0 |-> t]
    OBVIOUS
  <2>2. g = [n \in 0 .. 0 |-> IF n = 0 THEN t ELSE Step(g[n - 1], commands[n])]
    BY <2>1
  <2>3. After(t, commands, 0, g)
    BY <2>2 DEF After
  <2> QED
    BY <1>1, <2>3
<1>3. ASSUME NEW n \in 0 .. N - 1, n \in P PROVE n + 1 \in P
  <2>1. PICK g : After(t, commands, n, g)
    BY <1>1, <1>3
  <2>2. PICK h : h = [m \in 0 .. n + 1 |->
                        IF m <= n THEN g[m] ELSE Step(g[n], commands[n + 1])]
    OBVIOUS
  <2>3. ASSUME NEW m \in 0 .. n + 1
        PROVE  h[m] = IF m = 0 THEN t ELSE Step(h[m - 1], commands[m])
    <3>1. CASE m = 0
      <4>1. h[m] = g[0]
        BY <2>2, <3>1
      <4>2. g[0] = t
        BY <2>1 DEF After
      <4> QED
        BY <3>1, <4>1, <4>2
    <3>2. CASE m # 0 /\ m <= n
      <4>1. h[m] = g[m] /\ h[m - 1] = g[m - 1]
        BY <2>2, <3>2
      <4>2. g[m] = Step(g[m - 1], commands[m])
        BY <2>1, <3>2 DEF After
      <4> QED
        BY <3>2, <4>1, <4>2
    <3>3. CASE m = n + 1
      <4>1. h[m] = Step(g[n], commands[n + 1]) /\ h[n] = g[n]
        BY <2>2, <3>3
      <4>2. m - 1 = n /\ m # 0
        BY <3>3
      <4> QED
        BY <3>3, <4>1, <4>2
    <3> QED
      BY <3>1, <3>2, <3>3
  <2>4. h = [m \in 0 .. n + 1 |-> IF m = 0 THEN t ELSE Step(h[m - 1], commands[m])]
    BY <2>2, <2>3
  <2>5. After(t, commands, n + 1, h)
    BY <2>4 DEF After
  <2>6. n + 1 \in 0 .. N
    OBVIOUS
  <2> QED
    BY <1>1, <2>5, <2>6
<1>4. N \in P
  BY <1>2, <1>3, Throughout
<1> QED
  BY <1>1, <1>4

\* Carrying a change through goes from tree to tree.
LEMMA CarriedIs ==
  ASSUME NEW t, NEW commands, Len(commands) \in Nat
  PROVE  \E g : /\ Carried(t, commands) = g[Len(commands)] /\ g[0] = t
                /\ \A n \in 1 .. Len(commands) : g[n] = Step(g[n - 1], commands[n])
<1>1. PICK g : g = CHOOSE h : After(t, commands, Len(commands), h)
  OBVIOUS
<1>2. After(t, commands, Len(commands), g)
  BY <1>1, AfterExists
<1>3. Carried(t, commands) = g[Len(commands)]
  BY <1>1 DEF Carried, After, Step
<1>4. g[0] = t
  BY <1>2 DEF After
<1>5. ASSUME NEW n \in 1 .. Len(commands)
      PROVE  g[n] = Step(g[n - 1], commands[n])
  <2>1. n \in 0 .. Len(commands) /\ n # 0
    OBVIOUS
  <2> QED
    BY <1>2, <2>1 DEF After
<1> QED
  BY <1>3, <1>4, <1>5
-----------------------------------------------------------------------------
(* The inductive invariant *)

\* The files of a tree.
Files ==
  Protected \cup
    {"out", "isaRun", "isaReplay", "model", "killed", "detReplay", "validation", "rid",
     "reuse", "seal", "kontrolRun", "certoraRun", "manifest"}

\* Two receipts whose verifiers do not look at what was run.  That of the proofs is
\* of a run on the theories it names, that of the double build of a build of the
\* sources it names.
OfItsRun(receipt) == receipt # None => receipt.of = receipt.ran
OfItsBuild(receipt) == receipt # None => receipt.replay = receipt.source

\* What people edit; no command writes it.
Edited == {"spec", "token", "base", "hook", "thy", "ledger"}

\* The tree has its files, sources in one of their versions, and honest receipts.
Honest(t) ==
  /\ DOMAIN t = Files
  /\ \A f \in Edited : t[f] \in {0, 1}
  /\ OfItsRun(t.isa) /\ OfItsBuild(t.det)

\* A write that keeps it so.
HonestWrite(w) ==
  /\ w.file \notin Edited
  /\ w.file = "isa" => OfItsRun(w.to)
  /\ w.file = "det" => OfItsBuild(w.to)

\* The inductive invariant.
TreeInv == Honest(tree)

\* Such writes, in whatever number, keep a tree so.
LEMMA AppliedHonest ==
  ASSUME NEW t, Honest(t), NEW S, NEW s \in Seq(S), \A w \in S : HonestWrite(w)
  PROVE  Honest(Applied(t, s))
<1>1. "isa" \in Files /\ "det" \in Files /\ Edited \subseteq Files
  BY DEF Files, Protected, Edited
<1>2. /\ DOMAIN Applied(t, s) = DOMAIN t
      /\ \A f \in DOMAIN t :
           \/ Applied(t, s)[f] = t[f]
           \/ \E w \in S : w.file = f /\ Applied(t, s)[f] = w.to
  BY AppliedIs
<1> QED
  BY <1>1, <1>2 DEF Honest, HonestWrite

\* The writes of a command are a sequence of such writes.
HonestWrites(s) == \E S : s \in Seq(S) /\ \A w \in S : HonestWrite(w)

\* A command that refuses writes nothing.
LEMMA NoWrites == HonestWrites(<<>>)
<1>1. PICK s, S : s = <<>> /\ S = {}
  OBVIOUS
<1>2. s \in Seq(S) /\ \A y \in S : HonestWrite(y)
  BY <1>1
<1>3. HonestWrites(s)
  BY <1>2 DEF HonestWrites
<1> QED
  BY <1>1, <1>3

\* A write of another file is one.
LEMMA OtherWrite ==
  ASSUME NEW f, NEW c, f \notin {"isa", "det"}, f \notin Edited
  PROVE  HonestWrite(W(f, c))
BY DEF HonestWrite, W

\* Of one such write, of two, three and four the sequence is one.
LEMMA OneWrite ==
  ASSUME NEW w, HonestWrite(w) PROVE HonestWrites(<<w>>)
<1>1. PICK s, S : s = <<w>> /\ S = {w}
  OBVIOUS
<1>2. s \in Seq(S) /\ \A y \in S : HonestWrite(y)
  BY <1>1
<1>3. HonestWrites(s)
  BY <1>2 DEF HonestWrites
<1> QED
  BY <1>1, <1>3

\* Two of them.
LEMMA TwoWrites ==
  ASSUME NEW v, NEW w, HonestWrite(v), HonestWrite(w) PROVE HonestWrites(<<v, w>>)
<1>1. PICK s, S : s = <<v, w>> /\ S = {v, w}
  OBVIOUS
<1>2. s \in Seq(S) /\ \A y \in S : HonestWrite(y)
  BY <1>1
<1>3. HonestWrites(s)
  BY <1>2 DEF HonestWrites
<1> QED
  BY <1>1, <1>3

\* Three of them.
LEMMA ThreeWrites ==
  ASSUME NEW u, NEW v, NEW w, HonestWrite(u), HonestWrite(v), HonestWrite(w)
  PROVE  HonestWrites(<<u, v, w>>)
<1>1. PICK s, S : s = <<u, v, w>> /\ S = {u, v, w}
  OBVIOUS
<1>2. s \in Seq(S) /\ \A y \in S : HonestWrite(y)
  BY <1>1
<1>3. HonestWrites(s)
  BY <1>2 DEF HonestWrites
<1> QED
  BY <1>1, <1>3

\* Four of them.
LEMMA FourWrites ==
  ASSUME NEW u, NEW v, NEW w, NEW x, HonestWrite(u), HonestWrite(v), HonestWrite(w),
         HonestWrite(x)
  PROVE  HonestWrites(<<u, v, w, x>>)
<1>1. PICK s, S : s = <<u, v, w, x>> /\ S = {u, v, w, x}
  OBVIOUS
<1>2. s \in Seq(S) /\ \A y \in S : HonestWrite(y)
  BY <1>1
<1>3. HonestWrites(s)
  BY <1>2 DEF HonestWrites
<1> QED
  BY <1>1, <1>3

\* The two recorders record what they compared.
LEMMA RecordIsabelleHonest == ASSUME NEW t PROVE HonestWrites(RecordIsabelle(t))
<1>1. CASE t.isaRun # None /\ t.isaRun = Formal(t)
  <2>1. PICK r : r = [of |-> Formal(t), ran |-> t.isaRun]
    OBVIOUS
  <2>2. RecordIsabelle(t) = <<W("isaReplay", r), W("isa", r)>>
    BY <1>1, <2>1 DEF RecordIsabelle
  <2>3. OfItsRun(r)
    BY <1>1, <2>1 DEF OfItsRun
  <2>4. HonestWrite(W("isa", r)) /\ HonestWrite(W("isaReplay", r))
    BY <2>3 DEF HonestWrite, W, Edited
  <2> QED
    BY <2>2, <2>4, TwoWrites
<1>2. CASE ~ (t.isaRun # None /\ t.isaRun = Formal(t))
  <2>1. RecordIsabelle(t) = <<>>
    BY <1>2 DEF RecordIsabelle
  <2> QED
    BY <2>1, NoWrites
<1> QED
  BY <1>1, <1>2

\* The recorder of the double build records the sources it compared with.
LEMMA RecordDeterministicHonest == ASSUME NEW t PROVE HonestWrites(RecordDeterministic(t))
<1>1. PICK r : r = [replay |-> t.detReplay, source |-> Source(t)]
  OBVIOUS
<1>2. CASE t.detReplay = Source(t) /\ RecordDeterministic(t) = <<W("det", r)>>
  <2>1. OfItsBuild(r)
    BY <1>1, <1>2 DEF OfItsBuild
  <2>2. HonestWrite(W("det", r))
    BY <2>1 DEF HonestWrite, W, Edited
  <2> QED
    BY <1>2, <2>2, OneWrite
<1>3. CASE RecordDeterministic(t) = <<>>
  BY <1>3, NoWrites
<1> QED
  BY <1>1, <1>2, <1>3 DEF RecordDeterministic

\* The other commands write neither receipt.
LEMMA WritesHonest == ASSUME NEW t, NEW c \in Command PROVE HonestWrites(Writes(c, t))
<1>1. c \in {"kernel", "reproduce", "forge", "bridge", "ledgerTheory", "runIsabelle",
    "recordIsabelle", "model", "hookMutations", "admit", "runFoundry", "rid",
    "manifest", "det", "foundry", "runKontrol", "kontrol", "runCertora",
    "certora", "reuse", "seal", "binding", "ledger", "index"}
  <2>1. PICK i \in DOMAIN Order : c = Order[i]
    BY DEF Command, Range
  <2>2. i \in 1 .. 25
    BY DEF Order
  <2> QED
    BY <2>1, <2>2 DEF Order
<1>2. CASE c = "kernel"
  BY <1>2, FourWrites, OtherWrite
     DEF Edited, Writes, KernelOutputs, Interface, Abi, Vectors, ReceiptSchema
<1>3. CASE c = "reproduce"
  BY <1>3, NoWrites, OneWrite, OtherWrite DEF Edited, Writes, Reproduce
<1>4. CASE c = "forge"
  BY <1>4, OneWrite, OtherWrite DEF Edited, Writes, ForgeBuild
<1>5. CASE c = "bridge"
  <2>1. PICK s : s = BridgeSchema(t)
    OBVIOUS
  <2>2. \/ Writes(c, t) = <<W("schema", s), W("bridgeThy", s), W("kbridge", s),
                            W("bridgeManifest", BridgeManifest(s))>>
        \/ Writes(c, t) = <<>>
    BY <1>5, <2>1 DEF Writes, Bridge, IsabelleBridge, KBridge
  <2> QED
    BY <2>2, NoWrites, FourWrites, OtherWrite DEF Edited
<1>6. CASE c = "ledgerTheory"
  BY <1>6, NoWrites, OneWrite, OtherWrite DEF Edited, Writes, LedgerTheoryOnly
<1>7. CASE c = "runIsabelle"
  BY <1>7, NoWrites, OneWrite, OtherWrite DEF Edited, Writes, RunIsabelle
<1>8. CASE c = "recordIsabelle"
  BY <1>8, RecordIsabelleHonest DEF Writes
<1>9. CASE c = "model"
  BY <1>9, NoWrites, OneWrite, OtherWrite DEF Edited, Writes, RecordModel
<1>10. CASE c = "hookMutations"
  BY <1>10, OneWrite, OtherWrite DEF Edited, Writes, RunHookMutations
<1>11. CASE c = "admit"
  BY <1>11, OneWrite, OtherWrite DEF Edited, Writes, Admit
<1>12. CASE c = "runFoundry"
  BY <1>12, TwoWrites, OtherWrite DEF Edited, Writes, RunFoundry
<1>13. CASE c = "rid"
  BY <1>13, NoWrites, OneWrite, OtherWrite DEF Edited, Writes, RuntimeIdentity
<1>14. CASE c = "manifest"
  BY <1>14, NoWrites, OneWrite, OtherWrite DEF Edited, Writes, ReleaseManifest
<1>15. CASE c = "det"
  BY <1>15, RecordDeterministicHonest DEF Writes
<1>16. CASE c = "foundry"
  BY <1>16, NoWrites, OneWrite, OtherWrite DEF Edited, Writes, RecordFoundry
<1>17. CASE c = "runKontrol"
  BY <1>17, OneWrite, OtherWrite DEF Edited, Writes, RunKontrol
<1>18. CASE c = "kontrol"
  BY <1>18, NoWrites, OneWrite, OtherWrite DEF Edited, Writes, RecordKontrol
<1>19. CASE c = "runCertora"
  BY <1>19, OneWrite, OtherWrite DEF Edited, Writes, RunCertora
<1>20. CASE c = "certora"
  BY <1>20, NoWrites, OneWrite, OtherWrite DEF Edited, Writes, RecordCertora
<1>21. CASE c = "reuse"
  <2>1. PICK r : r = [source |-> Source(t), hook |-> t.hook,
                      kontrol |-> t.kontrol, certora |-> t.certora]
    OBVIOUS
  <2>2. \/ Writes(c, t) = <<W("reuse", None)>> \o <<W("reuse", r)>>
        \/ Writes(c, t) = <<W("reuse", None)>> \o <<>>
    BY <1>21, <2>1 DEF Writes, RecordReuse
  <2>3. PICK v, w : v = W("reuse", None) /\ w = W("reuse", r)
    OBVIOUS
  <2>4. PICK S : S = {v, w}
    OBVIOUS
  <2>5. <<v>> \in Seq(S) /\ <<w>> \in Seq(S) /\ <<>> \in Seq(S)
    BY <2>4
  <2>6. <<v>> \o <<w>> \in Seq(S) /\ <<v>> \o <<>> \in Seq(S)
    BY <2>5, ConcatProperties
  <2>7. Writes(c, t) \in Seq(S)
    BY <2>2, <2>3, <2>6
  <2>8. HonestWrite(v) /\ HonestWrite(w)
    BY <2>3, OtherWrite DEF Edited
  <2>9. \A y \in S : HonestWrite(y)
    BY <2>4, <2>8
  <2> QED
    BY <2>7, <2>9 DEF HonestWrites
<1>22. CASE c = "seal"
  BY <1>22, NoWrites, OneWrite, OtherWrite DEF Edited, Writes, Seal
<1>23. CASE c = "binding"
  BY <1>23, NoWrites, TwoWrites, OtherWrite DEF Edited, Writes, Binding
<1>24. CASE c = "ledger"
  BY <1>24, NoWrites, ThreeWrites, OtherWrite DEF Edited, Writes, LedgerWrite
<1>25. CASE c = "index"
  BY <1>25, NoWrites, OneWrite, OtherWrite DEF Edited, Writes, WriteIndex
<1> QED
  BY <1>1, <1>2, <1>3, <1>4, <1>5, <1>6, <1>7, <1>8, <1>9, <1>10, <1>11, <1>12, <1>13,
     <1>14, <1>15, <1>16, <1>17, <1>18, <1>19, <1>20, <1>21, <1>22, <1>23, <1>24, <1>25

\* A command that is cut off writes the first of them.
LEMMA CutOffHonest ==
  ASSUME NEW t, Honest(t), NEW s, HonestWrites(s), NEW n \in 1 .. Len(s)
  PROVE  Honest(Applied(t, SubSeq(s, 1, n)))
<1>1. PICK S : s \in Seq(S) /\ \A w \in S : HonestWrite(w)
  BY DEF HonestWrites
<1>2. Len(s) \in Nat /\ \A i \in 1 .. Len(s) : s[i] \in S
  BY <1>1
<1>3. n \in Int /\ \A i \in 1 .. n : s[i] \in S
  BY <1>2
<1>4. SubSeq(s, 1, n) \in Seq(S)
  BY <1>3, SubSeqProperties
<1> QED
  BY <1>1, <1>4, AppliedHonest

\* A command that runs to its end keeps a tree honest.
LEMMA StepHonest ==
  ASSUME NEW t, Honest(t), NEW c \in Command PROVE Honest(Step(t, c))
BY WritesHonest, AppliedHonest DEF Step, HonestWrites

\* So do any number of them, one after the other.
LEMMA CarriedHonest ==
  ASSUME NEW t, Honest(t), NEW commands, Len(commands) \in Nat,
         \A n \in 1 .. Len(commands) : commands[n] \in Command
  PROVE  Honest(Carried(t, commands))
<1>1. PICK g : /\ Carried(t, commands) = g[Len(commands)] /\ g[0] = t
               /\ \A n \in 1 .. Len(commands) : g[n] = Step(g[n - 1], commands[n])
  BY CarriedIs
<1>2. PICK P : P = {n \in 0 .. Len(commands) : Honest(g[n])}
  OBVIOUS
<1>3. 0 \in P
  BY <1>1, <1>2
<1>4. ASSUME NEW n \in 0 .. Len(commands) - 1, n \in P PROVE n + 1 \in P
  <2>1. n + 1 \in 1 .. Len(commands) /\ (n + 1) - 1 = n
    OBVIOUS
  <2>2. g[n + 1] = Step(g[n], commands[n + 1])
    BY <1>1, <2>1
  <2>3. Honest(g[n + 1])
    BY <1>2, <1>4, <2>1, <2>2, StepHonest
  <2> QED
    BY <1>2, <2>1, <2>3
<1>5. \A n \in 0 .. Len(commands) : n \in P
  BY <1>3, <1>4, Throughout
<1> QED
  BY <1>1, <1>2, <1>5
-----------------------------------------------------------------------------
(* What is accepted *)

\* A checkout that is built differs in the build.
LEMMA BuiltIs ==
  ASSUME NEW t, DOMAIN t = Files
  PROVE  LET b == Applied(t, ForgeBuild(t)) IN
         /\ b.out = Source(t) /\ DOMAIN b = Files
         /\ \A f \in Files \ {"out"} : b[f] = t[f]
<1>1. PICK w, s, b : w = W("out", Source(t)) /\ s = <<w>> /\ b = Applied(t, s)
  OBVIOUS
<1>2. DOMAIN s = {1} /\ s[1] = w /\ w.file = "out" /\ w.to = Source(t)
  BY <1>1 DEF W
<1>3. DOMAIN b = Files
  BY <1>1 DEF Applied
<1>4. ASSUME NEW f \in Files
      PROVE  b[f] = IF {i \in {1} : s[i].file = f} = {} THEN t[f]
                    ELSE s[Max({i \in {1} : s[i].file = f})].to
  BY <1>1, <1>2 DEF Applied
<1>5. ASSUME NEW f \in Files \ {"out"} PROVE b[f] = t[f]
  BY <1>2, <1>4
<1>6. b.out = Source(t)
  <2>1. {i \in {1} : s[i].file = "out"} = {1}
    BY <1>2
  <2>2. IsFiniteSet({1}) /\ {1} # {} /\ {1} \subseteq Int
    <3>1. IsFiniteSet({1})
      BY FS_Singleton
    <3> QED
      BY <3>1
  <2>3. Max({1}) = 1
    BY <2>2, MaxIs
  <2>4. "out" \in Files
    BY DEF Files
  <2> QED
    BY <1>2, <1>4, <2>1, <2>3, <2>4
<1> QED
  BY <1>1, <1>3, <1>5, <1>6 DEF ForgeBuild

\* What is accepted is nowhere pending.
LEMMA NothingPending ==
  ASSUME NEW t, Accepts(t), Honest(t), NEW b, b = Applied(t, ForgeBuild(t))
  PROVE  Pending(b) = {}
<1>1. /\ b.out = Source(t) /\ DOMAIN b = Files
      /\ \A f \in Files \ {"out"} : b[f] = t[f]
  BY BuiltIs DEF Honest
<1>2. Source(b) = Source(t)
  BY <1>1 DEF Source, Files, Protected
<1>3. BridgeCheck(b) /\ Reuse(b) /\ Required(b) /\ BindingVerified(b) /\ LanesHold(b)
      /\ LedgerCheck(b)
  BY DEF Accepts
<1>4. b.det # None /\ b.foundry # None /\ b.isa # None /\ b.binding # None
  BY <1>3 DEF Required, DeterministicLocal, FoundryLocal, FormalAdmitted, BindingMatches
<1>5. b.kontrol # None /\ b.certora # None
  BY <1>3 DEF Reuse
<1>6. b.det.replay = Source(b)
  <2>1. b.det = t.det
    BY <1>1 DEF Files, Protected
  <2>2. b.det.source = Source(b)
    BY <1>3 DEF Required, DeterministicLocal
  <2> QED
    BY <1>4, <2>1, <2>2 DEF Honest, OfItsBuild
<1>7. DeterministicRuntime(b) = Runtime(Source(b)) /\ Runtime(b.out) = Runtime(Source(b))
  BY <1>1, <1>2, <1>6 DEF DeterministicRuntime
<1>8. b.bridgeThy = BridgeSchema(b) /\ b.schema = BridgeSchema(b)
  BY <1>3 DEF BridgeCheck
<1>9. BridgeSchema(b).runtime = DeterministicRuntime(b)
  BY <1>7 DEF BridgeSchema
<1>10. b.summary.closure.runtime = DeterministicRuntime(b)
  <2>1. b.summary.closure = Closure(b)
    BY <1>3 DEF LedgerCheck, Summary
  <2> QED
    BY <2>1 DEF Closure, DeterministicRuntime
<1>11. {f \in {"det", "foundry", "isa", "kontrol", "certora", "binding"} :
          b[f] = None} = {}
  BY <1>4, <1>5
<1> QED
  BY <1>8, <1>9, <1>10, <1>11 DEF Pending

\* What is accepted is a rendering of the sources and a run on them.
LEMMA AcceptedIsCurrent == ASSUME TreeInv PROVE NoStaleCredit
<1> SUFFICES ASSUME Accepts(tree)
    PROVE  LET now == Source(tree)
               schema == [kernel |-> tree.spec, runtime |-> Runtime(now)] IN
    /\ <<tree.iface, tree.abi, tree.vectors, tree.repro>> =
         <<tree.spec, tree.spec, tree.spec, tree.spec>>
    /\ tree.schema = schema /\ tree.bridgeThy = schema /\ tree.kbridge = schema
    /\ tree.ledgerThy = [ledger |-> tree.ledger, schema |-> schema]
    /\ tree.isa.of = Formal(tree) /\ tree.isa.ran = Formal(tree)
    /\ tree.killed = tree.hook
    /\ tree.det # None /\ tree.det.replay = now
    /\ tree.foundry # None /\ tree.foundry.run.source = now
    /\ tree.binding # None /\ tree.binding.source = now
    /\ tree.rid.runtime = HookRuntime(now)
    /\ Runtime(now) = Legacy
    /\ tree.kontrol # None /\ tree.certora # None
    /\ tree.index.pending = {}
  BY DEF NoStaleCredit
<1>1. PICK t, b : t = tree /\ b = Applied(tree, ForgeBuild(tree))
  OBVIOUS
<1>2. Honest(t) /\ b = Applied(t, ForgeBuild(t)) /\ Accepts(t)
  BY <1>1 DEF TreeInv
<1>3. /\ b.out = Source(t) /\ DOMAIN b = Files
      /\ \A f \in Files \ {"out"} : b[f] = t[f]
  BY <1>2, BuiltIs DEF Honest
<1>4. Source(b) = Source(t) /\ Formal(b) = Formal(t)
  BY <1>3 DEF Source, Formal, Files, Protected
<1>5. /\ ReceiptSchemaCurrent(b) /\ BridgeCheck(b) /\ Reuse(b) /\ Required(b)
      /\ BindingVerified(b) /\ LedgerCheck(b) /\ b.index = Index(b)
      /\ Reproduce(b) = <<W("repro", b.repro)>>
  BY <1>2 DEF Accepts
<1>6. b.iface = b.spec /\ b.vectors = b.spec /\ b.spec = b.abi
  BY <1>5 DEF ReceiptSchemaCurrent, BridgeCheck, BridgeConsistent
<1>7. b.repro = b.vectors
  <2>1. PICK v, w : v = W("repro", b.vectors) /\ w = W("repro", b.repro)
    OBVIOUS
  <2>2. <<v>> = <<w>>
    BY <1>5, <1>6, <2>1 DEF Reproduce
  <2>3. v = w
    BY <2>2
  <2> QED
    BY <2>1, <2>3 DEF W
<1>8. PICK schema : schema = [kernel |-> b.spec, runtime |-> Runtime(Source(b))]
  OBVIOUS
<1>9. BridgeSchema(b) = schema
  BY <1>3, <1>4, <1>6, <1>8 DEF BridgeSchema
<1>10. b.schema = schema /\ b.bridgeThy = schema /\ b.kbridge = schema
  BY <1>5, <1>9 DEF BridgeCheck
<1>11. b.ledgerThy = [ledger |-> b.ledger, schema |-> schema]
  BY <1>5, <1>10 DEF LedgerCheck, LedgerTheory
<1>12. b.isa # None /\ b.isa.of = Formal(b)
  BY <1>5 DEF Required, FormalAdmitted
<1>13. b.killed = b.hook
  BY <1>5 DEF Required, HookAudited
<1>14. b.det # None /\ b.det.source = Source(b)
  BY <1>5 DEF Required, DeterministicLocal
<1>15. b.foundry # None /\ b.foundry.run.source = Source(b)
  BY <1>5 DEF Required, FoundryLocal
<1>16. b.binding # None /\ b.binding.source = Source(b)
  BY <1>5 DEF BindingVerified
<1>17. b.rid.runtime = HookRuntime(Source(b))
  BY <1>5, <1>16 DEF Required, BindingMatches
<1>18. Runtime(Source(b)) = Legacy /\ b.kontrol # None /\ b.certora # None
  BY <1>5 DEF Reuse, Preserved
<1>19. b.index.pending = {}
  <2>1. Pending(b) = {}
    BY <1>2, NothingPending
  <2> QED
    BY <1>5, <2>1 DEF Index
<1>20. b.isa.ran = Formal(b) /\ b.det.replay = Source(b)
  <2>1. b.isa = t.isa /\ b.det = t.det
    BY <1>3 DEF Files, Protected
  <2> QED
    BY <1>2, <1>12, <1>14, <2>1 DEF Honest, OfItsRun, OfItsBuild
<1>21. /\ t.spec = b.spec /\ t.iface = b.iface /\ t.abi = b.abi /\ t.vectors = b.vectors
       /\ t.repro = b.repro /\ t.schema = b.schema /\ t.bridgeThy = b.bridgeThy
       /\ t.kbridge = b.kbridge /\ t.ledgerThy = b.ledgerThy /\ t.ledger = b.ledger
  BY <1>3 DEF Files, Protected
<1>22. /\ t.isa = b.isa /\ t.killed = b.killed /\ t.hook = b.hook /\ t.det = b.det
       /\ t.foundry = b.foundry /\ t.binding = b.binding /\ t.rid = b.rid
       /\ t.kontrol = b.kontrol /\ t.certora = b.certora /\ t.index = b.index
  BY <1>3 DEF Files, Protected
<1>23. /\ t.iface = t.spec /\ t.abi = t.spec /\ t.vectors = t.spec /\ t.repro = t.spec
       /\ t.schema = schema /\ t.bridgeThy = schema /\ t.kbridge = schema
       /\ t.ledgerThy = [ledger |-> t.ledger, schema |-> schema]
       /\ schema = [kernel |-> t.spec, runtime |-> Runtime(Source(t))]
  BY <1>4, <1>6, <1>7, <1>8, <1>10, <1>11, <1>21
<1>24. /\ t.isa.of = Formal(t) /\ t.isa.ran = Formal(t) /\ t.killed = t.hook
       /\ t.det # None /\ t.det.replay = Source(t)
       /\ t.foundry # None /\ t.foundry.run.source = Source(t)
       /\ t.binding # None /\ t.binding.source = Source(t)
       /\ t.rid.runtime = HookRuntime(Source(t)) /\ Runtime(Source(t)) = Legacy
       /\ t.kontrol # None /\ t.certora # None /\ t.index.pending = {}
  BY <1>4, <1>12, <1>13, <1>14, <1>15, <1>16, <1>17, <1>18, <1>19, <1>20, <1>22
<1> QED
  BY <1>1, <1>23, <1>24
-----------------------------------------------------------------------------
(* The theorem *)

\* The first tree, carried through at the baseline, is honest.
LEMMA InitHonest == ASSUME Init PROVE TreeInv
<1>1. PICK t : t = Bare
  OBVIOUS
<1>2. DOMAIN t = Files /\ t.isa = None /\ t.det = None
  BY <1>1 DEF Bare, Files, Protected
<1>3. Honest(t)
  <2>1. \A f \in Edited : t[f] = 0
    BY <1>1 DEF Bare, Edited, Protected
  <2> QED
    BY <1>2, <2>1 DEF Honest, OfItsRun, OfItsBuild
<1>4. PICK all : all = Order
  OBVIOUS
<1>5. Len(all) \in Nat /\ \A n \in 1 .. Len(all) : all[n] \in Command
  BY <1>4 DEF Order, Command, Range
<1>6. Honest(Carried(t, all))
  BY <1>3, <1>5, CarriedHonest
<1> QED
  BY <1>1, <1>4, <1>6 DEF Init, TreeInv, Refreshed

\* Runs, cut off or not, edits and removals keep it so.
LEMMA NextHonest == ASSUME TreeInv, [Next]_vars PROVE TreeInv'
<1>1. CASE UNCHANGED vars
  BY <1>1 DEF vars, TreeInv
<1>2. ASSUME NEW c \in Command, Run(c) PROVE TreeInv'
  <2>1. PICK s : s = Writes(c, tree)
    OBVIOUS
  <2>2. PICK n \in 1 .. Len(s) : tree' = Applied(tree, SubSeq(s, 1, n))
    BY <1>2, <2>1 DEF Run
  <2>3. HonestWrites(s)
    BY <2>1, WritesHonest
  <2> QED
    BY <2>2, <2>3, CutOffHonest DEF TreeInv
<1>3. ASSUME NEW k \in 1 .. Len(Order), CarryOn(k) PROVE TreeInv'
  <2>1. PICK s : s = SubSeq(Order, k, Len(Order))
    OBVIOUS
  <2>2. Len(Order) = 25 /\ \A n \in 1 .. 25 : Order[n] \in Command
    BY DEF Order, Command, Range
  <2>3. k \in Int /\ 25 \in Int /\ \A i \in k .. 25 : Order[i] \in Command
    BY <2>2
  <2>4. s \in Seq(Command)
    BY <2>1, <2>2, <2>3, SubSeqProperties
  <2>5. Len(s) \in Nat /\ \A n \in 1 .. Len(s) : s[n] \in Command
    BY <2>4
  <2>6. Honest(Carried(tree, s))
    BY <2>5, CarriedHonest DEF TreeInv
  <2> QED
    BY <1>3, <2>1, <2>6 DEF CarryOn, TreeInv
<1>4. ASSUME NEW s \in Editable, Edit(s) PROVE TreeInv'
  <2>1. s \notin {"isa", "det"} /\ s \in Edited
    BY EvidenceAssumption DEF Edited
  <2>2. tree' = [tree EXCEPT ![s] = 1 - tree[s]]
    BY <1>4 DEF Edit
  <2>3. tree[s] \in {0, 1}
    BY <2>1 DEF TreeInv, Honest
  <2>4. PICK x : x = 1 - tree[s]
    OBVIOUS
  <2>5. x \in {0, 1}
    BY <2>3, <2>4
  <2>6. DOMAIN tree' = Files /\ tree'.isa = tree.isa /\ tree'.det = tree.det
    BY <2>1, <2>2 DEF TreeInv, Honest, Files, Protected
  <2>7. ASSUME NEW f \in Edited PROVE tree'[f] \in {0, 1}
    <3>1. f \in DOMAIN tree
      BY DEF TreeInv, Honest, Files, Protected, Edited
    <3>2. tree'[f] = IF f = s THEN x ELSE tree[f]
      BY <2>2, <2>4, <3>1
    <3> QED
      BY <2>5, <3>2 DEF TreeInv, Honest
  <2> QED
    BY <2>6, <2>7 DEF TreeInv, Honest
<1>5. ASSUME NEW r \in Removable, RemoveReceipt(r) PROVE TreeInv'
  <2>1. tree' = [tree EXCEPT ![r] = None]
    BY <1>5 DEF RemoveReceipt
  <2>2. r \notin Edited
    BY EvidenceAssumption DEF Edited
  <2>3. \A f \in Edited : tree'[f] = tree[f]
    BY <2>1, <2>2 DEF TreeInv, Honest, Files, Protected, Edited
  <2>4. OfItsRun(tree'.isa) /\ OfItsBuild(tree'.det) /\ DOMAIN tree' = Files
    BY <2>1 DEF TreeInv, Honest, OfItsRun, OfItsBuild, Files, Protected
  <2> QED
    BY <2>3, <2>4 DEF TreeInv, Honest
<1> QED
  BY <1>1, <1>2, <1>3, <1>4, <1>5 DEF Next

\* Whatever is edited, removed, cut off or run out of order, and however often,
\* what continuous integration accepts is rendered from the sources that are there
\* and proved, built, tested and bound on them.
THEOREM AcceptanceIsCurrent == Spec => []NoStaleCredit
<1>1. Init => TreeInv
  BY InitHonest
<1>2. TreeInv /\ [Next]_vars => TreeInv'
  BY NextHonest
<1>3. TreeInv => NoStaleCredit
  BY AcceptedIsCurrent
<1> QED
  BY <1>1, <1>2, <1>3, PTL DEF Spec
-----------------------------------------------------------------------------
(* A tree that was carried through *)

\* Every file is a rendering of the sources, or a receipt of a run on them.
Fresh(v) ==
  /\ v = [f \in Files |-> v[f]]
  /\ v.spec = 0 /\ v.token = 0 /\ v.base = 0
  /\ v.hook \in {0, 1} /\ v.thy \in {0, 1} /\ v.ledger \in {0, 1}
  /\ v.iface = 0 /\ v.abi = 0 /\ v.vectors = 0 /\ v.receiptSchema = 0 /\ v.repro = 0
  /\ v.out = Source(v)
  /\ v.schema = BridgeSchema(v) /\ v.bridgeThy = v.schema /\ v.kbridge = v.schema
  /\ v.bridgeManifest = BridgeManifest(v.schema)
  /\ v.ledgerThy = LedgerTheory(v)
  /\ v.isaRun = Formal(v) /\ v.isa = [of |-> Formal(v), ran |-> Formal(v)]
  /\ v.isaReplay = v.isa /\ v.model = v.isa
  /\ v.killed = v.hook
  /\ v.admitted = [hook |-> v.hook, formal |-> v.isa, model |-> v.isa]
  /\ v.detReplay = Source(v) /\ v.validation = [source |-> Source(v), det |-> Source(v)]
  /\ v.rid = [source |-> Source(v), runtime |-> HookRuntime(v.out)]
  /\ v.det = [replay |-> v.detReplay, source |-> Source(v)]
  /\ v.foundry = [run |-> v.validation, source |-> Source(v), runtime |-> Runtime(v.out)]
  /\ v.kontrolRun = v.token
  /\ v.kontrol = [inputs |-> v.token, runtime |-> Runtime(v.out)]
  /\ v.certoraRun = Adapter(Source(v))
  /\ v.certora = [inputs |-> Adapter(Source(v)), runtime |-> Adapter(v.schema.runtime),
                  ran |-> v.certoraRun]
  /\ v.reuse = [source |-> Source(v), hook |-> v.hook,
                kontrol |-> v.kontrol, certora |-> v.certora]
  /\ v.seal = SealOf(v)
  /\ v.bundles = Source(v) /\ v.binding = RuntimeBinding(v)
  /\ v.summary = Summary(v) /\ v.closure = Closure(v)
  /\ v.index = Index(v) /\ v.manifest.runtime = Runtime(v.out)

\* There is one for all sources that have the baseline the legacy campaigns ran on.
LEMMA FreshExists ==
  ASSUME NEW hook \in {0, 1}, NEW thy \in {0, 1}, NEW ledger \in {0, 1}
  PROVE  \E v : Fresh(v) /\ v.hook = hook /\ v.thy = thy /\ v.ledger = ledger
<1>1. PICK src, rt, ad, hr :
         /\ src = [token |-> 0, base |-> 0, iface |-> 0, hook |-> hook]
         /\ rt = Runtime(src) /\ ad = Adapter(src) /\ hr = HookRuntime(src)
  OBVIOUS
<1>2. PICK schema, theory : /\ schema = [kernel |-> 0, runtime |-> rt]
                            /\ theory = [ledger |-> ledger, schema |-> schema]
  OBVIOUS
<1>3. PICK formal, isa, val, rid, det :
         /\ formal = [thy |-> thy, bridge |-> schema, ledger |-> theory]
         /\ isa = [of |-> formal, ran |-> formal]
         /\ val = [source |-> src, det |-> src]
         /\ rid = [source |-> src, runtime |-> hr]
         /\ det = [replay |-> src, source |-> src]
  OBVIOUS
<1>4. PICK foundry, kontrol, certora, reuse, binding, admitted :
         /\ foundry = [run |-> val, source |-> src, runtime |-> rt]
         /\ kontrol = [inputs |-> 0, runtime |-> rt]
         /\ certora = [inputs |-> ad, runtime |-> Adapter(rt), ran |-> ad]
         /\ reuse = [source |-> src, hook |-> hook, kontrol |-> kontrol,
                     certora |-> certora]
         /\ binding = [source |-> src, schema |-> schema, rid |-> rid]
         /\ admitted = [hook |-> hook, formal |-> isa, model |-> isa]
  OBVIOUS
<1>5. PICK a :
         a = [spec |-> 0, token |-> 0, base |-> 0, hook |-> hook, thy |-> thy,
              ledger |-> ledger, admitted |-> admitted, iface |-> 0, abi |-> 0,
              vectors |-> 0, receiptSchema |-> 0, schema |-> schema,
              bridgeThy |-> schema, kbridge |-> schema,
              bridgeManifest |-> BridgeManifest(schema), ledgerThy |-> theory,
              summary |-> 0, closure |-> 0, bundles |-> src, det |-> det,
              foundry |-> foundry, isa |-> isa, kontrol |-> kontrol,
              certora |-> certora, binding |-> binding, repro |-> 0, index |-> 0,
              out |-> src, isaRun |-> formal, isaReplay |-> isa, model |-> isa,
              killed |-> hook, detReplay |-> src, validation |-> val, rid |-> rid,
              reuse |-> reuse, seal |-> 0, kontrolRun |-> 0, certoraRun |-> ad,
              manifest |-> 0]
  OBVIOUS
<1>6. DOMAIN a = Files
  BY <1>5 DEF Files, Protected
<1>7. PICK b : b = [a EXCEPT !.seal = SealOf(a)]
  OBVIOUS
<1>8. PICK c : c = [b EXCEPT !.closure = Closure(b), !.summary = Summary(b)]
  OBVIOUS
<1>9. PICK d : d = [c EXCEPT !.index = Index(c)]
  OBVIOUS
<1>10. PICK v : v = [d EXCEPT !.manifest = Manifest(d)]
  OBVIOUS
<1>11. /\ DOMAIN b = Files /\ b.seal = SealOf(a)
       /\ \A f \in Files \ {"seal"} : b[f] = a[f]
  BY <1>6, <1>7 DEF Files
<1>12. /\ DOMAIN c = Files /\ c.closure = Closure(b) /\ c.summary = Summary(b)
       /\ \A f \in Files \ {"closure", "summary"} : c[f] = b[f]
  BY <1>8, <1>11 DEF Files, Protected
<1>13. /\ DOMAIN d = Files /\ d.index = Index(c)
       /\ \A f \in Files \ {"index"} : d[f] = c[f]
  BY <1>9, <1>12 DEF Files, Protected
<1>14. /\ DOMAIN v = Files /\ v.manifest = Manifest(d)
       /\ \A f \in Files \ {"manifest"} : v[f] = d[f]
  BY <1>10, <1>13 DEF Files
<1>15. \A f \in Files \ {"seal", "closure", "summary", "index", "manifest"} : v[f] = a[f]
  BY <1>11, <1>12, <1>13, <1>14
<1>16. /\ v.spec = 0 /\ v.token = 0 /\ v.base = 0 /\ v.hook = hook /\ v.thy = thy
       /\ v.ledger = ledger /\ v.iface = 0 /\ v.abi = 0 /\ v.vectors = 0
       /\ v.receiptSchema = 0 /\ v.repro = 0 /\ v.out = src /\ v.kontrolRun = 0
  BY <1>5, <1>15 DEF Files, Protected
<1>17. /\ v.schema = schema /\ v.bridgeThy = schema /\ v.kbridge = schema
       /\ v.bridgeManifest = BridgeManifest(schema) /\ v.ledgerThy = theory
       /\ v.isaRun = formal /\ v.isa = isa /\ v.isaReplay = isa /\ v.model = isa
       /\ v.killed = hook /\ v.admitted = admitted
  BY <1>5, <1>15 DEF Files, Protected
<1>18. /\ v.detReplay = src /\ v.validation = val /\ v.rid = rid /\ v.det = det
       /\ v.foundry = foundry /\ v.kontrol = kontrol /\ v.certoraRun = ad
       /\ v.certora = certora /\ v.reuse = reuse /\ v.bundles = src /\ v.binding = binding
  BY <1>5, <1>15 DEF Files, Protected
<1>19. Source(v) = src /\ Formal(v) = formal /\ BridgeSchema(v) = schema
       /\ LedgerTheory(v) = theory /\ RuntimeBinding(v) = binding
  BY <1>1, <1>2, <1>3, <1>4, <1>16, <1>17, <1>18
     DEF Source, Formal, BridgeSchema, LedgerTheory, RuntimeBinding
<1>20. v.seal = SealOf(v)
  <2>1. v.seal = SealOf(a)
    BY <1>11, <1>12, <1>13, <1>14 DEF Files, Protected
  <2>2. SealOf(a) = SealOf(v)
    BY <1>15 DEF SealOf, Files, Protected
  <2> QED
    BY <2>1, <2>2
<1>21. v.closure = Closure(v) /\ v.summary = Summary(v)
  <2>1. v.closure = Closure(b) /\ v.summary = Summary(b)
    BY <1>12, <1>13, <1>14 DEF Files, Protected
  <2>2. \A f \in Files \ {"closure", "summary", "index", "manifest"} : v[f] = b[f]
    BY <1>12, <1>13, <1>14
  <2>3. Closure(v) = Closure(b)
    BY <2>2 DEF Closure, Files, Protected
  <2>4. KontrolCurrent(v) = KontrolCurrent(b)
    BY <2>2 DEF KontrolCurrent, DeterministicCurrent, Source, Files, Protected
  <2>5. FoundryCurrent(v) = FoundryCurrent(b)
    BY <2>2 DEF FoundryCurrent, DeterministicCurrent, Source, Files, Protected
  <2>6. LedgerTheory(v) = LedgerTheory(b) /\ v.kontrol = b.kontrol
        /\ v.foundry = b.foundry /\ v.det = b.det
    BY <2>2 DEF LedgerTheory, Files, Protected
  <2>7. Summary(v) = Summary(b)
    BY <2>3, <2>4, <2>5, <2>6 DEF Summary
  <2> QED
    BY <2>1, <2>3, <2>7
<1>22. v.index = Index(v)
  <2>1. v.index = Index(c)
    BY <1>13, <1>14 DEF Files, Protected
  <2>2. \A f \in Files \ {"index", "manifest"} : v[f] = c[f]
    BY <1>13, <1>14
  <2>3. Pending(v) = Pending(c)
    <3>1. /\ v.det = c.det /\ v.foundry = c.foundry /\ v.isa = c.isa
          /\ v.kontrol = c.kontrol /\ v.certora = c.certora /\ v.binding = c.binding
          /\ v.bridgeThy = c.bridgeThy /\ v.schema = c.schema /\ v.summary = c.summary
      BY <2>2 DEF Files, Protected
    <3> QED
      BY <3>1 DEF Pending, DeterministicRuntime
  <2>4. Source(v) = Source(c) /\ Formal(v) = Formal(c)
    BY <2>2 DEF Source, Formal, Files, Protected
  <2>5. /\ v.det = c.det /\ v.foundry = c.foundry /\ v.isa = c.isa
        /\ v.kontrol = c.kontrol /\ v.certora = c.certora /\ v.binding = c.binding
        /\ v.repro = c.repro /\ v.summary = c.summary /\ v.reuse = c.reuse
        /\ v.seal = c.seal
    BY <2>2 DEF Files, Protected
  <2> QED
    BY <2>1, <2>3, <2>4, <2>5 DEF Index
<1>23. v.manifest.runtime = Runtime(v.out)
  <2>1. v.out = d.out
    BY <1>14 DEF Files
  <2> QED
    BY <1>14, <2>1 DEF Manifest
<1>24. /\ Runtime(v.out) = rt /\ HookRuntime(v.out) = hr /\ Adapter(Source(v)) = ad
       /\ v.schema.runtime = rt
  <2>1. schema.runtime = rt
    BY <1>2
  <2> QED
    BY <1>1, <1>16, <1>17, <1>19, <2>1
<1>25. /\ v.schema = BridgeSchema(v) /\ v.bridgeThy = v.schema /\ v.kbridge = v.schema
       /\ v.bridgeManifest = BridgeManifest(v.schema) /\ v.ledgerThy = LedgerTheory(v)
       /\ v.isaRun = Formal(v) /\ v.isa = [of |-> Formal(v), ran |-> Formal(v)]
       /\ v.isaReplay = v.isa /\ v.model = v.isa /\ v.out = Source(v) /\ v.killed = v.hook
  BY <1>3, <1>16, <1>17, <1>19
<1>26. v.admitted = [hook |-> v.hook, formal |-> v.isa, model |-> v.isa]
  BY <1>4, <1>16, <1>17
<1>27. /\ v.detReplay = Source(v)
       /\ v.validation = [source |-> Source(v), det |-> Source(v)]
       /\ v.rid = [source |-> Source(v), runtime |-> HookRuntime(v.out)]
       /\ v.det = [replay |-> v.detReplay, source |-> Source(v)]
  BY <1>3, <1>18, <1>19, <1>24
<1>28. /\ v.foundry = [run |-> v.validation, source |-> Source(v),
                       runtime |-> Runtime(v.out)]
       /\ v.kontrolRun = v.token
       /\ v.kontrol = [inputs |-> v.token, runtime |-> Runtime(v.out)]
       /\ v.certoraRun = Adapter(Source(v))
  BY <1>4, <1>16, <1>18, <1>19, <1>24
<1>29. v.certora = [inputs |-> Adapter(Source(v)), runtime |-> Adapter(v.schema.runtime),
                    ran |-> v.certoraRun]
  BY <1>4, <1>18, <1>24
<1>30. v.reuse = [source |-> Source(v), hook |-> v.hook,
                  kontrol |-> v.kontrol, certora |-> v.certora]
  BY <1>4, <1>16, <1>18, <1>19
<1>31. v.bundles = Source(v) /\ v.binding = RuntimeBinding(v)
  BY <1>18, <1>19
<1>32. v = [f \in Files |-> v[f]]
  BY <1>10, <1>13
<1>33. Fresh(v)
  BY <1>16, <1>20, <1>21, <1>22, <1>23, <1>25, <1>26, <1>27, <1>28, <1>29, <1>30, <1>31,
     <1>32 DEF Fresh
<1> QED
  BY <1>16, <1>33
\* Its receipts are there.
LEMMA FreshIsThere ==
  ASSUME NEW v, Fresh(v)
  PROVE  /\ v.isaRun # None /\ v.isa # None /\ v.rid # None /\ v.kontrolRun # None
         /\ v.kontrol # None /\ v.certoraRun # None /\ v.certora # None
         /\ v.det # None /\ v.foundry # None /\ v.binding # None /\ v.reuse # None
         /\ v.out # None /\ v.repro # None
<1>1. PICK Version : Version = {0, 1}
  OBVIOUS
<1>2. PICK Sources, Runtimes, Adapters, Hooks :
         /\ Sources = [token : Version, base : Version, iface : Version, hook : Version]
         /\ Runtimes = [token : Version, base : Version, iface : Version]
         /\ Adapters = [base : Version, iface : Version]
         /\ Hooks = [base : Version, iface : Version, hook : Version]
  OBVIOUS
<1>3. PICK Schemas, Theories : /\ Schemas = [kernel : Version, runtime : Runtimes]
                               /\ Theories = [ledger : Version, schema : Schemas]
  OBVIOUS
<1>4. PICK Formals, Rids, Kontrols, Certoras :
         /\ Formals = [thy : Version, bridge : Schemas, ledger : Theories]
         /\ Rids = [source : Sources, runtime : Hooks]
         /\ Kontrols = [inputs : Version, runtime : Runtimes]
         /\ Certoras = [inputs : Adapters, runtime : Adapters, ran : Adapters]
  OBVIOUS
<1>5. /\ None \notin Version /\ None \notin Sources /\ None \notin Adapters
      /\ None \notin Formals
      /\ None \notin [of : Formals, ran : Formals]
      /\ None \notin Rids /\ None \notin Kontrols /\ None \notin Certoras
      /\ None \notin [replay : Sources, source : Sources]
  BY <1>1, <1>2, <1>3, <1>4, EvidenceAssumption
<1>6. /\ None \notin [run : [source : Sources, det : Sources],
                      source : Sources, runtime : Runtimes]
      /\ None \notin [source : Sources, schema : Schemas, rid : Rids]
      /\ None \notin [source : Sources, hook : Version, kontrol : Kontrols,
                      certora : Certoras]
  BY <1>1, <1>2, <1>3, <1>4, EvidenceAssumption
<1>7. /\ v.token \in Version /\ v.base \in Version /\ v.iface \in Version
      /\ v.hook \in Version /\ v.thy \in Version /\ v.ledger \in Version
      /\ v.abi \in Version /\ v.kontrolRun = v.token
  BY <1>1 DEF Fresh
<1>8. Source(v) \in Sources
  BY <1>2, <1>7 DEF Source
<1>9. /\ Runtime(Source(v)) \in Runtimes /\ Adapter(Source(v)) \in Adapters
      /\ HookRuntime(Source(v)) \in Hooks
  BY <1>2, <1>8 DEF Runtime, Adapter, HookRuntime
<1>10. v.out = Source(v) /\ v.schema = BridgeSchema(v) /\ v.bridgeThy = v.schema
       /\ v.ledgerThy = LedgerTheory(v)
  BY DEF Fresh
<1>11. v.schema \in Schemas /\ v.schema.runtime = Runtime(Source(v))
  BY <1>3, <1>7, <1>9, <1>10 DEF BridgeSchema
<1>12. LedgerTheory(v) \in Theories
  BY <1>3, <1>7, <1>11 DEF LedgerTheory
<1>13. Formal(v) \in Formals
  BY <1>4, <1>7, <1>10, <1>11, <1>12 DEF Formal
<1>14. Adapter(v.schema.runtime) \in Adapters
  BY <1>2, <1>9, <1>11 DEF Adapter
<1>15. v.isaRun # None /\ v.isa # None
  <2>1. v.isaRun = Formal(v) /\ v.isa = [of |-> Formal(v), ran |-> Formal(v)]
    BY DEF Fresh
  <2>2. v.isa \in [of : Formals, ran : Formals]
    BY <1>13, <2>1
  <2> QED
    BY <1>5, <1>13, <2>1, <2>2
<1>16. v.rid \in Rids
  <2>1. v.rid = [source |-> Source(v), runtime |-> HookRuntime(v.out)]
    BY DEF Fresh
  <2> QED
    BY <1>4, <1>8, <1>9, <1>10, <2>1
<1>17. v.kontrol \in Kontrols
  <2>1. v.kontrol = [inputs |-> v.token, runtime |-> Runtime(v.out)]
    BY DEF Fresh
  <2> QED
    BY <1>4, <1>7, <1>9, <1>10, <2>1
<1>18. v.certoraRun \in Adapters /\ v.certora \in Certoras
  <2>1. /\ v.certoraRun = Adapter(Source(v))
        /\ v.certora = [inputs |-> Adapter(Source(v)),
                        runtime |-> Adapter(v.schema.runtime), ran |-> v.certoraRun]
    BY DEF Fresh
  <2>2. v.certoraRun \in Adapters
    BY <1>9, <2>1
  <2> QED
    BY <1>4, <1>9, <1>14, <2>1, <2>2
<1>19. v.det # None
  <2>1. v.det = [replay |-> v.detReplay, source |-> Source(v)] /\ v.detReplay = Source(v)
    BY DEF Fresh
  <2>2. v.det \in [replay : Sources, source : Sources]
    BY <1>8, <2>1
  <2> QED
    BY <1>5, <2>2
<1>20. v.foundry # None
  <2>1. PICK val : val = v.validation
    OBVIOUS
  <2>2. val = [source |-> Source(v), det |-> Source(v)]
    BY <2>1 DEF Fresh
  <2>3. val \in [source : Sources, det : Sources]
    BY <1>8, <2>2
  <2>4. v.foundry = [run |-> val, source |-> Source(v), runtime |-> Runtime(v.out)]
    BY <2>1 DEF Fresh
  <2>5. v.foundry \in [run : [source : Sources, det : Sources],
                       source : Sources, runtime : Runtimes]
    BY <1>8, <1>9, <1>10, <2>3, <2>4
  <2> QED
    BY <1>6, <2>5
<1>21. v.binding # None
  <2>1. v.binding = [source |-> Source(v), schema |-> v.schema, rid |-> v.rid]
    BY DEF Fresh, RuntimeBinding
  <2>2. v.binding \in [source : Sources, schema : Schemas, rid : Rids]
    BY <1>8, <1>11, <1>16, <2>1
  <2> QED
    BY <1>6, <2>2
<1>22. v.reuse # None
  <2>1. v.reuse = [source |-> Source(v), hook |-> v.hook, kontrol |-> v.kontrol,
                   certora |-> v.certora]
    BY DEF Fresh
  <2>2. v.reuse \in [source : Sources, hook : Version, kontrol : Kontrols,
                     certora : Certoras]
    BY <1>7, <1>8, <1>17, <1>18, <2>1
  <2> QED
    BY <1>6, <2>2
<1>23. v.out # None /\ v.repro # None
  <2>1. v.repro = 0 /\ 0 \in Version
    BY <1>1 DEF Fresh
  <2> QED
    BY <1>5, <1>8, <1>10, <2>1
<1> QED
  BY <1>5, <1>7, <1>15, <1>16, <1>17, <1>18, <1>19, <1>20, <1>21, <1>22, <1>23
-----------------------------------------------------------------------------
(* Filling a tree in *)

\* A tree that holds, for some files, what the other one holds.
Agrees(t, v, D) == DOMAIN t = Files /\ D \subseteq Files /\ \A f \in D : t[f] = v[f]

\* Writing what the other holds adds the files that were written.
LEMMA Fills ==
  ASSUME NEW t, NEW v, NEW D, Agrees(t, v, D),
         NEW S, NEW s \in Seq(S), \A w \in S : w.to = v[w.file],
         NEW E, E \subseteq Files, \A f \in E : \E i \in DOMAIN s : s[i].file = f
  PROVE  Agrees(Applied(t, s), v, D \cup E)
<1>1. PICK r : r = Applied(t, s)
  OBVIOUS
<1>2. /\ DOMAIN r = DOMAIN t
      /\ \A f \in DOMAIN t :
           \/ r[f] = t[f]
           \/ \E w \in S : w.file = f /\ r[f] = w.to
  BY <1>1, AppliedIs
<1>3. ASSUME NEW f \in D PROVE r[f] = v[f]
  BY <1>2, <1>3 DEF Agrees
<1>4. ASSUME NEW f \in E PROVE r[f] = v[f]
  <2>1. PICK to : to = {i \in DOMAIN s : s[i].file = f}
    OBVIOUS
  <2>2. f \in DOMAIN t
    BY <1>4 DEF Agrees
  <2>3. to # {}
    BY <1>4, <2>1
  <2>4. r[f] = s[Max(to)].to
    BY <1>1, <2>1, <2>2, <2>3 DEF Applied
  <2>5. Max(to) \in to
    <3>1. Len(s) \in Nat /\ DOMAIN s = 1 .. Len(s)
      OBVIOUS
    <3>2. IsFiniteSet(1 .. Len(s)) /\ to \subseteq 1 .. Len(s)
      BY <2>1, <3>1, FS_Interval
    <3>3. IsFiniteSet(to)
      BY <3>2, FS_Subset
    <3>4. to \subseteq Int
      BY <3>2
    <3> QED
      BY <2>3, <3>3, <3>4, MaxIs
  <2>6. s[Max(to)] \in S /\ s[Max(to)].file = f
    BY <2>1, <2>5
  <2> QED
    BY <2>4, <2>6
<1> QED
  BY <1>1, <1>2, <1>3, <1>4 DEF Agrees

\* The case of one write.
LEMMA FillsOne ==
  ASSUME NEW t, NEW v, NEW D, Agrees(t, v, D), NEW f \in Files,
         NEW c, c = v[f]
  PROVE  Agrees(Applied(t, <<W(f, c)>>), v, D \cup {f})
<1>1. PICK s, S : s = <<W(f, c)>> /\ S = {W(f, c)}
  OBVIOUS
<1>2. s \in Seq(S) /\ DOMAIN s = {1} /\ s[1] = W(f, c)
  BY <1>1
<1>3. \A w \in S : w.to = v[w.file]
  BY <1>1 DEF W
<1>4. \A g \in {f} : \E i \in DOMAIN s : s[i].file = g
  BY <1>2 DEF W
<1>5. {f} \subseteq Files
  OBVIOUS
<1>6. Agrees(Applied(t, s), v, D \cup {f})
  BY <1>2, <1>3, <1>4, <1>5, Fills
<1> QED
  BY <1>1, <1>6

\* Two writes.
LEMMA FillsTwo ==
  ASSUME NEW t, NEW v, NEW D, Agrees(t, v, D),
         NEW f \in Files, NEW g \in Files, NEW c, NEW d, c = v[f], d = v[g]
  PROVE  Agrees(Applied(t, <<W(f, c), W(g, d)>>), v, D \cup {f, g})
<1>1. PICK s, S : s = <<W(f, c), W(g, d)>> /\ S = {W(f, c), W(g, d)}
  OBVIOUS
<1>2. s \in Seq(S) /\ 1 \in DOMAIN s /\ 2 \in DOMAIN s /\ s[1] = W(f, c) /\ s[2] = W(g, d)
  BY <1>1
<1>3. \A w \in S : w.to = v[w.file]
  BY <1>1 DEF W
<1>4. \A h \in {f, g} : \E i \in DOMAIN s : s[i].file = h
  BY <1>2 DEF W
<1>5. {f, g} \subseteq Files
  OBVIOUS
<1>6. Agrees(Applied(t, s), v, D \cup {f, g})
  BY <1>2, <1>3, <1>4, <1>5, Fills
<1> QED
  BY <1>1, <1>6

\* Three writes.
LEMMA FillsThree ==
  ASSUME NEW t, NEW v, NEW D, Agrees(t, v, D),
         NEW f \in Files, NEW g \in Files, NEW h \in Files,
         NEW c, NEW d, NEW e, c = v[f], d = v[g], e = v[h]
  PROVE  Agrees(Applied(t, <<W(f, c), W(g, d), W(h, e)>>), v, D \cup {f, g, h})
<1>1. PICK s, S : /\ s = <<W(f, c), W(g, d), W(h, e)>>
                  /\ S = {W(f, c), W(g, d), W(h, e)}
  OBVIOUS
<1>2. /\ s \in Seq(S) /\ 1 \in DOMAIN s /\ 2 \in DOMAIN s /\ 3 \in DOMAIN s
      /\ s[1] = W(f, c) /\ s[2] = W(g, d) /\ s[3] = W(h, e)
  BY <1>1
<1>3. \A w \in S : w.to = v[w.file]
  BY <1>1 DEF W
<1>4. \A x \in {f, g, h} : \E i \in DOMAIN s : s[i].file = x
  BY <1>2 DEF W
<1>5. {f, g, h} \subseteq Files
  OBVIOUS
<1>6. Agrees(Applied(t, s), v, D \cup {f, g, h})
  BY <1>2, <1>3, <1>4, <1>5, Fills
<1> QED
  BY <1>1, <1>6

\* Four writes.
LEMMA FillsFour ==
  ASSUME NEW t, NEW v, NEW D, Agrees(t, v, D),
         NEW f \in Files, NEW g \in Files, NEW h \in Files, NEW k \in Files,
         NEW c, NEW d, NEW e, NEW j, c = v[f], d = v[g], e = v[h], j = v[k]
  PROVE  Agrees(Applied(t, <<W(f, c), W(g, d), W(h, e), W(k, j)>>), v,
                D \cup {f, g, h, k})
<1>1. PICK s, S : /\ s = <<W(f, c), W(g, d), W(h, e), W(k, j)>>
                  /\ S = {W(f, c), W(g, d), W(h, e), W(k, j)}
  OBVIOUS
<1>2. /\ s \in Seq(S) /\ 1 \in DOMAIN s /\ 2 \in DOMAIN s /\ 3 \in DOMAIN s
      /\ 4 \in DOMAIN s /\ s[1] = W(f, c) /\ s[2] = W(g, d) /\ s[3] = W(h, e)
      /\ s[4] = W(k, j)
  BY <1>1
<1>3. \A w \in S : w.to = v[w.file]
  BY <1>1 DEF W
<1>4. \A x \in {f, g, h, k} : \E i \in DOMAIN s : s[i].file = x
  BY <1>2 DEF W
<1>5. {f, g, h, k} \subseteq Files
  OBVIOUS
<1>6. Agrees(Applied(t, s), v, D \cup {f, g, h, k})
  BY <1>2, <1>3, <1>4, <1>5, Fills
<1> QED
  BY <1>1, <1>6
-----------------------------------------------------------------------------
(* What each command makes of a tree that holds its inputs *)

\* The sources are the same when their files are.
LEMMA SourceAgrees ==
  ASSUME NEW v, NEW t, NEW D, Agrees(t, v, D),
         {"token", "base", "iface", "hook"} \subseteq D
  PROVE  Source(t) = Source(v)
BY DEF Agrees, Source

\* The theories are the same when their files are.
LEMMA FormalAgrees ==
  ASSUME NEW v, NEW t, NEW D, Agrees(t, v, D),
         {"thy", "bridgeThy", "ledgerThy"} \subseteq D
  PROVE  Formal(t) = Formal(v)
BY DEF Agrees, Formal

\* The generator of the kernel.
LEMMA KernelFills ==
  ASSUME NEW v, Fresh(v), NEW t, NEW D, Agrees(t, v, D),
         {"spec"} \subseteq D
  PROVE  Agrees(Step(t, "kernel"), v, D \cup {"iface", "abi", "vectors", "receiptSchema"})
<1>1. Writes("kernel", t) = <<W("iface", t.spec), W("abi", t.spec),
                              W("vectors", t.spec), W("receiptSchema", t.spec)>>
  BY DEF Writes, KernelOutputs, Interface, Abi, Vectors, ReceiptSchema
<1>2. t.spec = v.iface /\ t.spec = v.abi /\ t.spec = v.vectors /\ t.spec = v.receiptSchema
  BY DEF Agrees, Fresh
<1>3. "iface" \in Files /\ "abi" \in Files /\ "vectors" \in Files
      /\ "receiptSchema" \in Files
  BY DEF Files, Protected
<1> QED
  BY <1>1, <1>2, <1>3, FillsFour DEF Step

\* The independent reproduction.
LEMMA ReproduceFills ==
  ASSUME NEW v, Fresh(v), NEW t, NEW D, Agrees(t, v, D),
         {"spec", "abi", "vectors"} \subseteq D
  PROVE  Agrees(Step(t, "reproduce"), v, D \cup {"repro"})
<1>1. t.spec = t.abi /\ t.abi = t.vectors
  BY DEF Agrees, Fresh
<1>2. Writes("reproduce", t) = <<W("repro", t.vectors)>>
  BY <1>1 DEF Writes, Reproduce
<1>3. t.vectors = v.repro
  BY DEF Agrees, Fresh
<1>4. "repro" \in Files
  BY DEF Files, Protected
<1> QED
  BY <1>2, <1>3, <1>4, FillsOne DEF Step

\* The build.
LEMMA ForgeFills ==
  ASSUME NEW v, Fresh(v), NEW t, NEW D, Agrees(t, v, D),
         {"token", "base", "iface", "hook"} \subseteq D
  PROVE  Agrees(Step(t, "forge"), v, D \cup {"out"})
<1>1. Writes("forge", t) = <<W("out", Source(t))>>
  BY DEF Writes, ForgeBuild
<1>2. Source(t) = v.out
  BY SourceAgrees DEF Fresh
<1>3. "out" \in Files
  BY DEF Files, Protected
<1> QED
  BY <1>1, <1>2, <1>3, FillsOne DEF Step

\* The bridge.
LEMMA BridgeFills ==
  ASSUME NEW v, Fresh(v), NEW t, NEW D, Agrees(t, v, D),
         {"spec", "abi", "out"} \subseteq D
  PROVE  Agrees(Step(t, "bridge"), v,
                D \cup {"schema", "bridgeThy", "kbridge", "bridgeManifest"})
<1>1. t.spec = v.spec /\ t.abi = v.abi /\ t.out = v.out
  BY DEF Agrees
<1>2. v.out.iface = 0
  BY DEF Fresh, Source
<1>3. BridgeConsistent(t)
  BY <1>1, <1>2 DEF BridgeConsistent, Fresh
<1>4. BridgeSchema(t) = v.schema
  BY <1>1 DEF BridgeSchema, Fresh
<1>5. Writes("bridge", t) =
        <<W("schema", v.schema), W("bridgeThy", v.schema), W("kbridge", v.schema),
          W("bridgeManifest", BridgeManifest(v.schema))>>
  BY <1>1, <1>2, <1>3, <1>4 DEF Writes, Bridge, IsabelleBridge, KBridge
<1>6. v.schema = v.bridgeThy /\ v.schema = v.kbridge
      /\ BridgeManifest(v.schema) = v.bridgeManifest
  BY DEF Fresh
<1>7. "schema" \in Files /\ "bridgeThy" \in Files /\ "kbridge" \in Files
      /\ "bridgeManifest" \in Files
  BY DEF Files, Protected
<1> QED
  BY <1>5, <1>6, <1>7, FillsFour DEF Step

\* The ledger theory.
LEMMA LedgerTheoryFills ==
  ASSUME NEW v, Fresh(v), NEW t, NEW D, Agrees(t, v, D),
         {"ledger", "schema", "bridgeManifest"} \subseteq D
  PROVE  Agrees(Step(t, "ledgerTheory"), v, D \cup {"ledgerThy"})
<1>1. t.ledger = v.ledger /\ t.schema = v.schema /\ t.bridgeManifest = v.bridgeManifest
  BY DEF Agrees
<1>2. BridgeBound(t)
  BY <1>1 DEF BridgeBound, BridgeManifest, Fresh
<1>3. Writes("ledgerTheory", t) = <<W("ledgerThy", LedgerTheory(t))>>
  BY <1>1, <1>2 DEF Writes, LedgerTheoryOnly
<1>4. LedgerTheory(t) = v.ledgerThy
  BY <1>1 DEF LedgerTheory, Fresh
<1>5. "ledgerThy" \in Files
  BY DEF Files, Protected
<1> QED
  BY <1>3, <1>4, <1>5, FillsOne DEF Step

\* The proofs.
LEMMA RunIsabelleFills ==
  ASSUME NEW v, Fresh(v), NEW t, NEW D, Agrees(t, v, D),
         {"thy", "schema", "bridgeThy", "ledgerThy"} \subseteq D
  PROVE  Agrees(Step(t, "runIsabelle"), v, D \cup {"isaRun"})
<1>1. t.bridgeThy = v.bridgeThy /\ t.ledgerThy = v.ledgerThy
  BY DEF Agrees
<1>2. t.ledgerThy.schema = t.bridgeThy
  BY <1>1 DEF LedgerTheory, Fresh
<1>3. Writes("runIsabelle", t) = <<W("isaRun", Formal(t))>>
  BY <1>1, <1>2 DEF Writes, RunIsabelle
<1>4. Formal(t) = v.isaRun
  BY FormalAgrees DEF Fresh
<1>5. "isaRun" \in Files
  BY DEF Files, Protected
<1> QED
  BY <1>3, <1>4, <1>5, FillsOne DEF Step

\* The recorder of the proofs.
LEMMA RecordIsabelleFills ==
  ASSUME NEW v, Fresh(v), NEW t, NEW D, Agrees(t, v, D),
         {"thy", "bridgeThy", "ledgerThy", "isaRun"} \subseteq D
  PROVE  Agrees(Step(t, "recordIsabelle"), v, D \cup {"isaReplay", "isa"})
<1>1. t.isaRun = v.isaRun
  BY DEF Agrees
<1>2. Formal(t) = Formal(v)
  BY FormalAgrees
<1>3. t.isaRun # None /\ t.isaRun = Formal(t)
  BY <1>1, <1>2, FreshIsThere DEF Fresh
<1>4. [of |-> Formal(t), ran |-> t.isaRun] = v.isa
  BY <1>2, <1>3 DEF Fresh
<1>5. Writes("recordIsabelle", t) = <<W("isaReplay", v.isa), W("isa", v.isa)>>
  BY <1>1, <1>2, <1>3, <1>4 DEF Writes, RecordIsabelle
<1>6. v.isa = v.isaReplay
  BY DEF Fresh
<1>7. "isaReplay" \in Files /\ "isa" \in Files
  BY DEF Files, Protected
<1> QED
  BY <1>5, <1>6, <1>7, FillsTwo DEF Step

\* The model results.
LEMMA RecordModelFills ==
  ASSUME NEW v, Fresh(v), NEW t, NEW D, Agrees(t, v, D),
         {"thy", "bridgeThy", "ledgerThy", "isaReplay"} \subseteq D
  PROVE  Agrees(Step(t, "model"), v, D \cup {"model"})
<1>1. t.isaReplay = v.isa
  BY DEF Agrees, Fresh
<1>2. Formal(t) = Formal(v)
  BY FormalAgrees
<1>3. v.isa # None /\ v.isa.of = Formal(v)
  BY FreshIsThere DEF Fresh
<1>4. t.isaReplay # None /\ t.isaReplay.of = Formal(t)
  BY <1>1, <1>2, <1>3
<1>5. Writes("model", t) = <<W("model", t.isaReplay)>>
  BY <1>1, <1>2, <1>3, <1>4 DEF Writes, RecordModel
<1>6. t.isaReplay = v.model
  BY <1>1 DEF Fresh
<1>7. "model" \in Files
  BY DEF Files, Protected
<1> QED
  BY <1>5, <1>6, <1>7, FillsOne DEF Step

\* The Hook faults.
LEMMA HookMutationsFills ==
  ASSUME NEW v, Fresh(v), NEW t, NEW D, Agrees(t, v, D),
         {"hook"} \subseteq D
  PROVE  Agrees(Step(t, "hookMutations"), v, D \cup {"killed"})
<1>1. Writes("hookMutations", t) = <<W("killed", t.hook)>>
  BY DEF Writes, RunHookMutations
<1>2. t.hook = v.killed
  BY DEF Agrees, Fresh
<1>3. "killed" \in Files
  BY DEF Files, Protected
<1> QED
  BY <1>1, <1>2, <1>3, FillsOne DEF Step

\* The review.
LEMMA AdmitFills ==
  ASSUME NEW v, Fresh(v), NEW t, NEW D, Agrees(t, v, D),
         {"hook", "isaReplay", "model"} \subseteq D
  PROVE  Agrees(Step(t, "admit"), v, D \cup {"admitted"})
<1>1. t.hook = v.hook /\ t.isaReplay = v.isa /\ t.model = v.isa
  BY DEF Agrees, Fresh
<1>2. [hook |-> t.hook, formal |-> t.isaReplay, model |-> t.model] = v.admitted
  BY <1>1 DEF Fresh
<1>3. Writes("admit", t) = <<W("admitted", v.admitted)>>
  BY <1>1, <1>2 DEF Writes, Admit
<1>4. "admitted" \in Files
  BY DEF Files, Protected
<1> QED
  BY <1>3, <1>4, FillsOne DEF Step

\* The tests and the double build.
LEMMA RunFoundryFills ==
  ASSUME NEW v, Fresh(v), NEW t, NEW D, Agrees(t, v, D),
         {"token", "base", "iface", "hook"} \subseteq D
  PROVE  Agrees(Step(t, "runFoundry"), v, D \cup {"detReplay", "validation"})
<1>1. Source(t) = Source(v)
  BY SourceAgrees
<1>2. [source |-> Source(t), det |-> Source(t)] = v.validation
  BY <1>1 DEF Fresh
<1>3. Writes("runFoundry", t) = <<W("detReplay", Source(t)),
                                  W("validation", v.validation)>>
  BY <1>1, <1>2 DEF Writes, RunFoundry
<1>4. Source(t) = v.detReplay
  BY <1>1 DEF Fresh
<1>5. "detReplay" \in Files /\ "validation" \in Files
  BY DEF Files, Protected
<1> QED
  BY <1>3, <1>4, <1>5, FillsTwo DEF Step

\* The identity of the runtimes.
LEMMA RuntimeIdentityFills ==
  ASSUME NEW v, Fresh(v), NEW t, NEW D, Agrees(t, v, D),
         {"token", "base", "iface", "hook", "out"} \subseteq D
  PROVE  Agrees(Step(t, "rid"), v, D \cup {"rid"})
<1>1. Source(t) = Source(v)
  BY SourceAgrees
<1>2. t.out = Source(v) /\ t.base = 0 /\ v.out = Source(v)
  BY DEF Agrees, Fresh
<1>3. Runtime(Source(v)) = Legacy
  BY DEF Runtime, Source, Legacy, Fresh
<1>4. [source |-> Source(t), runtime |-> HookRuntime(t.out)] = v.rid
  BY <1>1, <1>2 DEF Fresh
<1>5. Writes("rid", t) = <<W("rid", v.rid)>>
  BY <1>1, <1>2, <1>3, <1>4 DEF Writes, RuntimeIdentity
<1>6. "rid" \in Files
  BY DEF Files, Protected
<1> QED
  BY <1>5, <1>6, FillsOne DEF Step

\* The recorder of the double build, after a manifest of the build.
LEMMA RecordDeterministicFills ==
  ASSUME NEW v, Fresh(v), NEW t, NEW D, Agrees(t, v, D),
         {"token", "base", "iface", "hook", "out", "detReplay", "validation",
          "manifest"} \subseteq D
  PROVE  Agrees(Step(t, "det"), v, D \cup {"det"})
<1>1. Source(t) = Source(v)
  BY SourceAgrees
<1>2. /\ t.out = v.out /\ t.detReplay = v.detReplay /\ t.validation = v.validation
      /\ t.manifest = v.manifest
  BY DEF Agrees
<1>3. /\ v.out = Source(v) /\ v.detReplay = Source(v) /\ v.validation.det = Source(v)
      /\ v.validation.source = Source(v) /\ v.manifest.runtime = Runtime(v.out)
  BY DEF Fresh
<1>4. LocalRun(t)
  BY <1>1, <1>2, <1>3 DEF LocalRun
<1>5. [replay |-> t.detReplay, source |-> Source(t)] = v.det
  BY <1>1, <1>2 DEF Fresh
<1>6. Writes("det", t) = <<W("det", v.det)>>
  BY <1>1, <1>2, <1>3, <1>4, <1>5 DEF Writes, RecordDeterministic
<1>7. "det" \in Files
  BY DEF Files, Protected
<1> QED
  BY <1>6, <1>7, FillsOne DEF Step

\* The recorder of the tests.
LEMMA RecordFoundryFills ==
  ASSUME NEW v, Fresh(v), NEW t, NEW D, Agrees(t, v, D),
         {"token", "base", "iface", "hook", "out", "schema", "validation"} \subseteq D
  PROVE  Agrees(Step(t, "foundry"), v, D \cup {"foundry"})
<1>1. Source(t) = Source(v)
  BY SourceAgrees
<1>2. t.out = v.out /\ t.schema = v.schema /\ t.validation = v.validation
  BY DEF Agrees
<1>3. v.validation.source = Source(v) /\ v.schema.runtime = Runtime(v.out)
  BY DEF BridgeSchema, Fresh
<1>4. LocalRun(t) /\ Runtime(t.out) = t.schema.runtime
  BY <1>1, <1>2, <1>3 DEF LocalRun
<1>5. [run |-> t.validation, source |-> Source(t), runtime |-> Runtime(t.out)] = v.foundry
  BY <1>1, <1>2 DEF Fresh
<1>6. Writes("foundry", t) = <<W("foundry", v.foundry)>>
  BY <1>1, <1>2, <1>3, <1>4, <1>5 DEF Writes, RecordFoundry
<1>7. "foundry" \in Files
  BY DEF Files, Protected
<1> QED
  BY <1>6, <1>7, FillsOne DEF Step

\* The Kontrol run.
LEMMA RunKontrolFills ==
  ASSUME NEW v, Fresh(v), NEW t, NEW D, Agrees(t, v, D),
         {"token"} \subseteq D
  PROVE  Agrees(Step(t, "runKontrol"), v, D \cup {"kontrolRun"})
<1>1. Writes("runKontrol", t) = <<W("kontrolRun", t.token)>>
  BY DEF Writes, RunKontrol
<1>2. t.token = v.kontrolRun
  BY DEF Agrees, Fresh
<1>3. "kontrolRun" \in Files
  BY DEF Files, Protected
<1> QED
  BY <1>1, <1>2, <1>3, FillsOne DEF Step

\* The recorder of Kontrol.
LEMMA RecordKontrolFills ==
  ASSUME NEW v, Fresh(v), NEW t, NEW D, Agrees(t, v, D),
         {"token", "out", "schema", "kontrolRun"} \subseteq D
  PROVE  Agrees(Step(t, "kontrol"), v, D \cup {"kontrol"})
<1>1. /\ t.token = v.token /\ t.out = v.out /\ t.schema = v.schema
      /\ t.kontrolRun = v.kontrolRun
  BY DEF Agrees
<1>2. v.schema.runtime = Runtime(v.out) /\ v.kontrolRun = v.token
  BY DEF BridgeSchema, Fresh
<1>3. t.kontrolRun # None
  BY <1>1, FreshIsThere
<1>4. [inputs |-> t.token, runtime |-> Runtime(t.out)] = v.kontrol
  BY <1>1 DEF Fresh
<1>5. Writes("kontrol", t) = <<W("kontrol", v.kontrol)>>
  BY <1>1, <1>2, <1>3, <1>4 DEF Writes, RecordKontrol
<1>6. "kontrol" \in Files
  BY DEF Files, Protected
<1> QED
  BY <1>5, <1>6, FillsOne DEF Step

\* The Certora run.
LEMMA RunCertoraFills ==
  ASSUME NEW v, Fresh(v), NEW t, NEW D, Agrees(t, v, D),
         {"token", "base", "iface", "hook"} \subseteq D
  PROVE  Agrees(Step(t, "runCertora"), v, D \cup {"certoraRun"})
<1>1. Source(t) = Source(v)
  BY SourceAgrees
<1>2. Writes("runCertora", t) = <<W("certoraRun", Adapter(Source(t)))>>
  BY <1>1 DEF Writes, RunCertora
<1>3. Adapter(Source(t)) = v.certoraRun
  BY <1>1 DEF Fresh
<1>4. "certoraRun" \in Files
  BY DEF Files, Protected
<1> QED
  BY <1>2, <1>3, <1>4, FillsOne DEF Step

\* The recorder of Certora.
LEMMA RecordCertoraFills ==
  ASSUME NEW v, Fresh(v), NEW t, NEW D, Agrees(t, v, D),
         {"token", "base", "iface", "hook", "schema", "certoraRun"} \subseteq D
  PROVE  Agrees(Step(t, "certora"), v, D \cup {"certora"})
<1>1. Source(t) = Source(v)
  BY SourceAgrees
<1>2. t.schema = v.schema /\ t.certoraRun = v.certoraRun
  BY DEF Agrees
<1>3. Adapter(Source(v)) = Adapter(Legacy)
  BY DEF Adapter, Source, Legacy, Fresh
<1>4. t.certoraRun # None
  BY <1>2, FreshIsThere
<1>5. [inputs |-> Adapter(Source(t)), runtime |-> Adapter(t.schema.runtime),
       ran |-> t.certoraRun] = v.certora
  BY <1>1, <1>2 DEF Fresh
<1>6. Writes("certora", t) = <<W("certora", v.certora)>>
  BY <1>1, <1>2, <1>3, <1>4, <1>5 DEF Writes, RecordCertora
<1>7. "certora" \in Files
  BY DEF Files, Protected
<1> QED
  BY <1>6, <1>7, FillsOne DEF Step

\* The seal.
LEMMA SealFills ==
  ASSUME NEW v, Fresh(v), NEW t, NEW D, Agrees(t, v, D),
         {"hook", "base", "thy", "admitted", "rid", "reuse", "detReplay", "validation",
          "isaReplay", "model", "killed"} \subseteq D
  PROVE  Agrees(Step(t, "seal"), v, D \cup {"seal"})
<1>1. t.rid = v.rid /\ t.reuse = v.reuse
  BY DEF Agrees
<1>2. t.rid # None /\ t.reuse # None
  BY <1>1, FreshIsThere
<1>3. Writes("seal", t) = <<W("seal", SealOf(t))>>
  BY <1>1, <1>2 DEF Writes, Seal
<1>4. SealOf(t) = v.seal
  BY DEF Agrees, SealOf, Fresh
<1>5. "seal" \in Files
  BY DEF Files, Protected
<1> QED
  BY <1>3, <1>4, <1>5, FillsOne DEF Step

\* The runtime binding.
LEMMA BindingFills ==
  ASSUME NEW v, Fresh(v), NEW t, NEW D, Agrees(t, v, D),
         {"token", "base", "iface", "hook", "out", "schema", "rid"} \subseteq D
  PROVE  Agrees(Step(t, "binding"), v, D \cup {"bundles", "binding"})
<1>1. Source(t) = Source(v)
  BY SourceAgrees
<1>2. t.out = v.out /\ t.schema = v.schema /\ t.rid = v.rid
  BY DEF Agrees
<1>3. v.schema.runtime = Runtime(Source(v)) /\ v.rid.runtime = HookRuntime(Source(v))
  BY DEF BridgeSchema, Fresh
<1>4. v.out = Source(v)
  BY DEF Fresh
<1>5. Replayed(t)
  BY <1>1, <1>2, <1>3, <1>4, FreshIsThere DEF Replayed
<1>6. RuntimeBinding(t) = RuntimeBinding(v)
  BY <1>1, <1>2 DEF RuntimeBinding
<1>7. Writes("binding", t) = <<W("bundles", Source(t)), W("binding", RuntimeBinding(t))>>
  BY <1>1, <1>2, <1>3, <1>4, <1>5, <1>6 DEF Writes, Binding
<1>8. Source(t) = v.bundles /\ RuntimeBinding(t) = v.binding
  BY <1>1, <1>6 DEF Fresh
<1>9. "bundles" \in Files /\ "binding" \in Files
  BY DEF Files, Protected
<1> QED
  BY <1>7, <1>8, <1>9, FillsTwo DEF Step
\* The evidence-reuse contract, where the old one is removed first.
LEMMA RecordReuseFills ==
  ASSUME NEW v, Fresh(v), NEW t, NEW D, Agrees(t, v, D),
         {"token", "base", "iface", "hook", "vectors", "kontrol", "certora"} \subseteq D
  PROVE  Agrees(Step(t, "reuse"), v, D \cup {"reuse"})
<1>1. Source(t) = Source(v)
  BY SourceAgrees
<1>2. /\ t.vectors = 0 /\ t.hook = v.hook /\ t.kontrol = v.kontrol
      /\ t.certora = v.certora
  BY DEF Agrees, Fresh
<1>3. Runtime(Source(v)) = Legacy
  BY DEF Runtime, Source, Legacy, Fresh
<1>4. Preserved(t) /\ t.kontrol # None /\ t.certora # None
  BY <1>1, <1>2, <1>3, FreshIsThere DEF Preserved
<1>5. [source |-> Source(t), hook |-> t.hook, kontrol |-> t.kontrol,
       certora |-> t.certora] = v.reuse
  BY <1>1, <1>2 DEF Fresh
<1>6. PICK a, b, s : a = W("reuse", None) /\ b = W("reuse", v.reuse) /\ s = <<a>> \o <<b>>
  OBVIOUS
<1>7. Writes("reuse", t) = s
  BY <1>4, <1>5, <1>6 DEF Writes, RecordReuse
<1>8. PICK S : S = {a, b}
  OBVIOUS
<1>9. <<a>> \in Seq(S) /\ <<b>> \in Seq(S)
  BY <1>8
<1>10. DOMAIN s = {1, 2} /\ s[1] = a /\ s[2] = b
  <2>1. Len(s) = 2 /\ s \in Seq(S)
    BY <1>6, <1>9, ConcatProperties
  <2>2. s[1] = a /\ s[2] = b
    BY <1>6, <1>9, ConcatProperties
  <2> QED
    BY <2>1, <2>2
<1>11. PICK r : r = Applied(t, s)
  OBVIOUS
<1>12. DOMAIN r = Files
  BY <1>11 DEF Applied, Agrees
<1>13. ASSUME NEW f \in Files
       PROVE  r[f] = IF {i \in {1, 2} : s[i].file = f} = {} THEN t[f]
                     ELSE s[Max({i \in {1, 2} : s[i].file = f})].to
  BY <1>10, <1>11, <1>13 DEF Applied, Agrees
<1>14. a.file = "reuse" /\ b.file = "reuse" /\ b.to = v.reuse
  BY <1>6 DEF W
<1>15. ASSUME NEW f \in Files \ {"reuse"} PROVE r[f] = t[f]
  BY <1>10, <1>13, <1>14
<1>16. r.reuse = v.reuse
  <2>1. {i \in {1, 2} : s[i].file = "reuse"} = {1, 2}
    BY <1>10, <1>14
  <2>2. IsFiniteSet({1, 2}) /\ {1, 2} # {} /\ {1, 2} \subseteq Int
    <3>1. PICK m, n : m = 1 /\ n = 2
      OBVIOUS
    <3>2. m \in Int /\ n \in Int /\ m .. n = {1, 2}
      BY <3>1
    <3>3. IsFiniteSet(m .. n)
      BY <3>2, FS_Interval
    <3>4. PICK both : both = {1, 2}
      OBVIOUS
    <3>5. m .. n = both
      BY <3>2, <3>4
    <3>6. IsFiniteSet(both)
      BY <3>3, <3>5
    <3>7. both # {} /\ both \subseteq Int
      BY <3>4
    <3> QED
      BY <3>4, <3>6, <3>7
  <2>3. Max({1, 2}) \in {1, 2} /\ \A y \in {1, 2} : y <= Max({1, 2})
    BY <2>2, MaxIs
  <2>4. Max({1, 2}) = 2
    BY <2>3
  <2>5. "reuse" \in Files
    BY DEF Files
  <2> QED
    BY <1>10, <1>13, <1>14, <2>1, <2>4, <2>5
<1>17. "reuse" \in Files
  BY DEF Files
<1> QED
  BY <1>7, <1>11, <1>12, <1>15, <1>16, <1>17 DEF Agrees, Step

\* The manifest: whatever it holds, the runtimes in it are those of the build.
LEMMA ManifestWritten ==
  ASSUME NEW t, DOMAIN t = Files, t.out # None, t.repro # None
  PROVE  /\ DOMAIN Step(t, "manifest") = Files
         /\ Step(t, "manifest").manifest = Manifest(t)
         /\ \A f \in Files \ {"manifest"} : Step(t, "manifest")[f] = t[f]
<1>1. PICK m, s : m = Manifest(t) /\ s = <<W("manifest", m)>>
  OBVIOUS
<1>2. Writes("manifest", t) = s
  BY <1>1 DEF Writes, ReleaseManifest, Mandatory
<1>3. DOMAIN s = {1} /\ s[1].file = "manifest" /\ s[1].to = m
  BY <1>1 DEF W
<1>4. PICK r : r = Applied(t, s)
  OBVIOUS
<1>5. DOMAIN r = Files
  BY <1>4 DEF Applied
<1>6. ASSUME NEW f \in Files
      PROVE  r[f] = IF {i \in {1} : s[i].file = f} = {} THEN t[f]
                    ELSE s[Max({i \in {1} : s[i].file = f})].to
  BY <1>3, <1>4, <1>6 DEF Applied
<1>7. ASSUME NEW f \in Files \ {"manifest"} PROVE r[f] = t[f]
  BY <1>3, <1>6
<1>8. r.manifest = m
  <2>1. {i \in {1} : s[i].file = "manifest"} = {1}
    BY <1>3
  <2>2. Max({1}) = 1
    <3>1. IsFiniteSet({1})
      BY FS_Singleton
    <3> QED
      BY <3>1, MaxIs
  <2>3. "manifest" \in Files
    BY DEF Files
  <2> QED
    BY <1>3, <1>6, <2>1, <2>2, <2>3
<1> QED
  BY <1>1, <1>2, <1>4, <1>5, <1>7, <1>8 DEF Step

\* The manifest of a tree that agrees on the build names the other's runtimes.
LEMMA ManifestIs ==
  ASSUME NEW v, NEW t, NEW D, Agrees(t, v, D), {"out", "repro"} \subseteq D,
         "manifest" \notin D, v.out # None, v.repro # None
  PROVE  /\ Agrees(Step(t, "manifest"), v, D)
         /\ Step(t, "manifest").manifest.runtime = Runtime(v.out)
<1>1. PICK r : r = Step(t, "manifest")
  OBVIOUS
<1>2. /\ DOMAIN r = Files /\ r.manifest = Manifest(t)
      /\ \A f \in Files \ {"manifest"} : r[f] = t[f]
  <2>1. t.out = v.out /\ t.repro = v.repro
    BY DEF Agrees
  <2> QED
    BY <1>1, <2>1, ManifestWritten DEF Agrees
<1>3. r.manifest.runtime = Runtime(v.out)
  BY <1>2 DEF Manifest, Agrees
<1> QED
  BY <1>1, <1>2, <1>3 DEF Agrees

\* What is Fresh is so with every manifest of its build.
LEMMA WithManifest ==
  ASSUME NEW v, Fresh(v), NEW w, w = [f \in Files |-> w[f]],
         \A f \in Files \ {"manifest"} : w[f] = v[f], w.manifest.runtime = Runtime(v.out)
  PROVE  Fresh(w)
<1>1. /\ w.spec = v.spec /\ w.token = v.token /\ w.base = v.base /\ w.hook = v.hook
      /\ w.thy = v.thy /\ w.ledger = v.ledger /\ w.iface = v.iface /\ w.abi = v.abi
      /\ w.vectors = v.vectors /\ w.receiptSchema = v.receiptSchema /\ w.repro = v.repro
      /\ w.out = v.out /\ w.kontrolRun = v.kontrolRun
  BY DEF Files, Protected
<1>2. /\ w.schema = v.schema /\ w.bridgeThy = v.bridgeThy /\ w.kbridge = v.kbridge
      /\ w.bridgeManifest = v.bridgeManifest /\ w.ledgerThy = v.ledgerThy
      /\ w.isaRun = v.isaRun /\ w.isa = v.isa /\ w.isaReplay = v.isaReplay
      /\ w.model = v.model /\ w.killed = v.killed /\ w.admitted = v.admitted
  BY DEF Files, Protected
<1>3. /\ w.detReplay = v.detReplay /\ w.validation = v.validation /\ w.rid = v.rid
      /\ w.det = v.det /\ w.foundry = v.foundry /\ w.kontrol = v.kontrol
      /\ w.certoraRun = v.certoraRun /\ w.certora = v.certora /\ w.reuse = v.reuse
  BY DEF Files, Protected
<1>4. /\ w.bundles = v.bundles /\ w.binding = v.binding /\ w.seal = v.seal
      /\ w.closure = v.closure /\ w.summary = v.summary /\ w.index = v.index
  BY DEF Files, Protected
<1>5. /\ Source(w) = Source(v) /\ Formal(w) = Formal(v)
      /\ BridgeSchema(w) = BridgeSchema(v) /\ LedgerTheory(w) = LedgerTheory(v)
      /\ RuntimeBinding(w) = RuntimeBinding(v)
  BY <1>1, <1>2, <1>3 DEF Source, Formal, BridgeSchema, LedgerTheory, RuntimeBinding
<1>6. SealOf(w) = SealOf(v)
  BY <1>1, <1>2, <1>3 DEF SealOf
<1>7. Closure(w) = Closure(v)
  BY <1>1, <1>2, <1>3, <1>4 DEF Closure
<1>8. KontrolCurrent(w) = KontrolCurrent(v) /\ FoundryCurrent(w) = FoundryCurrent(v)
  <2>1. DeterministicCurrent(w) = DeterministicCurrent(v)
    BY <1>2, <1>3, <1>5 DEF DeterministicCurrent
  <2>2. KontrolCurrent(w) = KontrolCurrent(v)
    BY <1>1, <1>3, <2>1 DEF KontrolCurrent
  <2>3. FoundryCurrent(w) = FoundryCurrent(v)
    BY <1>2, <1>3, <1>5, <2>1 DEF FoundryCurrent
  <2> QED
    BY <2>2, <2>3
<1>9. Summary(w) = Summary(v)
  BY <1>3, <1>5, <1>7, <1>8 DEF Summary
<1>10. Pending(w) = Pending(v)
  BY <1>2, <1>3, <1>4 DEF Pending, DeterministicRuntime
<1>11. Index(w) = Index(v)
  <2>1. /\ w.det = v.det /\ w.foundry = v.foundry /\ w.isa = v.isa
        /\ w.kontrol = v.kontrol /\ w.certora = v.certora /\ w.binding = v.binding
    BY <1>2, <1>3, <1>4
  <2>2. /\ w.repro = v.repro /\ w.summary = v.summary /\ w.reuse = v.reuse
        /\ w.seal = v.seal
    BY <1>1, <1>3, <1>4
  <2>3. Source(w) = Source(v) /\ Formal(w) = Formal(v)
    BY <1>5
  <2> QED
    BY <1>10, <2>1, <2>2, <2>3 DEF Index
<1>12. /\ w.spec = 0 /\ w.token = 0 /\ w.base = 0
       /\ w.hook \in {0, 1} /\ w.thy \in {0, 1} /\ w.ledger \in {0, 1}
       /\ w.iface = 0 /\ w.abi = 0 /\ w.vectors = 0 /\ w.receiptSchema = 0 /\ w.repro = 0
  BY <1>1 DEF Fresh
<1>13. /\ w.out = Source(w)
       /\ w.schema = BridgeSchema(w) /\ w.bridgeThy = w.schema /\ w.kbridge = w.schema
       /\ w.bridgeManifest = BridgeManifest(w.schema)
       /\ w.ledgerThy = LedgerTheory(w)
       /\ w.isaRun = Formal(w) /\ w.isa = [of |-> Formal(w), ran |-> Formal(w)]
       /\ w.isaReplay = w.isa /\ w.model = w.isa
       /\ w.killed = w.hook
       /\ w.admitted = [hook |-> w.hook, formal |-> w.isa, model |-> w.isa]
  BY <1>1, <1>2, <1>5 DEF Fresh
<1>14. /\ w.detReplay = Source(w)
       /\ w.validation = [source |-> Source(w), det |-> Source(w)]
       /\ w.rid = [source |-> Source(w), runtime |-> HookRuntime(w.out)]
       /\ w.det = [replay |-> w.detReplay, source |-> Source(w)]
       /\ w.foundry = [run |-> w.validation, source |-> Source(w),
                       runtime |-> Runtime(w.out)]
  BY <1>1, <1>3, <1>5 DEF Fresh
<1>15. /\ w.kontrolRun = w.token
       /\ w.kontrol = [inputs |-> w.token, runtime |-> Runtime(w.out)]
       /\ w.certoraRun = Adapter(Source(w))
       /\ w.certora = [inputs |-> Adapter(Source(w)),
                       runtime |-> Adapter(w.schema.runtime), ran |-> w.certoraRun]
       /\ w.reuse = [source |-> Source(w), hook |-> w.hook,
                     kontrol |-> w.kontrol, certora |-> w.certora]
  BY <1>1, <1>2, <1>3, <1>5 DEF Fresh
<1>16. /\ w.seal = SealOf(w) /\ w.bundles = Source(w) /\ w.binding = RuntimeBinding(w)
       /\ w.summary = Summary(w) /\ w.closure = Closure(w) /\ w.index = Index(w)
  BY <1>4, <1>3, <1>5, <1>6, <1>7, <1>9, <1>11 DEF Fresh
<1> QED
  BY <1>1, <1>12, <1>13, <1>14, <1>15, <1>16 DEF Fresh
-----------------------------------------------------------------------------
(* What is accepted of a tree that was carried through *)

\* What the verifiers read in its receipts.
LEMMA FreshReads ==
  ASSUME NEW v, Fresh(v)
  PROVE  /\ Runtime(Source(v)) = Legacy /\ Adapter(Source(v)) = Adapter(Legacy)
         /\ v.out = Source(v) /\ v.schema.runtime = Legacy /\ v.bridgeThy.runtime = Legacy
         /\ v.det.replay = Source(v) /\ v.det.source = Source(v)
         /\ v.detReplay = Source(v) /\ v.validation.source = Source(v)
         /\ v.foundry.run = v.validation /\ v.foundry.source = Source(v)
         /\ v.foundry.runtime = Legacy
         /\ v.isa.of = Formal(v) /\ v.rid.source = Source(v)
         /\ v.rid.runtime = HookRuntime(Source(v))
         /\ v.kontrol.inputs = v.token /\ v.kontrol.runtime = Legacy
         /\ v.certora.inputs = Adapter(Legacy) /\ v.certora.runtime = Adapter(Legacy)
         /\ v.binding.source = Source(v) /\ v.binding.schema = v.schema
         /\ v.binding.rid = v.rid /\ v.bundles = Source(v)
         /\ v.manifest.runtime = Legacy
<1>1. Runtime(Source(v)) = Legacy /\ Adapter(Source(v)) = Adapter(Legacy)
  BY DEF Runtime, Adapter, Source, Legacy, Fresh
<1>2. v.out = Source(v)
  BY DEF Fresh
<1>3. v.schema.runtime = Legacy /\ v.bridgeThy.runtime = Legacy
  <2>1. v.schema = BridgeSchema(v) /\ v.bridgeThy = v.schema
    BY DEF Fresh
  <2>2. BridgeSchema(v).runtime = Legacy
    BY <1>1, <1>2 DEF BridgeSchema
  <2> QED
    BY <2>1, <2>2
<1>4. /\ v.det.replay = Source(v) /\ v.det.source = Source(v)
      /\ v.detReplay = Source(v) /\ v.validation.source = Source(v)
  BY DEF Fresh
<1>5. /\ v.foundry.run = v.validation /\ v.foundry.source = Source(v)
      /\ v.foundry.runtime = Legacy
  BY <1>1, <1>2 DEF Fresh
<1>6. /\ v.isa.of = Formal(v) /\ v.rid.source = Source(v)
      /\ v.rid.runtime = HookRuntime(Source(v))
  BY <1>2 DEF Fresh
<1>7. v.kontrol.inputs = v.token /\ v.kontrol.runtime = Legacy
  BY <1>1, <1>2 DEF Fresh
<1>8. v.certora.inputs = Adapter(Legacy) /\ v.certora.runtime = Adapter(Legacy)
  BY <1>1, <1>3 DEF Fresh
<1>9. /\ v.binding.source = Source(v) /\ v.binding.schema = v.schema
      /\ v.binding.rid = v.rid /\ v.bundles = Source(v)
  BY DEF Fresh, RuntimeBinding
<1>10. v.manifest.runtime = Legacy
  BY <1>1, <1>2 DEF Fresh
<1> QED
  BY <1>1, <1>2, <1>3, <1>4, <1>5, <1>6, <1>7, <1>8, <1>9, <1>10

\* The contract and the required evidence of a tree that agrees up to the ledger.
LEMMA VerifiedUpToLedger ==
  ASSUME NEW v, Fresh(v), NEW t, NEW D, Agrees(t, v, D),
         Files \ {"summary", "closure", "index", "manifest"} \subseteq D
  PROVE  Reuse(t) /\ Required(t) /\ BridgeBound(t)
<1>1. /\ t.hook = v.hook /\ t.token = v.token /\ t.base = v.base /\ t.thy = v.thy
      /\ t.vectors = v.vectors /\ t.admitted = v.admitted /\ t.schema = v.schema
      /\ t.bridgeManifest = v.bridgeManifest
  BY DEF Agrees, Files, Protected
<1>2. /\ t.isa = v.isa /\ t.isaReplay = v.isaReplay /\ t.model = v.model
      /\ t.killed = v.killed /\ t.detReplay = v.detReplay
      /\ t.validation = v.validation /\ t.rid = v.rid
  BY DEF Agrees, Files, Protected
<1>3. /\ t.det = v.det /\ t.foundry = v.foundry /\ t.kontrol = v.kontrol
      /\ t.certora = v.certora /\ t.reuse = v.reuse /\ t.seal = v.seal
      /\ t.bundles = v.bundles /\ t.binding = v.binding
  BY DEF Agrees, Files, Protected
<1>4. Source(t) = Source(v) /\ Formal(t) = Formal(v)
  BY SourceAgrees, FormalAgrees DEF Files, Protected
<1>5. /\ v.rid # None /\ v.kontrol # None /\ v.certora # None /\ v.isa # None
      /\ v.det # None /\ v.foundry # None /\ v.binding # None /\ v.reuse # None
  BY FreshIsThere
<1>6. Reuse(t)
  <2>1. /\ v.reuse.source = Source(v) /\ v.reuse.hook = v.hook
        /\ v.reuse.kontrol = v.kontrol /\ v.reuse.certora = v.certora
        /\ v.vectors = 0 /\ v.token = 0
    BY DEF Fresh
  <2>2. Preserved(t)
    BY <1>1, <1>4, <2>1, FreshReads DEF Preserved
  <2>3. v.kontrol.inputs = Legacy.token
    BY <2>1, FreshReads DEF Legacy
  <2> QED
    BY <1>1, <1>3, <1>4, <1>5, <2>1, <2>2, <2>3, FreshReads DEF Reuse
<1>7. t.seal = SealOf(t)
  <2>1. v.seal = SealOf(v)
    BY DEF Fresh
  <2> QED
    BY <1>1, <1>2, <1>3, <2>1 DEF SealOf
<1>8. HookAudited(t)
  BY <1>1, <1>2 DEF HookAudited, Fresh
<1>9. RuntimeIdentityCurrent(t)
  BY <1>2, <1>4, <1>5, FreshReads DEF RuntimeIdentityCurrent
<1>10. DeterministicLocal(t)
  BY <1>2, <1>3, <1>4, <1>5, FreshReads DEF DeterministicLocal
<1>11. FoundryLocal(t)
  BY <1>2, <1>3, <1>4, <1>5, FreshReads DEF FoundryLocal
<1>12. FormalAdmitted(t) /\ ModelAdmitted(t)
  <2>1. /\ v.isaReplay = v.isa /\ v.model = v.isa
        /\ v.admitted.formal = v.isa /\ v.admitted.model = v.isa
    BY DEF Fresh
  <2> QED
    BY <1>1, <1>2, <1>4, <1>5, <2>1, FreshReads DEF FormalAdmitted, ModelAdmitted
<1>13. BindingMatches(t)
  BY <1>2, <1>3, <1>5, FreshReads DEF BindingMatches
<1>14. BridgeBound(t)
  BY <1>1 DEF BridgeBound, BridgeManifest, Fresh
<1> QED
  BY <1>6, <1>7, <1>8, <1>9, <1>10, <1>11, <1>12, <1>13, <1>14 DEF Required

\* Its ledger.
LEMMA LedgerIs ==
  ASSUME NEW v, Fresh(v), NEW t, NEW D, Agrees(t, v, D),
         Files \ {"summary", "closure", "index", "manifest"} \subseteq D
  PROVE  LedgerTheory(t) = v.ledgerThy /\ Summary(t) = v.summary /\ Closure(t) = v.closure
<1>1. /\ t.ledger = v.ledger /\ t.schema = v.schema /\ t.det = v.det
      /\ t.kontrol = v.kontrol /\ t.foundry = v.foundry /\ t.token = v.token
      /\ t.seal = v.seal
  BY DEF Agrees, Files, Protected
<1>2. Source(t) = Source(v)
  BY SourceAgrees DEF Files, Protected
<1>3. LedgerTheory(t) = LedgerTheory(v)
  BY <1>1 DEF LedgerTheory
<1>4. Closure(t) = Closure(v)
  BY <1>1 DEF Closure
<1>5. DeterministicCurrent(t) = DeterministicCurrent(v)
  BY <1>1, <1>2 DEF DeterministicCurrent
<1>6. KontrolCurrent(t) = KontrolCurrent(v)
  BY <1>1, <1>5 DEF KontrolCurrent
<1>7. FoundryCurrent(t) = FoundryCurrent(v)
  BY <1>1, <1>2, <1>5 DEF FoundryCurrent
<1>8. Summary(t) = Summary(v)
  BY <1>1, <1>3, <1>4, <1>6, <1>7 DEF Summary
<1> QED
  BY <1>3, <1>4, <1>8 DEF Fresh

\* The ledger is written.
LEMMA LedgerFills ==
  ASSUME NEW v, Fresh(v), NEW t, NEW D, Agrees(t, v, D),
         Files \ {"summary", "closure", "index"} \subseteq D
  PROVE  Agrees(Step(t, "ledger"), v, D \cup {"ledgerThy", "summary", "closure"})
<1>1. Files \ {"summary", "closure", "index", "manifest"} \subseteq D
  OBVIOUS
<1>2. LedgerVerified(t)
  BY <1>1, VerifiedUpToLedger DEF LedgerVerified
<1>3. LedgerTheory(t) = v.ledgerThy /\ Summary(t) = v.summary /\ Closure(t) = v.closure
  BY <1>1, LedgerIs
<1>4. Writes("ledger", t) = <<W("ledgerThy", v.ledgerThy), W("summary", v.summary),
                              W("closure", v.closure)>>
  BY <1>2, <1>3 DEF Writes, LedgerWrite
<1>5. "ledgerThy" \in Files /\ "summary" \in Files /\ "closure" \in Files
  BY DEF Files, Protected
<1> QED
  BY <1>4, <1>5, FillsThree DEF Step

\* Its lanes, of which none is pending.
LEMMA LanesAgree ==
  ASSUME NEW v, Fresh(v), NEW t, NEW D, Agrees(t, v, D), Files \ {"index"} \subseteq D
  PROVE  LanesHold(t) /\ Index(t) = v.index
<1>1. Files \ {"summary", "closure", "index", "manifest"} \subseteq D
  OBVIOUS
<1>2. Reuse(t) /\ Required(t)
  BY <1>1, VerifiedUpToLedger
<1>3. Source(t) = Source(v) /\ Formal(t) = Formal(v)
  BY SourceAgrees, FormalAgrees DEF Files, Protected
<1>4. /\ t.det = v.det /\ t.foundry = v.foundry /\ t.isa = v.isa
      /\ t.kontrol = v.kontrol /\ t.certora = v.certora /\ t.binding = v.binding
      /\ t.manifest = v.manifest
  BY DEF Agrees, Files, Protected
<1>5. /\ t.summary = v.summary /\ t.closure = v.closure /\ t.schema = v.schema
      /\ t.ledger = v.ledger /\ t.ledgerThy = v.ledgerThy
      /\ t.bridgeManifest = v.bridgeManifest /\ t.bridgeThy = v.bridgeThy
      /\ t.kbridge = v.kbridge /\ t.token = v.token
  BY DEF Agrees, Files, Protected
<1>6. /\ t.repro = v.repro /\ t.vectors = v.vectors /\ t.reuse = v.reuse
      /\ t.seal = v.seal
  BY DEF Agrees, Files, Protected
<1>7. DeterministicRuntime(t) = Legacy
  BY <1>4, FreshReads DEF DeterministicRuntime
<1>8. RuntimeLane(t)
  BY <1>3, <1>4, <1>7, FreshReads DEF RuntimeLane
<1>9. FoundryLane(t)
  BY <1>3, <1>4, <1>7, FreshReads, FreshIsThere DEF FoundryLane
<1>10. IsabelleLane(t)
  BY <1>3, <1>4, FreshReads DEF IsabelleLane
<1>11. LedgerLane(t)
  <2>1. /\ v.summary.closure = v.closure /\ v.summary.theory = v.ledgerThy
        /\ v.closure.schema = v.schema /\ v.closure.ledger = v.ledger
    BY DEF Fresh, Summary, Closure
  <2>2. /\ v.bridgeManifest.schema = v.schema
        /\ v.bridgeManifest.generated = <<v.bridgeThy, v.kbridge>>
    BY DEF Fresh, BridgeManifest
  <2> QED
    BY <1>5, <2>1, <2>2 DEF LedgerLane
<1>12. KontrolLane(t)
  <2>1. v.token = Legacy.token
    BY DEF Fresh, Legacy
  <2> QED
    BY <1>4, <1>5, <1>7, <2>1, FreshReads, FreshIsThere DEF KontrolLane
<1>13. CertoraLane(t)
  BY <1>3, <1>4, <1>7, FreshReads, FreshIsThere DEF CertoraLane
<1>14. ReproductionLane(t)
  BY <1>6 DEF ReproductionLane, Fresh
<1>15. BindingLane(t)
  BY <1>3, <1>4, <1>7, FreshReads, FreshIsThere DEF BindingLane
<1>16. MutationAdmitted(t)
  BY <1>2 DEF MutationAdmitted, Reuse
<1>17. LanesHold(t)
  BY <1>2, <1>8, <1>9, <1>10, <1>11, <1>12, <1>13, <1>14, <1>15, <1>16 DEF LanesHold
<1>18. Index(t) = Index(v)
  <2>1. Pending(t) = Pending(v)
    BY <1>4, <1>5 DEF Pending, DeterministicRuntime
  <2> QED
    BY <1>3, <1>4, <1>5, <1>6, <2>1 DEF Index
<1> QED
  BY <1>17, <1>18 DEF Fresh

\* The index of the lanes is written.
LEMMA IndexFills ==
  ASSUME NEW v, Fresh(v), NEW t, NEW D, Agrees(t, v, D), Files \ {"index"} \subseteq D
  PROVE  Agrees(Step(t, "index"), v, D \cup {"index"})
<1>1. LanesHold(t) /\ Index(t) = v.index
  BY LanesAgree
<1>2. Writes("index", t) = <<W("index", v.index)>>
  BY <1>1 DEF Writes, WriteIndex
<1>3. "index" \in Files
  BY DEF Files, Protected
<1> QED
  BY <1>2, <1>3, FillsOne DEF Step
-----------------------------------------------------------------------------
(* One pass of the commands *)

\* Trees as the commands make them of one another, in the order of a change.
Carries(g) == \A n \in 1 .. 25 : g[n] = Step(g[n - 1], Order[n])

\* What is there when the first manifest is written.
Built ==
  Edited \cup
    {"iface", "abi", "vectors", "receiptSchema", "repro", "out", "schema",
     "bridgeThy", "kbridge", "bridgeManifest", "ledgerThy", "isaRun", "isaReplay",
     "isa", "model", "killed", "admitted", "detReplay", "validation", "rid"}

\* The commands before the first manifest, whatever the rendered files held.
LEMMA FirstHalf ==
  ASSUME NEW v, Fresh(v), NEW g, Carries(g), Agrees(g[0], v, Edited)
  PROVE  Agrees(g[12], v, Built)
<1>1. /\ g[1] = Step(g[0], "kernel")
      /\ g[2] = Step(g[1], "reproduce")
      /\ g[3] = Step(g[2], "forge")
      /\ g[4] = Step(g[3], "bridge")
      /\ g[5] = Step(g[4], "ledgerTheory")
      /\ g[6] = Step(g[5], "runIsabelle")
      /\ g[7] = Step(g[6], "recordIsabelle")
      /\ g[8] = Step(g[7], "model")
      /\ g[9] = Step(g[8], "hookMutations")
      /\ g[10] = Step(g[9], "admit")
      /\ g[11] = Step(g[10], "runFoundry")
      /\ g[12] = Step(g[11], "rid")
  BY DEF Order, Carries
<1>2. PICK d0 : d0 = Edited
  OBVIOUS
<1>3. PICK d1 : d1 = d0 \cup {"iface", "abi", "vectors", "receiptSchema"}
  OBVIOUS
<1>4. PICK d2 : d2 = d1 \cup {"repro"}
  OBVIOUS
<1>5. PICK d3 : d3 = d2 \cup {"out"}
  OBVIOUS
<1>6. PICK d4 : d4 = d3 \cup {"schema", "bridgeThy", "kbridge", "bridgeManifest"}
  OBVIOUS
<1>7. PICK d5 : d5 = d4 \cup {"ledgerThy"}
  OBVIOUS
<1>8. PICK d6 : d6 = d5 \cup {"isaRun"}
  OBVIOUS
<1>9. PICK d7 : d7 = d6 \cup {"isaReplay", "isa"}
  OBVIOUS
<1>10. PICK d8 : d8 = d7 \cup {"model"}
  OBVIOUS
<1>11. PICK d9 : d9 = d8 \cup {"killed"}
  OBVIOUS
<1>12. PICK d10 : d10 = d9 \cup {"admitted"}
  OBVIOUS
<1>13. PICK d11 : d11 = d10 \cup {"detReplay", "validation"}
  OBVIOUS
<1>14. PICK d12 : d12 = d11 \cup {"rid"}
  OBVIOUS
<1>15. Agrees(g[0], v, d0)
  BY <1>2
<1>16. Agrees(g[1], v, d1)
  <2>1. {"spec"} \subseteq d0
    BY <1>2 DEF Edited, Built, Files, Protected
  <2> QED
    BY <1>1, <1>3, <1>15, <2>1, KernelFills
<1>17. Agrees(g[2], v, d2)
  <2>1. {"spec", "abi", "vectors"} \subseteq d1
    BY <1>2, <1>3 DEF Edited, Built, Files, Protected
  <2> QED
    BY <1>1, <1>4, <1>16, <2>1, ReproduceFills
<1>18. Agrees(g[3], v, d3)
  <2>1. {"token", "base", "iface", "hook"} \subseteq d2
    BY <1>2, <1>3, <1>4 DEF Edited, Built, Files, Protected
  <2> QED
    BY <1>1, <1>5, <1>17, <2>1, ForgeFills
<1>19. Agrees(g[4], v, d4)
  <2>1. {"spec", "abi", "out"} \subseteq d3
    BY <1>2, <1>3, <1>4, <1>5 DEF Edited, Built, Files, Protected
  <2> QED
    BY <1>1, <1>6, <1>18, <2>1, BridgeFills
<1>20. Agrees(g[5], v, d5)
  <2>1. {"ledger", "schema", "bridgeManifest"} \subseteq d4
    BY <1>2, <1>3, <1>4, <1>5, <1>6 DEF Edited, Built, Files, Protected
  <2> QED
    BY <1>1, <1>7, <1>19, <2>1, LedgerTheoryFills
<1>21. Agrees(g[6], v, d6)
  <2>1. {"thy", "schema", "bridgeThy", "ledgerThy"} \subseteq d5
    BY <1>2, <1>3, <1>4, <1>5, <1>6, <1>7 DEF Edited, Built, Files, Protected
  <2> QED
    BY <1>1, <1>8, <1>20, <2>1, RunIsabelleFills
<1>22. Agrees(g[7], v, d7)
  <2>1. {"thy", "bridgeThy", "ledgerThy", "isaRun"} \subseteq d6
    BY <1>2, <1>3, <1>4, <1>5, <1>6, <1>7, <1>8 DEF Edited, Built, Files, Protected
  <2> QED
    BY <1>1, <1>9, <1>21, <2>1, RecordIsabelleFills
<1>23. Agrees(g[8], v, d8)
  <2>1. {"thy", "bridgeThy", "ledgerThy", "isaReplay"} \subseteq d7
    BY <1>2, <1>3, <1>4, <1>5, <1>6, <1>7, <1>8, <1>9 DEF Edited, Built, Files, Protected
  <2> QED
    BY <1>1, <1>10, <1>22, <2>1, RecordModelFills
<1>24. Agrees(g[9], v, d9)
  <2>1. {"hook"} \subseteq d8
    BY <1>2, <1>3, <1>4, <1>5, <1>6, <1>7, <1>8, <1>9, <1>10 DEF Edited, Built, Files,
       Protected
  <2> QED
    BY <1>1, <1>11, <1>23, <2>1, HookMutationsFills
<1>25. Agrees(g[10], v, d10)
  <2>1. {"hook", "isaReplay", "model"} \subseteq d9
    BY <1>2, <1>3, <1>4, <1>5, <1>6, <1>7, <1>8, <1>9, <1>10, <1>11 DEF Edited, Built,
       Files, Protected
  <2> QED
    BY <1>1, <1>12, <1>24, <2>1, AdmitFills
<1>26. Agrees(g[11], v, d11)
  <2>1. {"token", "base", "iface", "hook"} \subseteq d10
    BY <1>2, <1>3, <1>4, <1>5, <1>6, <1>7, <1>8, <1>9, <1>10, <1>11, <1>12 DEF Edited,
       Built, Files, Protected
  <2> QED
    BY <1>1, <1>13, <1>25, <2>1, RunFoundryFills
<1>27. Agrees(g[12], v, d12)
  <2>1. {"token", "base", "iface", "hook", "out"} \subseteq d11
    BY <1>2, <1>3, <1>4, <1>5, <1>6, <1>7, <1>8, <1>9, <1>10, <1>11, <1>12, <1>13
       DEF Edited, Built, Files, Protected
  <2> QED
    BY <1>1, <1>14, <1>26, <2>1, RuntimeIdentityFills
<1>28. d12 = Built
  BY <1>2, <1>3, <1>4, <1>5, <1>6, <1>7, <1>8, <1>9, <1>10, <1>11, <1>12, <1>13, <1>14
     DEF Built
<1> QED
  BY <1>27, <1>28

\* The commands after it, before the last one.
LEMMA SecondHalf ==
  ASSUME NEW v, Fresh(v), NEW g, Carries(g), Agrees(g[13], v, Built \cup {"manifest"})
  PROVE  Agrees(g[24], v, Files)
<1>1. /\ g[14] = Step(g[13], "det")
      /\ g[15] = Step(g[14], "foundry")
      /\ g[16] = Step(g[15], "runKontrol")
      /\ g[17] = Step(g[16], "kontrol")
      /\ g[18] = Step(g[17], "runCertora")
      /\ g[19] = Step(g[18], "certora")
      /\ g[20] = Step(g[19], "reuse")
      /\ g[21] = Step(g[20], "seal")
      /\ g[22] = Step(g[21], "binding")
      /\ g[23] = Step(g[22], "ledger")
      /\ g[24] = Step(g[23], "index")
  BY DEF Order, Carries
<1>2. PICK d13 : d13 = Built \cup {"manifest"}
  OBVIOUS
<1>3. PICK d14 : d14 = d13 \cup {"det"}
  OBVIOUS
<1>4. PICK d15 : d15 = d14 \cup {"foundry"}
  OBVIOUS
<1>5. PICK d16 : d16 = d15 \cup {"kontrolRun"}
  OBVIOUS
<1>6. PICK d17 : d17 = d16 \cup {"kontrol"}
  OBVIOUS
<1>7. PICK d18 : d18 = d17 \cup {"certoraRun"}
  OBVIOUS
<1>8. PICK d19 : d19 = d18 \cup {"certora"}
  OBVIOUS
<1>9. PICK d20 : d20 = d19 \cup {"reuse"}
  OBVIOUS
<1>10. PICK d21 : d21 = d20 \cup {"seal"}
  OBVIOUS
<1>11. PICK d22 : d22 = d21 \cup {"bundles", "binding"}
  OBVIOUS
<1>12. PICK d23 : d23 = d22 \cup {"ledgerThy", "summary", "closure"}
  OBVIOUS
<1>13. PICK d24 : d24 = d23 \cup {"index"}
  OBVIOUS
<1>14. Agrees(g[13], v, d13)
  BY <1>2
<1>15. Agrees(g[14], v, d14)
  <2>1. {"token", "base", "iface", "hook", "out", "detReplay", "validation",
        "manifest"} \subseteq d13
    BY <1>2 DEF Edited, Built, Files, Protected
  <2> QED
    BY <1>1, <1>3, <1>14, <2>1, RecordDeterministicFills
<1>16. Agrees(g[15], v, d15)
  <2>1. {"token", "base", "iface", "hook", "out", "schema", "validation"} \subseteq d14
    BY <1>2, <1>3 DEF Edited, Built, Files, Protected
  <2> QED
    BY <1>1, <1>4, <1>15, <2>1, RecordFoundryFills
<1>17. Agrees(g[16], v, d16)
  <2>1. {"token"} \subseteq d15
    BY <1>2, <1>3, <1>4 DEF Edited, Built, Files, Protected
  <2> QED
    BY <1>1, <1>5, <1>16, <2>1, RunKontrolFills
<1>18. Agrees(g[17], v, d17)
  <2>1. {"token", "out", "schema", "kontrolRun"} \subseteq d16
    BY <1>2, <1>3, <1>4, <1>5 DEF Edited, Built, Files, Protected
  <2> QED
    BY <1>1, <1>6, <1>17, <2>1, RecordKontrolFills
<1>19. Agrees(g[18], v, d18)
  <2>1. {"token", "base", "iface", "hook"} \subseteq d17
    BY <1>2, <1>3, <1>4, <1>5, <1>6 DEF Edited, Built, Files, Protected
  <2> QED
    BY <1>1, <1>7, <1>18, <2>1, RunCertoraFills
<1>20. Agrees(g[19], v, d19)
  <2>1. {"token", "base", "iface", "hook", "schema", "certoraRun"} \subseteq d18
    BY <1>2, <1>3, <1>4, <1>5, <1>6, <1>7 DEF Edited, Built, Files, Protected
  <2> QED
    BY <1>1, <1>8, <1>19, <2>1, RecordCertoraFills
<1>21. Agrees(g[20], v, d20)
  <2>1. {"token", "base", "iface", "hook", "vectors", "kontrol", "certora"} \subseteq d19
    BY <1>2, <1>3, <1>4, <1>5, <1>6, <1>7, <1>8 DEF Edited, Built, Files, Protected
  <2> QED
    BY <1>1, <1>9, <1>20, <2>1, RecordReuseFills
<1>22. Agrees(g[21], v, d21)
  <2>1. {"hook", "base", "thy", "admitted", "rid", "reuse", "detReplay",
        "validation", "isaReplay", "model", "killed"} \subseteq d20
    BY <1>2, <1>3, <1>4, <1>5, <1>6, <1>7, <1>8, <1>9 DEF Edited, Built, Files, Protected
  <2> QED
    BY <1>1, <1>10, <1>21, <2>1, SealFills
<1>23. Agrees(g[22], v, d22)
  <2>1. {"token", "base", "iface", "hook", "out", "schema", "rid"} \subseteq d21
    BY <1>2, <1>3, <1>4, <1>5, <1>6, <1>7, <1>8, <1>9, <1>10 DEF Edited, Built, Files,
       Protected
  <2> QED
    BY <1>1, <1>11, <1>22, <2>1, BindingFills
<1>24. Agrees(g[23], v, d23)
  <2>1. Files \ {"summary", "closure", "index"} \subseteq d22
    BY <1>2, <1>3, <1>4, <1>5, <1>6, <1>7, <1>8, <1>9, <1>10, <1>11 DEF Edited, Built,
       Files, Protected
  <2> QED
    BY <1>1, <1>12, <1>23, <2>1, LedgerFills
<1>25. Agrees(g[24], v, d24)
  <2>1. Files \ {"index"} \subseteq d23
    BY <1>2, <1>3, <1>4, <1>5, <1>6, <1>7, <1>8, <1>9, <1>10, <1>11, <1>12 DEF Edited,
       Built, Files, Protected
  <2> QED
    BY <1>1, <1>13, <1>24, <2>1, IndexFills
<1>26. Files \subseteq d24
  BY <1>2, <1>3, <1>4, <1>5, <1>6, <1>7, <1>8, <1>9, <1>10, <1>11, <1>12, <1>13
     DEF Built, Edited, Files, Protected
<1> QED
  BY <1>25, <1>26 DEF Agrees

\* A tree that agrees in all files is the same.
LEMMA Whole ==
  ASSUME NEW v, Fresh(v), NEW t, NEW s, NEW r, r = Applied(t, s), Agrees(r, v, Files)
  PROVE  r = v
<1>1. v = [f \in Files |-> v[f]]
  BY DEF Fresh
<1>2. DOMAIN t = Files
  BY DEF Agrees, Applied
<1>3. r = [f \in Files |-> r[f]]
  BY <1>2 DEF Applied
<1>4. \A f \in Files : r[f] = v[f]
  BY DEF Agrees
<1> QED
  BY <1>1, <1>3, <1>4

\* What was carried through and has its manifest is accepted.
LEMMA FreshAccepted ==
  ASSUME NEW v, Fresh(v), v.manifest = Manifest(v)
  PROVE  Accepts(v)
<1>1. Agrees(v, v, Files)
  BY DEF Agrees, Fresh
<1>2. /\ v.spec = 0 /\ v.token = 0 /\ v.iface = 0 /\ v.abi = 0 /\ v.vectors = 0
      /\ v.receiptSchema = 0 /\ v.repro = 0 /\ v.out = Source(v)
  BY DEF Fresh
<1>3. Applied(v, ForgeBuild(v)) = v
  <2>1. PICK r : r = Applied(v, ForgeBuild(v))
    OBVIOUS
  <2>2. "out" \in Files /\ Files \cup {"out"} = Files
    BY DEF Files
  <2>3. Agrees(r, v, Files)
    BY <1>1, <1>2, <2>1, <2>2, FillsOne DEF ForgeBuild
  <2> QED
    BY <2>1, <2>3, Whole
<1>4. Applied(v, KernelOutputs(v)) = v
  <2>1. PICK r : r = Applied(v, KernelOutputs(v))
    OBVIOUS
  <2>2. KernelOutputs(v) = <<W("iface", v.spec), W("abi", v.spec), W("vectors", v.spec),
                             W("receiptSchema", v.spec)>>
    BY DEF KernelOutputs, Interface, Abi, Vectors, ReceiptSchema
  <2>3. /\ "iface" \in Files /\ "abi" \in Files /\ "vectors" \in Files
        /\ "receiptSchema" \in Files
        /\ Files \cup {"iface", "abi", "vectors", "receiptSchema"} = Files
    BY DEF Files, Protected
  <2>4. Agrees(r, v, Files)
    BY <1>1, <1>2, <2>1, <2>2, <2>3, FillsFour
  <2> QED
    BY <2>1, <2>4, Whole
<1>5. ReceiptSchemaCurrent(v) /\ InterfaceCompiles(v)
  BY <1>2 DEF ReceiptSchemaCurrent, InterfaceCompiles
<1>6. Reproduce(v) = <<W("repro", v.repro)>>
  BY <1>2 DEF Reproduce
<1>7. BridgeCheck(v)
  <2>1. BridgeConsistent(v)
    BY <1>2 DEF BridgeConsistent, Source
  <2> QED
    BY <2>1 DEF BridgeCheck, Fresh
<1>8. Files \ {"summary", "closure", "index", "manifest"} \subseteq Files
      /\ Files \ {"index"} \subseteq Files
  OBVIOUS
<1>9. Reuse(v) /\ Required(v) /\ BridgeBound(v)
  BY <1>1, <1>8, VerifiedUpToLedger
<1>10. LedgerTheory(v) = v.ledgerThy /\ Summary(v) = v.summary /\ Closure(v) = v.closure
  BY <1>1, <1>8, LedgerIs
<1>11. LanesHold(v) /\ Index(v) = v.index
  BY <1>1, <1>8, LanesAgree
<1>12. LedgerCheck(v)
  BY <1>9, <1>10 DEF LedgerCheck, LedgerVerified
<1>13. BindingCheck(v)
  <2>1. Replayed(v)
    BY <1>2, FreshReads, FreshIsThere DEF Replayed
  <2> QED
    BY <2>1 DEF BindingCheck, Fresh
<1>14. DeterministicRuntime(v) = Legacy
  BY FreshReads DEF DeterministicRuntime
<1>15. BindingVerified(v)
  BY <1>14, FreshReads, FreshIsThere DEF BindingVerified
<1>16. StaleRejected(v) /\ StoredInputsCurrent(v)
  <2>1. MutationAdmitted(v)
    BY <1>9 DEF MutationAdmitted, Reuse
  <2> QED
    BY <2>1, FreshReads DEF StaleRejected, StoredInputsCurrent
<1>17. ReleaseVerified(v)
  <2>1. v.manifest.files = [f \in Protected |-> v[f]]
    BY DEF Manifest
  <2>2. Runtime(v.out) = Legacy /\ v.manifest.runtime = Legacy
    BY FreshReads
  <2>3. \A f \in Protected : v.manifest.files[f] = v[f]
    BY <2>1
  <2> QED
    BY <1>14, <2>2, <2>3 DEF ReleaseVerified
<1> QED
  BY <1>3, <1>4, <1>5, <1>6, <1>7, <1>9, <1>11, <1>12, <1>13, <1>15, <1>16, <1>17
     DEF Accepts

\* From a tree that has the baseline the legacy campaigns ran on one pass of the
\* commands ends in one that is accepted.
LEMMA RefreshedIsAccepted ==
  ASSUME NEW t, Honest(t), Runtime([Source(t) EXCEPT !.iface = t.spec]) = Legacy
  PROVE  Accepts(Refreshed(t))
<1>1. PICK all : all = Order
  OBVIOUS
<1>2. Len(all) = 25
  BY <1>1 DEF Order
<1>3. PICK g : /\ Carried(t, all) = g[25] /\ g[0] = t
               /\ \A n \in 1 .. 25 : g[n] = Step(g[n - 1], all[n])
  <2>1. Len(all) \in Nat
    BY <1>2
  <2>2. \E g : /\ Carried(t, all) = g[Len(all)] /\ g[0] = t
               /\ \A n \in 1 .. Len(all) : g[n] = Step(g[n - 1], all[n])
    BY <2>1, CarriedIs
  <2> QED
    BY <1>2, <2>2
<1>4. Carries(g)
  BY <1>1, <1>3 DEF Carries
<1>5. g[13] = Step(g[12], "manifest") /\ g[25] = Step(g[24], "manifest")
  BY <1>4 DEF Carries, Order
<1>6. t.token = 0 /\ t.base = 0 /\ t.spec = 0
  <2>1. PICK s : s = Source(t)
    OBVIOUS
  <2>2. s = [token |-> t.token, base |-> t.base, iface |-> t.iface, hook |-> t.hook]
    BY <2>1 DEF Source
  <2>3. Runtime([s EXCEPT !.iface = t.spec]) =
          [token |-> t.token, base |-> t.base, iface |-> t.spec]
    BY <2>2 DEF Runtime
  <2>4. [token |-> t.token, base |-> t.base, iface |-> t.spec] = Legacy
    BY <2>1, <2>3
  <2> QED
    BY <2>4 DEF Legacy
<1>7. t.hook \in {0, 1} /\ t.thy \in {0, 1} /\ t.ledger \in {0, 1}
  BY DEF Honest, Edited
<1>8. PICK v : Fresh(v) /\ v.hook = t.hook /\ v.thy = t.thy /\ v.ledger = t.ledger
  BY <1>7, FreshExists
<1>9. Agrees(t, v, Edited)
  <2>1. Edited \subseteq Files /\ DOMAIN t = Files
    BY DEF Honest, Edited, Files, Protected
  <2>2. v.spec = 0 /\ v.token = 0 /\ v.base = 0
    BY <1>8 DEF Fresh
  <2> QED
    BY <1>6, <1>8, <2>1, <2>2 DEF Agrees, Edited
<1>10. Agrees(g[12], v, Built)
  BY <1>3, <1>4, <1>8, <1>9, FirstHalf
<1>11. {"out", "repro"} \subseteq Built /\ "manifest" \notin Built
  BY DEF Built, Edited
<1>12. Agrees(g[13], v, Built) /\ g[13].manifest.runtime = Runtime(v.out)
  <2>1. v.out # None /\ v.repro # None
    BY <1>8, FreshIsThere
  <2> QED
    BY <1>5, <1>10, <1>11, <2>1, ManifestIs
<1>13. PICK w : w = [f \in Files |-> IF f = "manifest" THEN g[13].manifest ELSE v[f]]
  OBVIOUS
<1>14. /\ w = [f \in Files |-> w[f]] /\ w.manifest = g[13].manifest
       /\ \A f \in Files \ {"manifest"} : w[f] = v[f]
  BY <1>13 DEF Files
<1>15. Fresh(w)
  BY <1>8, <1>12, <1>14, WithManifest
<1>16. Agrees(g[13], w, Built \cup {"manifest"})
  <2>1. "manifest" \in Files
    BY DEF Files
  <2> QED
    BY <1>11, <1>12, <1>14, <2>1 DEF Agrees
<1>17. Agrees(g[24], w, Files)
  BY <1>4, <1>15, <1>16, SecondHalf
<1>18. PICK last : last = Step(g[24], "manifest")
  OBVIOUS
<1>19. Agrees(last, w, Files \ {"manifest"}) /\ last.manifest.runtime = Runtime(w.out)
  <2>1. Agrees(g[24], w, Files \ {"manifest"})
    BY <1>17 DEF Agrees
  <2>2. {"out", "repro"} \subseteq Files \ {"manifest"} /\ "manifest" \notin Files \ {"manifest"}
    BY DEF Files, Protected
  <2>3. w.out # None /\ w.repro # None
    BY <1>15, FreshIsThere
  <2> QED
    BY <1>18, <2>1, <2>2, <2>3, ManifestIs
<1>20. last = [f \in Files |-> last[f]]
  <2>1. DOMAIN g[24] = Files
    BY <1>17 DEF Agrees
  <2> QED
    BY <1>18, <2>1 DEF Step, Applied
<1>21. Fresh(last)
  <2>1. \A f \in Files \ {"manifest"} : last[f] = w[f]
    BY <1>19 DEF Agrees
  <2> QED
    BY <1>15, <1>19, <1>20, <2>1, WithManifest
<1>22. last.manifest = Manifest(last)
  <2>1. last.manifest = Manifest(g[24])
    <3>1. g[24].out # None /\ g[24].repro # None
      BY <1>15, <1>17, FreshIsThere DEF Agrees, Files, Protected
    <3> QED
      BY <1>17, <1>18, <3>1, ManifestWritten DEF Agrees
  <2>2. \A f \in Files \ {"manifest"} : last[f] = g[24][f]
    BY <1>17, <1>19 DEF Agrees
  <2>3. last.out = g[24].out
    BY <2>2 DEF Files
  <2>4. \A f \in Protected : last[f] = g[24][f]
    BY <2>2 DEF Files, Protected
  <2> QED
    BY <2>1, <2>3, <2>4 DEF Manifest
<1>23. Accepts(last)
  BY <1>21, <1>22, FreshAccepted
<1> QED
  BY <1>1, <1>3, <1>5, <1>18, <1>23 DEF Refreshed

\* From whatever tree is reached, its sources being those the legacy campaigns ran
\* on, one pass of the commands in order ends in a tree that is accepted.
THEOREM RefreshIsAccepted == Spec => []RefreshAccepted
<1>1. Init => TreeInv
  BY InitHonest
<1>2. TreeInv /\ [Next]_vars => TreeInv'
  BY NextHonest
<1>3. TreeInv => RefreshAccepted
  BY RefreshedIsAccepted DEF TreeInv, RefreshAccepted
<1> QED
  BY <1>1, <1>2, <1>3, PTL DEF Spec
=============================================================================
