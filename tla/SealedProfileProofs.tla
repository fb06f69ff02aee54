------------------------ MODULE SealedProfileProofs ------------------------
(***************************************************************************)
(* What the adapters of the ERC-3643 profiles own is what the token        *)
(* enforces, for every set of holders, cases and commands and whatever the *)
(* token does in between.                                                  *)
(***************************************************************************)
EXTENDS SealedProfile, FiniteSums, SequenceTheorems

USE AccountAssumption, BalanceAssumption, TargetAssumption, FinitenessAssumption,
    CustodyAssumption
-----------------------------------------------------------------------------
(* The inductive invariant *)

\* The types of the variables.
ActionRecord ==
  [kind: {"FREEZE", "RESTRICT", "SEIZE", "DISPOSE"}, lifecycle: {"APPLIED", "REVERSED"},
   subject: Accounts, source: Accounts, destination: Accounts \cup {None}, amount: Nat,
   prior: Nat, priorFlag: BOOLEAN, case: Cases, parent: Nat]
CaseRecord ==
  [phase: {"NONE", "OPEN", "TERMINAL"},
   family: {"NONE", "FREEZE", "RESTRICT", "CUSTODY", "DISPOSITION"}, head: Nat]
OwnedRecord == [target: Nat, applied: Nat, restricted: BOOLEAN]

TokenOK ==
  /\ balance \in [Accounts -> Nat] /\ frozen \in [Accounts -> Nat]
  /\ restricted \in [Accounts -> BOOLEAN] /\ owned \in [Accounts -> OwnedRecord]
TypeOK ==
  /\ TokenOK
  /\ actions \in Seq(ActionRecord)
  /\ freezeHead \in [Accounts -> Nat] /\ restrictionHead \in [Accounts -> Nat]
  /\ cases \in [Cases -> CaseRecord]
  /\ custody \in [Cases -> Custody \cup {None}]
  /\ backing \in Nat

\* The effects in force on an account, and the one on top.
Live(kind, a) ==
  {i \in DOMAIN actions : /\ actions[i].kind = kind
                          /\ actions[i].lifecycle = "APPLIED"
                          /\ actions[i].subject = a}
HeadOf(kind, a) == IF kind = "FREEZE" THEN freezeHead[a] ELSE restrictionHead[a]

\* A head is in force, and an open case of its kind has the same head.
HeadMatches(kind, a) ==
  LET h == HeadOf(kind, a) IN
  h # NoHead => /\ h \in Live(kind, a)
                /\ cases[actions[h].case].phase = "OPEN"
                /\ cases[actions[h].case].family = kind
                /\ cases[actions[h].case].head = h
HeadsMatch == \A kind \in Family, a \in Accounts : HeadMatches(kind, a)

\* What the adapter owns is what the heads say.
OwnedMatches ==
  \A a \in Accounts :
    /\ owned[a].target = IF freezeHead[a] = NoHead THEN 0 ELSE actions[freezeHead[a]].amount
    /\ owned[a].restricted = (restrictionHead[a] # NoHead)

\* Freezes in force on an account lie between what they found and themselves,
\* one inside another's past, and found either nothing or one in force.
FreezesNest ==
  \A a \in Accounts : \A i \in Live("FREEZE", a) :
    /\ i <= freezeHead[a] /\ actions[i].parent < i
    /\ \A j \in Live("FREEZE", a) : j < i => j <= actions[i].parent
    /\ actions[i].parent = NoHead => actions[i].prior = 0
    /\ actions[i].parent # NoHead =>
         /\ actions[i].parent \in Live("FREEZE", a)
         /\ actions[actions[i].parent].amount = actions[i].prior
         /\ actions[actions[i].parent].case = actions[i].case

\* A restriction is never amended.
RestrictionsAlone ==
  \A a \in Accounts : \A i \in Live("RESTRICT", a) :
    /\ i = restrictionHead[a] /\ actions[i].parent = NoHead /\ ~ actions[i].priorFlag

\* Only an open case has a head, which is its own, and exactly the open
\* custody cases have custody.
CaseOwns(c) ==
  /\ cases[c].head # NoHead => /\ cases[c].phase = "OPEN"
                               /\ cases[c].head \in DOMAIN actions
                               /\ actions[cases[c].head].case = c
  /\ custody[c] # None <=> cases[c].phase = "OPEN" /\ cases[c].family = "CUSTODY"
CasesOwn == \A c \in Cases : CaseOwns(c)

\* Nothing is seized from the adapter, and nothing is not seized.
SeizedFromHolders ==
  \A i \in DOMAIN actions :
    actions[i].kind = "SEIZE" => actions[i].source # Adapter /\ actions[i].amount > 0

\* Before the seal the adapter owns nothing.
FreshBefore ==
  ~ sealed =>
    /\ owned = [a \in Accounts |-> [target |-> 0, applied |-> 0, restricted |-> FALSE]]
    /\ actions = <<>>
    /\ \A c \in Cases : /\ cases[c].phase = "NONE" /\ cases[c].head = NoHead
                        /\ custody[c] = None

\* The token never shows more frozen than there is.
FrozenWithin == \A a \in Accounts : frozen[a] <= balance[a]

\* Backing is the sum of custody and covered.
Backed ==
  /\ backing = SumFunctionOnSet([c \in Cases |-> Encumbered(c)], Cases)
  /\ backing <= balance[Adapter]

\* After the seal an account nobody disturbed shows what was applied, which is
\* at most the floor, and in the hook profile is the floor.
Floored(target, held) == IF target <= held THEN target ELSE held

Fine(a) ==
  /\ frozen[a] = owned[a].applied /\ restricted[a] = owned[a].restricted
  /\ frozen[a] <= Floored(owned[a].target, balance[a])
  /\ profile = "hook" => frozen[a] = Floored(owned[a].target, balance[a])
AllFine == sealed => \A a \in Accounts \ disturbed : Fine(a)

\* What every command keeps of the records, and everything together.
RecordsOK ==
  /\ HeadsMatch /\ OwnedMatches /\ FreezesNest /\ RestrictionsAlone
  /\ SeizedFromHolders
RecordsInv == RecordsOK /\ CasesOwn /\ Backed
ProfileInv == TypeOK /\ RecordsInv /\ FreshBefore /\ FrozenWithin /\ AllFine
-----------------------------------------------------------------------------
(* What the operators on the token do *)

\* The smaller of two amounts.
LEMMA MinPair ==
  ASSUME NEW m \in Nat, NEW n \in Nat
  PROVE  Min({m, n}) = IF m <= n THEN m ELSE n
<1> DEFINE least == IF m <= n THEN m ELSE n
<1>1. /\ least \in {m, n}
      /\ \A y \in {m, n} : least <= y
      /\ \A x \in {m, n} : (\A y \in {m, n} : x <= y) => x = least
  OBVIOUS
<1> HIDE DEF least
<1>2. (CHOOSE x \in {m, n} : \A y \in {m, n} : x <= y) = least
  BY <1>1
<1> QED
  BY <1>2 DEF Min, least

\* The excess of one amount over another, if any.
LEMMA MaxZero ==
  ASSUME NEW n \in Int PROVE Max({0, n}) = IF n >= 0 THEN n ELSE 0
<1> DEFINE most == IF n >= 0 THEN n ELSE 0
<1>1. /\ most \in {0, n}
      /\ \A y \in {0, n} : most >= y
      /\ \A x \in {0, n} : (\A y \in {0, n} : x >= y) => x = most
  OBVIOUS
<1> HIDE DEF most
<1>2. (CHOOSE x \in {0, n} : \A y \in {0, n} : x >= y) = most
  BY <1>1
<1> QED
  BY <1>2 DEF Max, most

\* What a transaction works on.
Units ==
  [balance: [Accounts -> Nat], frozen: [Accounts -> Nat],
   restricted: [Accounts -> BOOLEAN], owned: [Accounts -> OwnedRecord]]

\* Synchronising an account brings its frozen amount to the target, capped by
\* the balance, and touches nothing else.
Synced(v, u, a) ==
  /\ v \in Units /\ v.balance = u.balance /\ v.restricted = u.restricted
  /\ v.frozen[a] = Floored(u.owned[a].target, u.balance[a])
  /\ v.owned[a].applied = v.frozen[a]
  /\ v.owned[a].target = u.owned[a].target
  /\ v.owned[a].restricted = u.owned[a].restricted
  /\ \A b \in Accounts \ {a} : v.frozen[b] = u.frozen[b] /\ v.owned[b] = u.owned[b]

\* A call of _syncFrozen does just that.
LEMMA SyncIs ==
  ASSUME NEW u \in Units, NEW a \in Accounts
  PROVE  Synced(_syncFrozen(u, a), u, a)
<1> DEFINE e == Min({u.owned[a].target, u.balance[a]})
           w == [u EXCEPT !.frozen[a] = e]
           v == [w EXCEPT !.owned[a].applied = e]
<1>1. u.owned[a] \in OwnedRecord /\ u.balance[a] \in Nat
  BY DEF Units
<1>2. e = Floored(u.owned[a].target, u.balance[a]) /\ e \in Nat
  BY <1>1, MinPair DEF OwnedRecord, Floored
<1>3. _syncFrozen(u, a) = v
  BY DEF _syncFrozen, Units
<1> HIDE DEF e
<1>4. /\ w \in Units /\ w.balance = u.balance /\ w.restricted = u.restricted
      /\ w.owned = u.owned /\ w.frozen[a] = e
      /\ \A b \in Accounts \ {a} : w.frozen[b] = u.frozen[b]
  BY <1>2 DEF Units
<1> HIDE DEF w
<1>5. [w.owned[a] EXCEPT !.applied = e] \in OwnedRecord
  BY <1>1, <1>2, <1>4 DEF OwnedRecord
<1>6. /\ v \in Units /\ v.balance = w.balance /\ v.restricted = w.restricted
      /\ v.frozen = w.frozen
      /\ v.owned[a] = [w.owned[a] EXCEPT !.applied = e]
      /\ \A b \in Accounts \ {a} : v.owned[b] = w.owned[b]
  BY <1>4, <1>5 DEF Units
<1>7. /\ v.owned[a].applied = e /\ v.owned[a].target = u.owned[a].target
      /\ v.owned[a].restricted = u.owned[a].restricted
  BY <1>1, <1>4, <1>6 DEF OwnedRecord
<1> HIDE DEF v
<1> QED
  BY <1>2, <1>3, <1>4, <1>6, <1>7 DEF Synced

\* Between the token's move and the adapter's verification the balances have
\* moved, no target has, and only the two accounts were touched.
Loose(v, u, from, to, amount) ==
  /\ v \in Units /\ amount <= u.balance[from]
  /\ v.balance[from] = u.balance[from] - amount
  /\ v.balance[to] = u.balance[to] + amount
  /\ \A b \in Accounts : /\ v.owned[b].target = u.owned[b].target
                         /\ v.owned[b].restricted = u.owned[b].restricted
  /\ \A b \in Accounts \ {from, to} :
       /\ v.balance[b] = u.balance[b] /\ v.frozen[b] = u.frozen[b]
       /\ v.restricted[b] = u.restricted[b] /\ v.owned[b] = u.owned[b]

\* A plain move, ...
LEMMA MovedIsLoose ==
  ASSUME NEW u \in Units, NEW from \in Accounts, NEW to \in Accounts, from # to,
         NEW amount \in Nat, amount <= u.balance[from]
  PROVE  /\ Loose(Moved(u, from, to, amount), u, from, to, amount)
         /\ Moved(u, from, to, amount).frozen = u.frozen
         /\ Moved(u, from, to, amount).restricted = u.restricted
<1> DEFINE debited == [u.balance EXCEPT ![from] = u.balance[from] - amount]
           moved == [debited EXCEPT ![to] = u.balance[to] + amount]
           v == [u EXCEPT !.balance = moved]
<1>1. /\ u.balance \in [Accounts -> Nat] /\ u.balance[from] \in Nat
      /\ u.balance[to] \in Nat
  BY DEF Units
<1>2. debited \in [Accounts -> Nat] /\ u.balance[from] - amount \in Nat
  BY <1>1
<1>3. moved \in [Accounts -> Nat]
  <2> HIDE DEF debited
  <2> QED
    BY <1>1, <1>2
<1>4. /\ moved[from] = u.balance[from] - amount /\ moved[to] = u.balance[to] + amount
      /\ \A b \in Accounts \ {from, to} : moved[b] = u.balance[b]
  BY <1>1
<1>5. Moved(u, from, to, amount) = v
  BY DEF Moved, Units
<1> HIDE DEF moved, debited
<1>6. /\ v \in Units /\ v.balance = moved /\ v.frozen = u.frozen
      /\ v.restricted = u.restricted /\ v.owned = u.owned
  BY <1>3 DEF Units
<1> HIDE DEF v
<1> QED
  BY <1>4, <1>5, <1>6 DEF Loose

\* ... perhaps unfreezing the sender, ...
LEMMA UnfrozenIsLoose ==
  ASSUME NEW u, NEW from \in Accounts, NEW to, NEW amount, NEW n \in Nat,
         NEW v, Loose(v, u, from, to, amount), n <= v.frozen[from]
  PROVE  Loose([v EXCEPT !.frozen[from] = @ - n], u, from, to, amount)
<1> DEFINE f == [v.frozen EXCEPT ![from] = @ - n]
           w == [v EXCEPT !.frozen = f]
<1>1. v \in Units /\ v.frozen[from] - n \in Nat
  BY DEF Loose, Units
<1>2. f \in [Accounts -> Nat] /\ \A b \in Accounts \ {from} : f[b] = v.frozen[b]
  BY <1>1 DEF Units
<1>3. [v EXCEPT !.frozen[from] = @ - n] = w
  BY <1>1 DEF Units
<1> HIDE DEF f
<1>4. /\ w \in Units /\ w.balance = v.balance /\ w.frozen = f
      /\ w.restricted = v.restricted /\ w.owned = v.owned
  BY <1>1, <1>2 DEF Units
<1> HIDE DEF w
<1> QED
  BY <1>2, <1>3, <1>4 DEF Loose

\* ... losing an address freeze on the way, ...
LEMMA UnrestrictedIsLoose ==
  ASSUME NEW u, NEW from \in Accounts, NEW to \in Accounts, NEW amount,
         NEW v, Loose(v, u, from, to, amount), NEW a \in {from, to}
  PROVE  Loose([v EXCEPT !.restricted[a] = FALSE], u, from, to, amount)
<1> DEFINE r == [v.restricted EXCEPT ![a] = FALSE]
           w == [v EXCEPT !.restricted = r]
<1>1. v \in Units
  BY DEF Loose
<1>2. r \in [Accounts -> BOOLEAN] /\ \A b \in Accounts \ {a} : r[b] = v.restricted[b]
  BY <1>1 DEF Units
<1>3. [v EXCEPT !.restricted[a] = FALSE] = w
  BY <1>1 DEF Units
<1> HIDE DEF r
<1>4. /\ w \in Units /\ w.balance = v.balance /\ w.frozen = v.frozen
      /\ w.restricted = r /\ w.owned = v.owned
  BY <1>1, <1>2 DEF Units
<1> HIDE DEF w
<1> QED
  BY <1>2, <1>3, <1>4 DEF Loose

\* ... or synchronised.
LEMMA SyncedIsLoose ==
  ASSUME NEW u, NEW from \in Accounts, NEW to \in Accounts, NEW amount,
         NEW v, Loose(v, u, from, to, amount), NEW a \in {from, to}
  PROVE  Loose(_syncFrozen(v, a), u, from, to, amount)
<1>1. v \in Units
  BY DEF Loose
<1>2. PICK w : w = _syncFrozen(v, a)
  OBVIOUS
<1>3. Synced(w, v, a)
  BY <1>1, <1>2, SyncIs
<1>4. \A b \in Accounts : /\ w.owned[b].target = v.owned[b].target
                          /\ w.owned[b].restricted = v.owned[b].restricted
  BY <1>3 DEF Synced
<1>5. Loose(w, u, from, to, amount)
  BY <1>3, <1>4 DEF Loose, Synced
<1> QED
  BY <1>2, <1>5

\* Whatever the token does when told to transfer, other than nothing.
LEMMA OutcomesAreLoose ==
  ASSUME NEW u \in Units, NEW from \in Accounts, NEW to \in Accounts, from # to,
         NEW amount \in Nat, NEW w \in forcedTransferOutcomes(u, from, to, amount),
         w # u
  PROVE  Loose(w, u, from, to, amount)
<1> DEFINE moved == Moved(u, from, to, amount)
           short == Max({0, amount - (u.balance[from] - u.frozen[from])})
           unfrozen == [moved EXCEPT !.frozen[from] = @ - short]
           lost(v) == {v, [v EXCEPT !.restricted[from] = FALSE],
                          [v EXCEPT !.restricted[to] = FALSE]}
           Fits(v) == Loose(v, u, from, to, amount)
<1>1. /\ amount <= u.balance[from]
      /\ \E v \in lost(unfrozen) \cup lost(moved) : w = onTokenBalanceChanged(v, from, to)
  BY DEF forcedTransferOutcomes
<1>2. Fits(moved) /\ moved.frozen = u.frozen
  BY <1>1, MovedIsLoose
<1>3. short \in Nat /\ short <= moved.frozen[from]
  <2>1. /\ u.balance[from] \in Nat /\ u.frozen[from] \in Nat
        /\ moved.frozen[from] = u.frozen[from]
    BY <1>2 DEF Units
  <2>2. PICK n \in Int : n = amount - (u.balance[from] - u.frozen[from])
    BY <2>1
  <2>3. short = IF n >= 0 THEN n ELSE 0
    BY <2>2, MaxZero
  <2> HIDE DEF short, moved
  <2> QED
    BY <1>1, <2>1, <2>2, <2>3
<1> HIDE DEF moved, short
<1>4. Fits(unfrozen)
  BY <1>2, <1>3, UnfrozenIsLoose
<1> HIDE DEF unfrozen
<1>5. ASSUME NEW v, Fits(v), NEW t \in lost(v) PROVE Fits(t)
  <2>1. /\ Fits([v EXCEPT !.restricted[from] = FALSE])
        /\ Fits([v EXCEPT !.restricted[to] = FALSE])
    BY <1>5, UnrestrictedIsLoose
  <2> HIDE DEF Fits
  <2> QED
    BY <1>5, <2>1
<1>6. PICK v : Fits(v) /\ w = onTokenBalanceChanged(v, from, to)
  BY <1>1, <1>2, <1>4, <1>5
<1>7. CASE profile # "hook"
  BY <1>6, <1>7 DEF onTokenBalanceChanged
<1>8. CASE profile = "hook"
  <2>1. Fits(_syncFrozen(v, from))
    BY <1>6, SyncedIsLoose
  <2>2. Fits(_syncFrozen(_syncFrozen(v, from), to))
    BY <2>1, SyncedIsLoose
  <2> QED
    BY <1>6, <1>8, <2>2 DEF onTokenBalanceChanged
<1> QED
  BY <1>7, <1>8

\* What the adapter accepts of it: the move, both accounts at their targets and
\* with their address freezes, the others as they were.
Forced(v, u, from, to, amount) ==
  /\ Loose(v, u, from, to, amount)
  /\ \A a \in {from, to} :
       /\ v.frozen[a] = Floored(u.owned[a].target, v.balance[a])
       /\ v.owned[a].applied = v.frozen[a]
       /\ v.restricted[a] = u.owned[a].restricted

\* Whatever the token did, a forced transfer that passes the checks is this one.
LEMMA ForcedIs ==
  ASSUME NEW u \in Units, NEW from \in Accounts, NEW to \in Accounts, from # to,
         NEW amount \in Nat, amount > 0, NEW v \in _forcedTransfer(u, from, to, amount)
  PROVE  Forced(v, u, from, to, amount)
<1>1. PICK w \in forcedTransferOutcomes(u, from, to, amount) :
        /\ w.balance = Moved(u, from, to, amount).balance
        /\ v = _syncFrozen(_syncFrozen(w, from), to)
  BY DEF _forcedTransfer
<1>2. \A a \in {from, to} : v.restricted[a] = v.owned[a].restricted
  BY DEF _forcedTransfer
<1>3. w # u
  <2>1. u.balance \in [Accounts -> Nat] /\ u.balance[from] \in Nat
    BY DEF Units
  <2>2. Moved(u, from, to, amount).balance
          = [u.balance EXCEPT ![from] = u.balance[from] - amount,
                              ![to] = u.balance[to] + amount]
    BY DEF Moved, Units
  <2>3. Moved(u, from, to, amount).balance[from] = u.balance[from] - amount
    BY <2>1, <2>2
  <2>4. w.balance[from] = u.balance[from] - amount
    BY <1>1, <2>3
  <2> QED
    BY <2>1, <2>4
<1>4. Loose(w, u, from, to, amount)
  BY <1>3, OutcomesAreLoose
<1>5. PICK s : s = _syncFrozen(w, from)
  OBVIOUS
<1>6. /\ Loose(s, u, from, to, amount) /\ Synced(s, w, from)
      /\ w \in Units
  <2>1. w \in Units
    BY <1>4 DEF Loose
  <2>2. Synced(s, w, from)
    BY <1>5, <2>1, SyncIs
  <2>3. Loose(s, u, from, to, amount)
    BY <1>4, <1>5, SyncedIsLoose
  <2> QED
    BY <2>1, <2>2, <2>3
<1>7. v = _syncFrozen(s, to) /\ s \in Units
  BY <1>1, <1>5, <1>6 DEF Synced
<1>8. Loose(v, u, from, to, amount) /\ Synced(v, s, to)
  <2>1. Synced(v, s, to)
    BY <1>7, SyncIs
  <2>2. Loose(v, u, from, to, amount)
    BY <1>6, <1>7, SyncedIsLoose
  <2> QED
    BY <2>1, <2>2
<1>9. /\ v.balance = s.balance /\ s.balance = w.balance
      /\ v.frozen[to] = Floored(s.owned[to].target, v.balance[to])
      /\ v.owned[to].applied = v.frozen[to]
  BY <1>6, <1>8 DEF Synced
<1>10. /\ v.frozen[from] = s.frozen[from] /\ v.owned[from] = s.owned[from]
       /\ s.frozen[from] = Floored(w.owned[from].target, v.balance[from])
       /\ s.owned[from].applied = s.frozen[from]
  BY <1>6, <1>8, <1>9 DEF Synced
<1>11. \A a \in Accounts : /\ s.owned[a].target = u.owned[a].target
                           /\ w.owned[a].target = u.owned[a].target
                           /\ v.owned[a].restricted = u.owned[a].restricted
  BY <1>4, <1>6, <1>8 DEF Loose
<1> QED
  BY <1>2, <1>8, <1>9, <1>10, <1>11 DEF Forced
-----------------------------------------------------------------------------
(* What a transaction does to the token *)

\* The four variables are the unit a transaction works on.
LEMMA UnitIs ==
  ASSUME TokenOK
  PROVE  /\ Unit \in Units /\ Unit.balance = balance /\ Unit.frozen = frozen
         /\ Unit.restricted = restricted /\ Unit.owned = owned
BY DEF TokenOK, Units, Unit

\* What it leaves is well formed.
LEMMA BecomesOK ==
  ASSUME NEW v \in Units, Becomes(v)
  PROVE  TokenOK'
BY DEF TokenOK, Units, Becomes

\* An account gets another target and is synchronised.
Retargeted(a, t) ==
  /\ TokenOK' /\ balance' = balance /\ restricted' = restricted
  /\ frozen'[a] = Floored(t, balance[a])
  /\ owned'[a] = [target |-> t, applied |-> frozen'[a], restricted |-> owned[a].restricted]
  /\ \A b \in Accounts \ {a} : frozen'[b] = frozen[b] /\ owned'[b] = owned[b]

\* Freezing and unfreezing set a target and synchronise.
LEMMA RetargetIs ==
  ASSUME TokenOK, NEW a \in Accounts, NEW t \in Nat,
         Becomes(_syncFrozen([Unit EXCEPT !.owned[a].target = t], a))
  PROVE  Retargeted(a, t)
<1> DEFINE o == [owned EXCEPT ![a].target = t]
           w == [Unit EXCEPT !.owned = o]
<1>1. o \in [Accounts -> OwnedRecord] /\ o[a] = [owned[a] EXCEPT !.target = t]
  <2>1. [owned[a] EXCEPT !.target = t] \in OwnedRecord
    BY DEF TokenOK, OwnedRecord
  <2> QED
    BY <2>1 DEF TokenOK
<1>2. /\ o[a].target = t /\ o[a].restricted = owned[a].restricted
      /\ \A b \in Accounts \ {a} : o[b] = owned[b]
  BY <1>1 DEF TokenOK, OwnedRecord
<1>3. [Unit EXCEPT !.owned[a].target = t] = w
  BY DEF Unit
<1> HIDE DEF o
<1>4. /\ w \in Units /\ w.balance = balance /\ w.frozen = frozen
      /\ w.restricted = restricted /\ w.owned = o
  BY <1>1 DEF Unit, Units, TokenOK
<1> HIDE DEF w
<1>5. PICK v : v = _syncFrozen(w, a)
  OBVIOUS
<1>6. Synced(v, w, a) /\ Becomes(v)
  BY <1>3, <1>4, <1>5, SyncIs
<1>7. TokenOK' /\ v.owned[a] \in OwnedRecord
  BY <1>6, BecomesOK DEF Synced, Units
<1>8. v.owned[a] = [target |-> v.owned[a].target, applied |-> v.owned[a].applied,
                    restricted |-> v.owned[a].restricted]
  BY <1>7 DEF OwnedRecord
<1> QED
  BY <1>2, <1>4, <1>6, <1>7, <1>8 DEF Retargeted, Synced, Becomes

\* An account gets another address freeze.
Flagged(a, flag) ==
  /\ TokenOK' /\ balance' = balance /\ frozen' = frozen
  /\ restricted'[a] = flag
  /\ owned'[a] = [target |-> owned[a].target, applied |-> owned[a].applied,
                  restricted |-> flag]
  /\ \A b \in Accounts \ {a} : restricted'[b] = restricted[b] /\ owned'[b] = owned[b]

\* Restricting and unrestricting set an address freeze and the flag owned.
LEMMA FlagIs ==
  ASSUME TokenOK, NEW a \in Accounts, NEW flag \in BOOLEAN,
         Becomes(_setRestricted(Unit, a, flag))
  PROVE  Flagged(a, flag)
<1> DEFINE r == [restricted EXCEPT ![a] = flag]
           o == [owned EXCEPT ![a].restricted = flag]
           w == [Unit EXCEPT !.restricted = r]
           v == [w EXCEPT !.owned = o]
<1>1. /\ owned[a] \in OwnedRecord
      /\ [owned[a] EXCEPT !.restricted = flag] \in OwnedRecord
      /\ [owned[a] EXCEPT !.restricted = flag]
           = [target |-> owned[a].target, applied |-> owned[a].applied, restricted |-> flag]
  BY DEF TokenOK, OwnedRecord
<1>2. /\ o \in [Accounts -> OwnedRecord]
      /\ o[a] = [owned[a] EXCEPT !.restricted = flag]
      /\ \A b \in Accounts \ {a} : o[b] = owned[b]
  BY <1>1 DEF TokenOK
<1>3. /\ r \in [Accounts -> BOOLEAN] /\ r[a] = flag
      /\ \A b \in Accounts \ {a} : r[b] = restricted[b]
  BY DEF TokenOK
<1>4. _setRestricted(Unit, a, flag) = v
  BY DEF _setRestricted, Unit
<1> HIDE DEF r, o
<1>5. /\ v \in Units /\ v.balance = balance /\ v.frozen = frozen
      /\ v.restricted = r /\ v.owned = o
  BY <1>2, <1>3 DEF Unit, Units, TokenOK
<1> HIDE DEF v
<1>6. /\ TokenOK' /\ balance' = balance /\ frozen' = frozen
      /\ restricted' = r /\ owned' = o
  BY <1>4, <1>5, BecomesOK DEF Becomes
<1> QED
  BY <1>1, <1>2, <1>3, <1>6 DEF Flagged

\* An amount is moved by force.
Forcing(from, to, amount) ==
  /\ TokenOK' /\ amount <= balance[from]
  /\ balance'[from] = balance[from] - amount
  /\ balance'[to] = balance[to] + amount
  /\ \A b \in Accounts : /\ owned'[b].target = owned[b].target
                         /\ owned'[b].restricted = owned[b].restricted
  /\ \A b \in Accounts \ {from, to} :
       /\ balance'[b] = balance[b] /\ frozen'[b] = frozen[b]
       /\ restricted'[b] = restricted[b] /\ owned'[b] = owned[b]
  /\ \A b \in {from, to} :
       /\ frozen'[b] = Floored(owned[b].target, balance'[b])
       /\ owned'[b].applied = frozen'[b]
       /\ restricted'[b] = owned[b].restricted

\* Seizing, disposing and releasing move an amount by force.
LEMMA ForcingIs ==
  ASSUME TokenOK, NEW from \in Accounts, NEW to \in Accounts, from # to,
         NEW amount \in Nat, amount > 0,
         \E u \in _forcedTransfer(Unit, from, to, amount) : Becomes(u)
  PROVE  Forcing(from, to, amount)
<1>1. PICK v \in _forcedTransfer(Unit, from, to, amount) : Becomes(v)
  OBVIOUS
<1>2. PICK u \in Units : /\ u = Unit /\ u.balance = balance /\ u.frozen = frozen
                         /\ u.restricted = restricted /\ u.owned = owned
  BY UnitIs
<1>3. Forced(v, u, from, to, amount)
  BY <1>1, <1>2, ForcedIs
<1>4. TokenOK'
  BY <1>1, <1>3, BecomesOK DEF Forced, Loose
<1>5. /\ balance' = v.balance /\ frozen' = v.frozen
      /\ restricted' = v.restricted /\ owned' = v.owned
  BY <1>1 DEF Becomes
<1> QED
  BY <1>2, <1>3, <1>4, <1>5 DEF Forcing, Forced, Loose

\* The sum of the balances survives it.
LEMMA ForcingConserves ==
  ASSUME TokenOK, NEW from \in Accounts, NEW to \in Accounts, from # to,
         NEW amount \in Nat, Forcing(from, to, amount)
  PROVE  SumFunction(balance') = SumFunction(balance)
<1> DEFINE debited == [balance EXCEPT ![from] = @ - amount]
<1>1. /\ DOMAIN balance = Accounts /\ DOMAIN balance' = Accounts
      /\ \A b \in Accounts : balance[b] \in Int /\ balance'[b] \in Int
  BY DEF Forcing, TokenOK
<1>2. /\ debited[from] = balance[from] + (- amount)
      /\ \A b \in Accounts \ {from} : debited[b] = balance[b]
      /\ \A b \in Accounts : debited[b] \in Int
  BY <1>1
<1>3. /\ balance'[to] = debited[to] + amount
      /\ \A b \in Accounts \ {to} : balance'[b] = debited[b]
  BY <1>2, <1>1 DEF Forcing
<1>4. IsFiniteSet(Accounts)
  BY FS_Singleton, FS_Union DEF Accounts
<1> HIDE DEF debited
<1>5. SumFunctionOnSet(debited, Accounts) = SumFunctionOnSet(balance, Accounts) + (- amount)
  BY <1>1, <1>2, <1>4, SumAdded
<1>6. SumFunctionOnSet(balance', Accounts) = SumFunctionOnSet(debited, Accounts) + amount
  BY <1>2, <1>3, <1>4, SumAdded
<1>7. SumFunctionOnSet(balance, Accounts) \in Int
  BY <1>1, <1>4, SumType
<1> QED
  BY <1>1, <1>5, <1>6, <1>7 DEF SumFunction

\* A step that keeps to the accounts whose state the adapter owns, and leaves
\* them in a state it owns.
Untouched(a) ==
  /\ balance'[a] = balance[a] /\ frozen'[a] = frozen[a]
  /\ restricted'[a] = restricted[a] /\ owned'[a] = owned[a]
Settled(a) ==
  /\ frozen[a] = owned[a].applied /\ restricted[a] = owned[a].restricted
  /\ frozen'[a] = owned'[a].applied /\ restricted'[a] = owned'[a].restricted
  /\ \/ frozen'[a] = Floored(owned'[a].target, balance'[a])
     \/ /\ frozen'[a] = frozen[a] /\ balance'[a] = balance[a]
        /\ owned'[a].target = owned[a].target
Closes ==
  /\ TokenOK' /\ SumFunction(balance') = SumFunction(balance)
  /\ \A a \in Accounts : Untouched(a) \/ Settled(a)

\* So does a new target, ...
LEMMA RetargetCloses ==
  ASSUME TokenOK, NEW a \in Accounts, NEW t \in Nat, Retargeted(a, t),
         _requireOwnedUpstreamState(Unit, a)
  PROVE  Closes
<1>1. frozen[a] = owned[a].applied /\ restricted[a] = owned[a].restricted
  BY DEF _requireOwnedUpstreamState, Unit
<1>2. Settled(a)
  BY <1>1 DEF Retargeted, Settled
<1>3. \A b \in Accounts \ {a} : Untouched(b)
  BY DEF Retargeted, Untouched
<1>4. TokenOK' /\ SumFunction(balance') = SumFunction(balance)
  BY DEF Retargeted
<1> QED
  BY <1>2, <1>3, <1>4 DEF Closes

\* ... another address freeze ...
LEMMA FlagCloses ==
  ASSUME TokenOK, NEW a \in Accounts, NEW flag \in BOOLEAN, Flagged(a, flag),
         _requireOwnedUpstreamState(Unit, a)
  PROVE  Closes
<1>1. frozen[a] = owned[a].applied /\ restricted[a] = owned[a].restricted
  BY DEF _requireOwnedUpstreamState, Unit
<1>2. Settled(a)
  BY <1>1 DEF Flagged, Settled
<1>3. \A b \in Accounts \ {a} : Untouched(b)
  BY DEF Flagged, Untouched
<1>4. TokenOK' /\ SumFunction(balance') = SumFunction(balance)
  BY DEF Flagged
<1> QED
  BY <1>2, <1>3, <1>4 DEF Closes

\* ... and a move by force.
LEMMA ForcingCloses ==
  ASSUME TokenOK, NEW from \in Accounts, NEW to \in Accounts, from # to,
         NEW amount \in Nat, Forcing(from, to, amount),
         _requireOwnedUpstreamState(Unit, from), _requireOwnedUpstreamState(Unit, to)
  PROVE  Closes
<1>1. \A a \in {from, to} :
        frozen[a] = owned[a].applied /\ restricted[a] = owned[a].restricted
  BY DEF _requireOwnedUpstreamState, Unit
<1>2. \A a \in {from, to} : Settled(a)
  BY <1>1 DEF Forcing, Settled
<1>3. \A b \in Accounts \ {from, to} : Untouched(b)
  BY DEF Forcing, Untouched
<1>4. TokenOK' /\ SumFunction(balance') = SumFunction(balance)
  BY ForcingConserves DEF Forcing
<1> QED
  BY <1>2, <1>3, <1>4 DEF Closes

\* Such a step keeps the floor of every account.
LEMMA ClosingKeepsFloor ==
  ASSUME TokenOK, FrozenWithin, AllFine, Closes,
         profile' = profile, sealed' = sealed, disturbed' = disturbed
  PROVE  FrozenWithin' /\ AllFine'
<1> SUFFICES ASSUME NEW a \in Accounts
             PROVE  /\ frozen'[a] <= balance'[a]
                    /\ Fine(a) => Fine(a)'
  BY DEF FrozenWithin, AllFine
<1>1. /\ owned[a] \in OwnedRecord /\ balance[a] \in Nat /\ frozen[a] \in Nat
      /\ owned'[a] \in OwnedRecord /\ balance'[a] \in Nat /\ frozen'[a] \in Nat
      /\ frozen[a] <= balance[a]
  BY DEF TokenOK, Closes, FrozenWithin
<1>2. /\ owned[a].target \in Nat /\ owned'[a].target \in Nat
  BY <1>1 DEF OwnedRecord
<1>3. CASE Untouched(a)
  BY <1>1, <1>2, <1>3 DEF Untouched, Fine
<1>4. CASE Settled(a)
  BY <1>1, <1>2, <1>4 DEF Settled, Fine, Floored
<1> QED
  BY <1>3, <1>4 DEF Closes
-----------------------------------------------------------------------------
(* What a transaction does to the records *)

\* There are finitely many cases.
LEMMA CasesFinite == IsFiniteSet(Accounts) /\ IsFiniteSet(Cases)
<1>1. IsFiniteSet(Accounts)
  BY FS_Singleton, FS_Union DEF Accounts
<1>2. IsFiniteSet(Family)
  <2>1. Family = {"FREEZE"} \cup {"RESTRICT"}
    BY DEF Family
  <2> QED
    BY <2>1, FS_Singleton, FS_Union
<1> QED
  BY <1>1, <1>2, FS_Product, FS_Union DEF Cases

\* An action is recorded after the others, ...
Appends(rec) ==
  /\ actions' \in Seq(ActionRecord)
  /\ DOMAIN actions' = DOMAIN actions \cup {NextAction}
  /\ actions'[NextAction] = rec
  /\ \A i \in DOMAIN actions : actions'[i] = actions[i]

\* Appending to the log does that.
LEMMA AppendIs ==
  ASSUME TypeOK, NEW rec \in ActionRecord, actions' = Append(actions, rec)
  PROVE  Appends(rec)
BY DEF TypeOK, Appends, NextAction

\* ... which have the smaller numbers, ...
LEMMA Numbers ==
  ASSUME TypeOK
  PROVE  /\ NextAction \in Nat /\ NextAction # NoHead
         /\ \A i \in DOMAIN actions :
              /\ i \in Nat /\ i > 0 /\ i < NextAction /\ actions[i] \in ActionRecord
BY DEF TypeOK, NextAction, NoHead

\* ... or undone.
Reverses(i) ==
  /\ actions' \in Seq(ActionRecord) /\ DOMAIN actions' = DOMAIN actions
  /\ actions'[i].lifecycle = "REVERSED"
  /\ actions'[i].kind = actions[i].kind /\ actions'[i].case = actions[i].case
  /\ actions'[i].source = actions[i].source /\ actions'[i].amount = actions[i].amount
  /\ \A j \in DOMAIN actions \ {i} : actions'[j] = actions[j]

\* Marking an action reversed does that.
LEMMA ReverseIs ==
  ASSUME TypeOK, NEW i \in DOMAIN actions,
         actions' = [actions EXCEPT ![i].lifecycle = "REVERSED"]
  PROVE  Reverses(i)
<1>1. actions[i] \in ActionRecord
  BY Numbers
<1> DEFINE rec == [actions[i] EXCEPT !.lifecycle = "REVERSED"]
<1>2. /\ rec \in ActionRecord /\ rec.lifecycle = "REVERSED"
      /\ rec.kind = actions[i].kind /\ rec.case = actions[i].case
      /\ rec.source = actions[i].source /\ rec.amount = actions[i].amount
  BY <1>1 DEF ActionRecord
<1>3. actions' = [actions EXCEPT ![i] = rec]
  OBVIOUS
<1> HIDE DEF rec
<1>4. /\ actions' \in Seq(ActionRecord) /\ DOMAIN actions' = DOMAIN actions
      /\ actions'[i] = rec
      /\ \A j \in DOMAIN actions \ {i} : actions'[j] = actions[j]
  <2>1. actions \in Seq(ActionRecord) /\ i \in 1 .. Len(actions)
    BY DEF TypeOK
  <2>2. [actions EXCEPT ![i] = rec] \in Seq(ActionRecord)
    BY <1>2, <2>1, ExceptSeq
  <2> QED
    BY <1>3, <2>2
<1> QED
  BY <1>2, <1>4 DEF Reverses

\* What is in force afterwards: the new action too, ...
LEMMA LiveAppended ==
  ASSUME TypeOK, NEW rec, Appends(rec), rec.lifecycle = "APPLIED", NEW kind, NEW a
  PROVE  /\ \A i \in DOMAIN actions : i \in Live(kind, a)' <=> i \in Live(kind, a)
         /\ NextAction \in Live(kind, a)' <=> rec.kind = kind /\ rec.subject = a
         /\ Live(kind, a)' \subseteq DOMAIN actions \cup {NextAction}
BY DEF Appends, Live

\* ... or all but the one undone.
LEMMA LiveReversed ==
  ASSUME TypeOK, NEW i \in DOMAIN actions, Reverses(i), NEW kind, NEW a
  PROVE  /\ Live(kind, a)' = Live(kind, a) \ {i}
         /\ \A j \in Live(kind, a) \ {i} : actions'[j] = actions[j]
BY DEF Reverses, Live

\* A kind of effect a command has nothing to do with.
Leaves(kind) ==
  \A a \in Accounts :
    /\ HeadOf(kind, a)' = HeadOf(kind, a) /\ Live(kind, a)' = Live(kind, a)
    /\ \A i \in Live(kind, a) : actions'[i] = actions[i]

\* A new action leaves the effects of another kind, ...
LEMMA AppendLeaves ==
  ASSUME TypeOK, NEW rec, Appends(rec), rec.lifecycle = "APPLIED", NEW kind,
         rec.kind # kind, \A a \in Accounts : HeadOf(kind, a)' = HeadOf(kind, a)
  PROVE  Leaves(kind)
<1> SUFFICES ASSUME NEW a \in Accounts
             PROVE  /\ Live(kind, a)' = Live(kind, a)
                    /\ \A i \in Live(kind, a) : actions'[i] = actions[i]
  BY DEF Leaves
<1>1. /\ \A i \in DOMAIN actions : i \in Live(kind, a)' <=> i \in Live(kind, a)
      /\ NextAction \notin Live(kind, a)'
      /\ Live(kind, a)' \subseteq DOMAIN actions \cup {NextAction}
  BY LiveAppended
<1>2. Live(kind, a) \subseteq DOMAIN actions
  BY DEF Live
<1> QED
  BY <1>1, <1>2 DEF Appends

\* ... and so does a reversal.
LEMMA ReverseLeaves ==
  ASSUME TypeOK, NEW i \in DOMAIN actions, Reverses(i), NEW kind,
         actions[i].kind # kind, \A a \in Accounts : HeadOf(kind, a)' = HeadOf(kind, a)
  PROVE  Leaves(kind)
<1> SUFFICES ASSUME NEW a \in Accounts
             PROVE  /\ Live(kind, a)' = Live(kind, a)
                    /\ \A j \in Live(kind, a) : actions'[j] = actions[j]
  BY DEF Leaves
<1>1. i \notin Live(kind, a)
  BY DEF Live
<1> QED
  BY <1>1, LiveReversed

\* Freezes nobody touches stay nested, ...
LEMMA NestKept ==
  ASSUME FreezesNest, Leaves("FREEZE") PROVE FreezesNest'
<1> SUFFICES ASSUME NEW a \in Accounts, NEW i \in Live("FREEZE", a)'
             PROVE  /\ i <= freezeHead'[a] /\ actions'[i].parent < i
                    /\ \A j \in Live("FREEZE", a)' : j < i => j <= actions'[i].parent
                    /\ actions'[i].parent = NoHead => actions'[i].prior = 0
                    /\ actions'[i].parent # NoHead =>
                         /\ actions'[i].parent \in Live("FREEZE", a)'
                         /\ actions'[actions'[i].parent].amount = actions'[i].prior
                         /\ actions'[actions'[i].parent].case = actions'[i].case
  BY DEF FreezesNest
<1>1. /\ freezeHead'[a] = freezeHead[a] /\ Live("FREEZE", a)' = Live("FREEZE", a)
      /\ \A j \in Live("FREEZE", a) : actions'[j] = actions[j]
  BY DEF Leaves, HeadOf
<1> QED
  BY <1>1 DEF FreezesNest

\* ... and restrictions alone.
LEMMA AloneKept ==
  ASSUME RestrictionsAlone, Leaves("RESTRICT") PROVE RestrictionsAlone'
<1> SUFFICES ASSUME NEW a \in Accounts, NEW i \in Live("RESTRICT", a)'
             PROVE  /\ i = restrictionHead'[a] /\ actions'[i].parent = NoHead
                    /\ ~ actions'[i].priorFlag
  BY DEF RestrictionsAlone
<1>1. /\ restrictionHead'[a] = restrictionHead[a]
      /\ Live("RESTRICT", a)' = Live("RESTRICT", a)
      /\ actions'[i] = actions[i]
  BY DEF Leaves, HeadOf
<1> QED
  BY <1>1 DEF RestrictionsAlone

\* A head stays in force while its case does.
LEMMA HeadKept ==
  ASSUME NEW kind \in Family, NEW a \in Accounts, HeadMatches(kind, a), Leaves(kind),
         HeadOf(kind, a) # NoHead =>
           cases'[actions[HeadOf(kind, a)].case] = cases[actions[HeadOf(kind, a)].case]
  PROVE  HeadMatches(kind, a)'
BY DEF HeadMatches, Leaves

\* One case moves, and with it no head of a kind that is not the case's.
Moves(c) ==
  \A d \in Cases \ {c} : cases'[d] = cases[d] /\ custody'[d] = custody[d]

\* The heads of a kind that is not the moved case's stay heads of open cases.
LEMMA HeadsElsewhere ==
  ASSUME TypeOK, NEW kind \in Family, Leaves(kind), NEW c \in Cases, Moves(c),
         cases[c].phase # "OPEN" \/ cases[c].family # kind,
         NEW a \in Accounts, HeadMatches(kind, a)
  PROVE  HeadMatches(kind, a)'
<1> DEFINE h == HeadOf(kind, a)
<1>1. ASSUME h # NoHead PROVE cases'[actions[h].case] = cases[actions[h].case]
  <2>1. /\ h \in DOMAIN actions /\ actions[h].case \in Cases
        /\ cases[actions[h].case].phase = "OPEN" /\ cases[actions[h].case].family = kind
    BY <1>1, Numbers DEF HeadMatches, Live, ActionRecord
  <2> QED
    BY <2>1 DEF Moves
<1> QED
  BY <1>1, HeadKept

\* What the adapter owns still matches when neither changes.
LEMMA OwnedKept ==
  ASSUME HeadsMatch, OwnedMatches, Leaves("FREEZE"), Leaves("RESTRICT"),
         \A a \in Accounts : /\ owned'[a].target = owned[a].target
                             /\ owned'[a].restricted = owned[a].restricted
  PROVE  OwnedMatches'
<1> SUFFICES ASSUME NEW a \in Accounts
             PROVE  /\ owned'[a].target = IF freezeHead'[a] = NoHead THEN 0
                                          ELSE actions'[freezeHead'[a]].amount
                    /\ owned'[a].restricted = (restrictionHead'[a] # NoHead)
  BY DEF OwnedMatches
<1>1. HeadMatches("FREEZE", a)
  BY DEF HeadsMatch, Family
<1>2. freezeHead'[a] = freezeHead[a] /\ restrictionHead'[a] = restrictionHead[a]
  BY DEF Leaves, HeadOf
<1>3. freezeHead[a] # NoHead => actions'[freezeHead[a]] = actions[freezeHead[a]]
  BY <1>1 DEF HeadMatches, HeadOf, Leaves
<1> QED
  BY <1>2, <1>3 DEF OwnedMatches

\* A command on a case of neither kind keeps the overlays.
LEMMA OverlaysKept ==
  ASSUME TypeOK, RecordsOK, Leaves("FREEZE"), Leaves("RESTRICT"),
         NEW c \in Cases, Moves(c),
         cases[c].phase # "OPEN" \/ cases[c].family \notin Family,
         \A a \in Accounts : /\ owned'[a].target = owned[a].target
                             /\ owned'[a].restricted = owned[a].restricted
  PROVE  HeadsMatch' /\ OwnedMatches' /\ FreezesNest' /\ RestrictionsAlone'
<1>1. ASSUME NEW kind \in Family, NEW a \in Accounts PROVE HeadMatches(kind, a)'
  <2>1. Leaves(kind) /\ HeadMatches(kind, a)
    BY DEF Family, RecordsOK, HeadsMatch
  <2> QED
    BY <2>1, HeadsElsewhere
<1> QED
  BY <1>1, NestKept, AloneKept, OwnedKept DEF HeadsMatch, RecordsOK

\* A case that does not move owns what it owned.
LEMMA CasesKept ==
  ASSUME CasesOwn, NEW c \in Cases, Moves(c), CaseOwns(c)',
         \A i \in DOMAIN actions : i \in DOMAIN actions' /\ actions'[i].case = actions[i].case
  PROVE  CasesOwn'
BY DEF CasesOwn, CaseOwns, Moves

\* Changing what one case holds changes the sum by the difference.
LEMMA OneSummand ==
  ASSUME NEW f, \A d \in Cases : f[d] \in Int, NEW c \in Cases, NEW n \in Int, NEW g,
         g[c] = f[c] + n, \A d \in Cases \ {c} : g[d] = f[d]
  PROVE  SumFunctionOnSet(g, Cases) = SumFunctionOnSet(f, Cases) + n
<1>1. PICK S : S = Cases
  OBVIOUS
<1>2. SumFunctionOnSet(g, S) = SumFunctionOnSet(f, S) + n
  BY <1>1, CasesFinite, SumAdded
<1> QED
  BY <1>1, <1>2

\* Backing follows the custody of the case that moves.
LEMMA SumKept ==
  ASSUME TypeOK, NEW c \in Cases, Moves(c), NEW n \in Int,
         Encumbered(c)' = Encumbered(c) + n,
         backing = SumFunctionOnSet([d \in Cases |-> Encumbered(d)], Cases)
  PROVE  SumFunctionOnSet([d \in Cases |-> Encumbered(d)], Cases)' = backing + n
<1>1. \A d \in Cases : Encumbered(d) \in Int
  BY DEF TypeOK, Encumbered, Custody
<1>2. \A d \in Cases \ {c} : Encumbered(d)' = Encumbered(d)
  BY DEF Moves, Encumbered
<1>3. PICK f : f = [d \in Cases |-> Encumbered(d)]
  OBVIOUS
<1>4. PICK g : g = [d \in Cases |-> Encumbered(d)']
  OBVIOUS
<1>5. /\ \A d \in Cases : f[d] \in Int
      /\ g[c] = f[c] + n
      /\ \A d \in Cases \ {c} : g[d] = f[d]
  BY <1>1, <1>2, <1>3, <1>4
<1>6. SumFunctionOnSet(g, Cases) = SumFunctionOnSet(f, Cases) + n
  BY <1>5, OneSummand
<1> QED
  BY <1>3, <1>4, <1>6

\* When a case gives up its custody, backing gives up what it held.
LEMMA ReleasedSum ==
  ASSUME TypeOK, NEW c \in Cases, Moves(c), custody'[c] = None,
         backing = SumFunctionOnSet([d \in Cases |-> Encumbered(d)], Cases)
  PROVE  SumFunctionOnSet([d \in Cases |-> Encumbered(d)], Cases)' = backing - Encumbered(c)
<1>1. PICK e \in Int : e = Encumbered(c)
  BY DEF TypeOK, Encumbered, Custody
<1>2. Encumbered(c)' = Encumbered(c) + (- e) /\ - e \in Int
  BY <1>1 DEF Encumbered
<1>3. SumFunctionOnSet([d \in Cases |-> Encumbered(d)], Cases)' = backing + (- e)
  BY <1>2, SumKept
<1> QED
  BY <1>1, <1>3 DEF TypeOK

\* What opening, or amending, an overlay case writes, ...
LEMMA OpenIs ==
  ASSUME TypeOK, NEW c \in Cases, NEW family \in Family
  PROVE  LET u == _openOverlay(c, family) IN
         /\ u \in [Cases -> CaseRecord]
         /\ u[c].head = NextAction
         /\ u[c].family = IF cases[c].phase = "NONE" THEN family ELSE cases[c].family
         /\ u[c].phase = IF cases[c].phase = "NONE" THEN "OPEN" ELSE cases[c].phase
         /\ \A d \in Cases \ {c} : u[d] = cases[d]
<1> DEFINE k == cases[c]
           k1 == [k EXCEPT !.head = NextAction]
           k2 == [k1 EXCEPT !.family = IF k.phase = "NONE" THEN family ELSE @]
           k3 == [k2 EXCEPT !.phase = IF @ = "NONE" THEN "OPEN" ELSE @]
           u == [cases EXCEPT ![c] = k3]
<1>1. cases \in [Cases -> CaseRecord] /\ k \in CaseRecord /\ NextAction \in Nat
  BY Numbers DEF TypeOK
<1>2. /\ k1 \in CaseRecord /\ k1.head = NextAction /\ k1.family = k.family
      /\ k1.phase = k.phase
  BY <1>1 DEF CaseRecord
<1>3. _openOverlay(c, family) = u
  BY <1>1 DEF _openOverlay
<1> HIDE DEF k1
<1>4. /\ k2 \in CaseRecord /\ k2.head = NextAction /\ k2.phase = k.phase
      /\ k2.family = IF k.phase = "NONE" THEN family ELSE k.family
  BY <1>1, <1>2 DEF CaseRecord, Family
<1> HIDE DEF k2
<1>5. /\ k3 \in CaseRecord /\ k3.head = NextAction /\ k3.family = k2.family
      /\ k3.phase = IF k.phase = "NONE" THEN "OPEN" ELSE k.phase
  BY <1>1, <1>4 DEF CaseRecord
<1> HIDE DEF k3
<1>6. u \in [Cases -> CaseRecord] /\ u[c] = k3 /\ \A d \in Cases \ {c} : u[d] = cases[d]
  BY <1>1, <1>5
<1> HIDE DEF u
<1> QED
  BY <1>3, <1>4, <1>5, <1>6

\* ... and closing a case.
LEMMA CloseIs ==
  ASSUME TypeOK, NEW c \in Cases
  PROVE  LET u == _closeCase(c) IN
         /\ u \in [Cases -> CaseRecord]
         /\ u[c].head = NoHead /\ u[c].family = cases[c].family /\ u[c].phase = "TERMINAL"
         /\ \A d \in Cases \ {c} : u[d] = cases[d]
<1> DEFINE k == cases[c]
           k1 == [k EXCEPT !.phase = "TERMINAL"]
           k2 == [k1 EXCEPT !.head = NoHead]
           u == [cases EXCEPT ![c] = k2]
<1>1. cases \in [Cases -> CaseRecord] /\ k \in CaseRecord /\ NoHead \in Nat
  BY DEF TypeOK, NoHead
<1>2. /\ k1 \in CaseRecord /\ k1.head = k.head /\ k1.family = k.family
      /\ k1.phase = "TERMINAL"
  BY <1>1 DEF CaseRecord
<1>3. _closeCase(c) = u
  BY <1>1 DEF _closeCase
<1> HIDE DEF k1
<1>4. /\ k2 \in CaseRecord /\ k2.head = NoHead /\ k2.phase = "TERMINAL"
      /\ k2.family = k.family
  BY <1>1, <1>2 DEF CaseRecord
<1> HIDE DEF k2
<1>5. u \in [Cases -> CaseRecord] /\ u[c] = k2 /\ \A d \in Cases \ {c} : u[d] = cases[d]
  BY <1>1, <1>4
<1> HIDE DEF u
<1> QED
  BY <1>3, <1>4, <1>5

\* What a command records.
Recorded(rec, kind, subject, source, amount, c, parent) ==
  /\ rec \in ActionRecord /\ rec.kind = kind /\ rec.lifecycle = "APPLIED"
  /\ rec.subject = subject /\ rec.source = source /\ rec.amount = amount
  /\ rec.case = c /\ rec.parent = parent
  /\ rec.prior = (IF kind = "FREEZE" THEN owned[subject].target ELSE 0)
  /\ rec.priorFlag = (kind = "RESTRICT" /\ owned[subject].restricted)

\* Record does that.
LEMMA RecordIs ==
  ASSUME TypeOK, NEW kind \in {"FREEZE", "RESTRICT", "SEIZE", "DISPOSE"},
         NEW subject \in Accounts, NEW source \in Accounts,
         NEW destination \in Accounts \cup {None}, NEW amount \in Nat,
         NEW c \in Cases, NEW parent \in Nat
  PROVE  Recorded(Record(kind, subject, source, destination, amount, c, parent),
                  kind, subject, source, amount, c, parent)
<1>1. owned[subject].target \in Nat /\ owned[subject].restricted \in BOOLEAN
  BY DEF TypeOK, TokenOK, OwnedRecord
<1>2. PICK t \in Nat : t = IF kind = "FREEZE" THEN owned[subject].target ELSE 0
  BY <1>1
<1>3. PICK p \in BOOLEAN : p = (kind = "RESTRICT" /\ owned[subject].restricted)
  OBVIOUS
<1>4. Record(kind, subject, source, destination, amount, c, parent)
        = [kind |-> kind, lifecycle |-> "APPLIED", subject |-> subject,
           source |-> source, destination |-> destination, amount |-> amount,
           prior |-> t, priorFlag |-> p, case |-> c, parent |-> parent]
  BY <1>2, <1>3 DEF Record
<1> QED
  BY <1>2, <1>3, <1>4 DEF ActionRecord, Recorded
-----------------------------------------------------------------------------
(* The commands *)

\* A freeze, which opens a case or amends the freeze in force.
LEMMA FreezeKeeps ==
  ASSUME TypeOK, RecordsInv, NEW n, NEW a \in Accounts, NEW c \in Cases,
         NEW target \in Targets, Freeze(n, a, c, target)
  PROVE  Closes /\ TypeOK' /\ RecordsInv'
<1> DEFINE f == freezeHead[a]
           rec == Record("FREEZE", a, a, None, target, c, f)
<1> USE DEF NoHead
<1>1. TokenOK /\ target \in Nat /\ f \in Nat
  BY DEF TypeOK
<1>2. Retargeted(a, target)
  BY <1>1, RetargetIs DEF Freeze
<1>3. Closes /\ TokenOK'
  BY <1>1, <1>2, RetargetCloses DEF Freeze, Closes
<1>4. /\ rec \in ActionRecord /\ rec.kind = "FREEZE" /\ rec.lifecycle = "APPLIED"
      /\ rec.subject = a /\ rec.amount = target /\ rec.case = c /\ rec.parent = f
      /\ rec.prior = owned[a].target
  <2>1. Recorded(rec, "FREEZE", a, a, target, c, f)
    BY <1>1, RecordIs
  <2> QED
    BY <2>1 DEF Recorded
<1>5. actions' = Append(actions, rec)
  BY DEF Freeze
<1> HIDE DEF rec
<1>6. Appends(rec)
  BY <1>4, <1>5, AppendIs
<1>7. /\ freezeHead' \in [Accounts -> Nat] /\ freezeHead'[a] = NextAction
      /\ \A b \in Accounts \ {a} : freezeHead'[b] = freezeHead[b]
      /\ UNCHANGED <<restrictionHead, custody, backing>>
  BY Numbers DEF Freeze, TypeOK
<1>8. \A i \in DOMAIN actions : i \in Nat /\ i > 0 /\ i < NextAction
  BY Numbers
<1>9. f # 0 => /\ f \in Live("FREEZE", a) /\ actions[f].case = c
               /\ cases[c].head = f /\ cases[c].phase = "OPEN" /\ cases[c].family = "FREEZE"
  <2>1. HeadMatches("FREEZE", a) /\ CaseOwns(c)
    BY DEF RecordsInv, RecordsOK, HeadsMatch, CasesOwn, Family
  <2>2. f # 0 => cases[c].head = f
    BY DEF Freeze, _requireOverlayAdmissible
  <2> QED
    BY <2>1, <2>2 DEF HeadMatches, HeadOf, CaseOwns
<1>10. f = 0 => cases[c].phase = "NONE"
  BY DEF Freeze, _requireOverlayAdmissible
<1>11. /\ cases' \in [Cases -> CaseRecord] /\ Moves(c)
       /\ cases'[c].head = NextAction /\ cases'[c].family = "FREEZE"
       /\ cases'[c].phase = "OPEN"
  <2>1. cases' = _openOverlay(c, "FREEZE") /\ custody' = custody
    BY DEF Freeze
  <2>2. "FREEZE" \in Family
    BY DEF Family
  <2> QED
    BY <1>9, <1>10, <2>1, <2>2, OpenIs DEF Moves
<1>12. TypeOK'
  BY <1>3, <1>6, <1>7, <1>11 DEF TypeOK, Appends
<1>13. ASSUME NEW kind \in Family, NEW b \in Accounts PROVE HeadMatches(kind, b)'
  <2>1. CASE kind = "FREEZE" /\ b = a
    <3>1. NextAction \in Live("FREEZE", a)'
      BY <1>4, <1>6, LiveAppended
    <3>2. HeadOf(kind, b)' = NextAction
      BY <1>7, <2>1 DEF HeadOf
    <3> QED
      BY <1>4, <1>6, <1>11, <2>1, <3>1, <3>2 DEF HeadMatches, Appends
  <2>2. CASE kind # "FREEZE" \/ b # a
    <3> DEFINE h == HeadOf(kind, b)
    <3>1. HeadOf(kind, b)' = h
      BY <1>7, <2>2 DEF HeadOf, Family
    <3>2. HeadMatches(kind, b)
      BY DEF RecordsInv, RecordsOK, HeadsMatch
    <3>3. CASE h # 0
      <4>1. /\ h \in Live(kind, b) /\ h \in DOMAIN actions /\ actions[h].case \in Cases
            /\ actions[h].kind = kind /\ actions[h].subject = b
        BY <3>2, <3>3, Numbers DEF HeadMatches, Live, ActionRecord
      <4>2. actions[h].case # c
        <5>1. ASSUME actions[h].case = c PROVE FALSE
          <6>1. cases[c].phase = "OPEN" /\ cases[c].head = h
            BY <3>2, <3>3, <5>1 DEF HeadMatches
          <6>2. f = h
            BY <1>9, <1>10, <6>1
          <6> QED
            BY <1>9, <2>2, <3>3, <4>1, <6>2 DEF Live
        <5> QED
          BY <5>1
      <4>3. cases'[actions[h].case] = cases[actions[h].case]
        BY <1>11, <4>1, <4>2 DEF Moves
      <4>4. h \in Live(kind, b)' /\ actions'[h] = actions[h]
        BY <1>4, <1>6, <4>1, LiveAppended DEF Appends
      <4> QED
        BY <3>1, <3>2, <3>3, <4>3, <4>4 DEF HeadMatches
    <3> QED
      BY <3>1, <3>3 DEF HeadMatches
  <2> QED
    BY <2>1, <2>2
<1>14. ASSUME NEW b \in Accounts
       PROVE  /\ owned'[b].target
                   = IF freezeHead'[b] = 0 THEN 0 ELSE actions'[freezeHead'[b]].amount
              /\ owned'[b].restricted = (restrictionHead'[b] # 0)
  <2>1. CASE b = a
    BY <1>2, <1>4, <1>6, <1>7, <2>1, Numbers
       DEF Retargeted, Appends, RecordsInv, RecordsOK, OwnedMatches
  <2>2. CASE b # a
    <3>1. freezeHead[b] # 0 => freezeHead[b] \in DOMAIN actions
      BY DEF RecordsInv, RecordsOK, HeadsMatch, HeadMatches, HeadOf, Live, Family
    <3> QED
      BY <1>2, <1>6, <1>7, <2>2, <3>1
         DEF Retargeted, Appends, RecordsInv, RecordsOK, OwnedMatches
  <2> QED
    BY <2>1, <2>2
<1>15. FreezesNest'
  <2> SUFFICES ASSUME NEW b \in Accounts, NEW i \in Live("FREEZE", b)'
               PROVE  /\ i <= freezeHead'[b] /\ actions'[i].parent < i
                      /\ \A j \in Live("FREEZE", b)' : j < i => j <= actions'[i].parent
                      /\ actions'[i].parent = 0 => actions'[i].prior = 0
                      /\ actions'[i].parent # 0 =>
                           /\ actions'[i].parent \in Live("FREEZE", b)'
                           /\ actions'[actions'[i].parent].amount = actions'[i].prior
                           /\ actions'[actions'[i].parent].case = actions'[i].case
    BY DEF FreezesNest
  <2>1. /\ \A j \in DOMAIN actions : j \in Live("FREEZE", b)' <=> j \in Live("FREEZE", b)
        /\ NextAction \in Live("FREEZE", b)' <=> b = a
        /\ Live("FREEZE", b)' \subseteq DOMAIN actions \cup {NextAction}
    BY <1>4, <1>6, LiveAppended
  <2>2. Live("FREEZE", b) \subseteq DOMAIN actions
    BY DEF Live
  <2>3. \A j \in Live("FREEZE", b) : j <= freezeHead[b]
    BY DEF RecordsInv, RecordsOK, FreezesNest
  <2>4. CASE i = NextAction
    <3>1. b = a /\ actions'[i] = rec
      BY <1>6, <2>1, <2>4 DEF Appends
    <3>2. i <= freezeHead'[b] /\ actions'[i].parent < i
      BY <1>4, <1>7, <1>8, <1>9, <2>4, <3>1, Numbers DEF Live
    <3>3. \A j \in Live("FREEZE", b)' : j < i => j <= actions'[i].parent
      BY <1>4, <2>1, <2>3, <2>4, <3>1, Numbers
    <3>4. f = 0 => owned[a].target = 0
      BY DEF RecordsInv, RecordsOK, OwnedMatches
    <3>5. f # 0 => owned[a].target = actions[f].amount
      BY DEF RecordsInv, RecordsOK, OwnedMatches
    <3>6. f # 0 => /\ f \in Live("FREEZE", b)' /\ actions'[f] = actions[f]
      BY <1>6, <1>9, <2>1, <2>2, <3>1 DEF Appends
    <3> QED
      BY <1>4, <1>9, <3>1, <3>2, <3>3, <3>4, <3>5, <3>6
  <2>5. CASE i # NextAction
    <3>1. i \in DOMAIN actions /\ i \in Live("FREEZE", b) /\ actions'[i] = actions[i]
      BY <1>6, <2>1, <2>5 DEF Appends
    <3>2. /\ i <= freezeHead[b] /\ actions[i].parent < i
          /\ \A j \in Live("FREEZE", b) : j < i => j <= actions[i].parent
          /\ actions[i].parent = 0 => actions[i].prior = 0
          /\ actions[i].parent # 0 =>
               /\ actions[i].parent \in Live("FREEZE", b)
               /\ actions[actions[i].parent].amount = actions[i].prior
               /\ actions[actions[i].parent].case = actions[i].case
      BY <3>1 DEF RecordsInv, RecordsOK, FreezesNest
    <3>3. i <= freezeHead'[b]
      BY <1>7, <1>8, <3>1, <3>2, Numbers
    <3>4. \A j \in Live("FREEZE", b)' : j < i => j \in Live("FREEZE", b)
      BY <1>8, <2>1, <3>1, Numbers
    <3>5. actions[i].parent # 0 => /\ actions[i].parent \in Live("FREEZE", b)'
                                   /\ actions'[actions[i].parent] = actions[actions[i].parent]
      BY <1>6, <2>1, <2>2, <3>2 DEF Appends
    <3> QED
      BY <3>1, <3>2, <3>3, <3>4, <3>5
  <2> QED
    BY <2>4, <2>5
<1>16. RestrictionsAlone'
  <2>1. \A b \in Accounts : HeadOf("RESTRICT", b)' = HeadOf("RESTRICT", b)
    BY <1>7 DEF HeadOf
  <2>2. Leaves("RESTRICT")
    BY <1>4, <1>6, <2>1, AppendLeaves
  <2> QED
    BY <2>2, AloneKept DEF RecordsInv, RecordsOK
<1>17. SeizedFromHolders'
  BY <1>4, <1>6 DEF SeizedFromHolders, Appends, RecordsInv, RecordsOK
<1>18. CasesOwn'
  <2>1. CaseOwns(c)
    BY DEF RecordsInv, CasesOwn
  <2>2. custody[c] = None
    BY <1>9, <1>10, <2>1 DEF CaseOwns
  <2>3. CaseOwns(c)'
    BY <1>4, <1>6, <1>7, <1>11, <2>2, Numbers DEF CaseOwns, Appends
  <2>4. \A i \in DOMAIN actions : i \in DOMAIN actions' /\ actions'[i].case = actions[i].case
    BY <1>6 DEF Appends
  <2> QED
    BY <1>11, <2>3, <2>4, CasesKept DEF RecordsInv
<1>19. Backed'
  BY <1>2, <1>7 DEF Retargeted, Backed, Encumbered, RecordsInv
<1> QED
  BY <1>3, <1>12, <1>13, <1>14, <1>15, <1>16, <1>17, <1>18, <1>19
     DEF RecordsInv, RecordsOK, HeadsMatch, OwnedMatches

\* A restriction, of an account that has none.
LEMMA RestrictKeeps ==
  ASSUME TypeOK, RecordsInv, NEW n, NEW a \in Accounts, NEW c \in Cases,
         RestrictAddress(n, a, c)
  PROVE  Closes /\ TypeOK' /\ RecordsInv'
<1> DEFINE rec == Record("RESTRICT", a, a, None, 0, c, NoHead)
<1> USE DEF NoHead
<1>1. TokenOK
  BY DEF TypeOK
<1>2. Flagged(a, TRUE)
  BY <1>1, FlagIs DEF RestrictAddress
<1>3. Closes /\ TokenOK'
  BY <1>1, <1>2, FlagCloses DEF RestrictAddress, Closes
<1>4. /\ restrictionHead[a] = 0 /\ ~ owned[a].restricted /\ cases[c].phase = "NONE"
  BY DEF RestrictAddress, _requireOverlayAdmissible, RecordsInv, RecordsOK, OwnedMatches
<1>5. /\ rec \in ActionRecord /\ rec.kind = "RESTRICT" /\ rec.lifecycle = "APPLIED"
      /\ rec.subject = a /\ rec.case = c /\ rec.parent = 0 /\ ~ rec.priorFlag
  <2>1. Recorded(rec, "RESTRICT", a, a, 0, c, 0)
    BY <1>1, RecordIs
  <2> QED
    BY <1>4, <2>1 DEF Recorded
<1>6. actions' = Append(actions, rec)
  BY DEF RestrictAddress
<1> HIDE DEF rec
<1>7. Appends(rec)
  BY <1>5, <1>6, AppendIs
<1>8. /\ restrictionHead' \in [Accounts -> Nat] /\ restrictionHead'[a] = NextAction
      /\ \A b \in Accounts \ {a} : restrictionHead'[b] = restrictionHead[b]
      /\ UNCHANGED <<freezeHead, custody, backing>>
  BY Numbers DEF RestrictAddress, TypeOK
<1>9. \A i \in DOMAIN actions : i \in Nat /\ i > 0 /\ i < NextAction
  BY Numbers
<1>10. /\ cases' \in [Cases -> CaseRecord] /\ Moves(c)
       /\ cases'[c].head = NextAction /\ cases'[c].family = "RESTRICT"
       /\ cases'[c].phase = "OPEN"
  <2>1. cases' = _openOverlay(c, "RESTRICT") /\ custody' = custody
    BY DEF RestrictAddress
  <2>2. "RESTRICT" \in Family
    BY DEF Family
  <2> QED
    BY <1>4, <2>1, <2>2, OpenIs DEF Moves
<1>11. TypeOK'
  BY <1>3, <1>7, <1>8, <1>10 DEF TypeOK, Appends
<1>12. Leaves("FREEZE")
  <2>1. \A b \in Accounts : HeadOf("FREEZE", b)' = HeadOf("FREEZE", b)
    BY <1>8 DEF HeadOf
  <2> QED
    BY <1>5, <1>7, <2>1, AppendLeaves
<1>13. ASSUME NEW b \in Accounts
       PROVE  /\ \A j \in DOMAIN actions :
                   j \in Live("RESTRICT", b)' <=> j \in Live("RESTRICT", b)
              /\ NextAction \in Live("RESTRICT", b)' <=> b = a
              /\ Live("RESTRICT", b)' \subseteq DOMAIN actions \cup {NextAction}
              /\ Live("RESTRICT", b) \subseteq DOMAIN actions
              /\ \A j \in Live("RESTRICT", b) : actions'[j] = actions[j]
  BY <1>5, <1>7, LiveAppended DEF Live, Appends
<1>14. ASSUME NEW kind \in Family, NEW b \in Accounts PROVE HeadMatches(kind, b)'
  <2>1. HeadMatches(kind, b)
    BY DEF RecordsInv, RecordsOK, HeadsMatch
  <2>2. CASE kind = "FREEZE"
    BY <1>4, <1>10, <1>12, <2>1, <2>2, HeadsElsewhere
  <2>3. CASE kind = "RESTRICT" /\ b = a
    <3>1. NextAction \in Live("RESTRICT", a)'
      BY <1>13
    <3>2. HeadOf(kind, b)' = NextAction
      BY <1>8, <2>3 DEF HeadOf
    <3> QED
      BY <1>5, <1>7, <1>10, <2>3, <3>1, <3>2 DEF HeadMatches, Appends
  <2>4. CASE kind = "RESTRICT" /\ b # a
    <3> DEFINE h == restrictionHead[b]
    <3>1. HeadOf(kind, b)' = h /\ HeadOf(kind, b) = h
      BY <1>8, <2>4 DEF HeadOf
    <3>2. CASE h # 0
      <4>1. /\ h \in Live("RESTRICT", b) /\ h \in DOMAIN actions
            /\ actions[h].case \in Cases /\ actions[h].case # c
        BY <1>4, <2>1, <2>4, <3>1, <3>2, Numbers DEF HeadMatches, Live, ActionRecord
      <4>2. cases'[actions[h].case] = cases[actions[h].case]
        BY <1>10, <4>1 DEF Moves
      <4>3. h \in Live("RESTRICT", b)' /\ actions'[h] = actions[h]
        BY <1>13, <4>1
      <4> QED
        BY <2>1, <2>4, <3>1, <3>2, <4>2, <4>3 DEF HeadMatches
    <3> QED
      BY <3>1, <3>2 DEF HeadMatches
  <2> QED
    BY <2>2, <2>3, <2>4 DEF Family
<1>15. ASSUME NEW b \in Accounts
       PROVE  /\ owned'[b].target
                   = IF freezeHead'[b] = 0 THEN 0 ELSE actions'[freezeHead'[b]].amount
              /\ owned'[b].restricted = (restrictionHead'[b] # 0)
  <2>1. freezeHead[b] # 0 => freezeHead[b] \in DOMAIN actions
    BY DEF RecordsInv, RecordsOK, HeadsMatch, HeadMatches, HeadOf, Live, Family
  <2>2. /\ owned[b].target = IF freezeHead[b] = 0 THEN 0 ELSE actions[freezeHead[b]].amount
        /\ owned[b].restricted = (restrictionHead[b] # 0)
    BY DEF RecordsInv, RecordsOK, OwnedMatches
  <2>3. owned'[b].target = owned[b].target
    BY <1>2 DEF Flagged
  <2>4. owned'[b].restricted = (restrictionHead'[b] # 0)
    <3>1. CASE b = a
      <4>1. owned'[b].restricted = TRUE
        BY <1>2, <3>1 DEF Flagged
      <4> QED
        BY <1>8, <3>1, <4>1, Numbers
    <3>2. CASE b # a
      BY <1>2, <1>8, <2>2, <3>2 DEF Flagged
    <3> QED
      BY <3>1, <3>2
  <2> QED
    BY <1>7, <1>8, <2>1, <2>2, <2>3, <2>4 DEF Appends
<1>16. RestrictionsAlone'
  <2> SUFFICES ASSUME NEW b \in Accounts, NEW i \in Live("RESTRICT", b)'
               PROVE  /\ i = restrictionHead'[b] /\ actions'[i].parent = 0
                      /\ ~ actions'[i].priorFlag
    BY DEF RestrictionsAlone
  <2>1. \A j \in Live("RESTRICT", b) :
          /\ j = restrictionHead[b] /\ actions[j].parent = 0 /\ ~ actions[j].priorFlag
    BY DEF RecordsInv, RecordsOK, RestrictionsAlone
  <2>2. CASE i = NextAction
    BY <1>5, <1>7, <1>8, <1>13, <2>2 DEF Appends
  <2>3. CASE i # NextAction
    <3>1. i \in Live("RESTRICT", b) /\ actions'[i] = actions[i] /\ i > 0
      BY <1>9, <1>13, <2>3
    <3> QED
      BY <1>4, <1>8, <2>1, <3>1
  <2> QED
    BY <2>2, <2>3
<1>17. SeizedFromHolders'
  BY <1>5, <1>7 DEF SeizedFromHolders, Appends, RecordsInv, RecordsOK
<1>18. CasesOwn'
  <2>1. custody[c] = None
    BY <1>4 DEF CaseOwns, RecordsInv, CasesOwn
  <2>2. CaseOwns(c)'
    BY <1>5, <1>7, <1>8, <1>10, <2>1, Numbers DEF CaseOwns, Appends
  <2>3. \A i \in DOMAIN actions : i \in DOMAIN actions' /\ actions'[i].case = actions[i].case
    BY <1>7 DEF Appends
  <2> QED
    BY <1>10, <2>2, <2>3, CasesKept DEF RecordsInv
<1>19. Backed'
  BY <1>2, <1>8 DEF Flagged, Backed, Encumbered, RecordsInv
<1> QED
  BY <1>3, <1>11, <1>12, <1>14, <1>15, <1>16, <1>17, <1>18, <1>19, NestKept
     DEF RecordsInv, RecordsOK, HeadsMatch, OwnedMatches

\* A seizure.
LEMMA SeizeKeeps ==
  ASSUME TypeOK, RecordsInv, NEW n, NEW a \in Accounts, NEW c \in Cases,
         NEW amount \in Nat, Seize(n, a, c, amount)
  PROVE  Closes /\ TypeOK' /\ RecordsInv'
<1> DEFINE rec == Record("SEIZE", a, a, Adapter, amount, c, NoHead)
           held == [prior |-> a, amount |-> amount, action |-> NextAction]
<1> USE DEF NoHead
<1>1. TokenOK /\ a # Adapter /\ amount > 0 /\ cases[c].phase = "NONE" /\ Adapter \in Accounts
  BY DEF TypeOK, Seize, Accounts
<1>2. Forcing(a, Adapter, amount)
  BY <1>1, ForcingIs DEF Seize
<1>3. Closes /\ TokenOK'
  <2>1. _requireOwnedUpstreamState(Unit, a) /\ _requireOwnedUpstreamState(Unit, Adapter)
    BY DEF Seize
  <2> QED
    BY <1>1, <1>2, <2>1, ForcingCloses DEF Closes
<1>4. /\ rec \in ActionRecord /\ rec.kind = "SEIZE" /\ rec.lifecycle = "APPLIED"
      /\ rec.source = a /\ rec.amount = amount /\ rec.case = c
  <2>1. Recorded(rec, "SEIZE", a, a, amount, c, 0)
    BY <1>1, RecordIs
  <2> QED
    BY <2>1 DEF Recorded
<1>5. actions' = Append(actions, rec)
  BY DEF Seize
<1> HIDE DEF rec
<1>6. Appends(rec)
  BY <1>4, <1>5, AppendIs
<1>7. Leaves("FREEZE") /\ Leaves("RESTRICT")
  <2>1. \A kind, b : HeadOf(kind, b)' = HeadOf(kind, b)
    BY DEF Seize, HeadOf
  <2> QED
    BY <1>4, <1>6, <2>1, AppendLeaves
<1>8. held \in Custody /\ held.amount = amount /\ held # None
  <2>1. held \in Custody /\ held.amount = amount
    BY Numbers DEF Custody
  <2> QED
    BY <2>1
<1>9. custody' = [custody EXCEPT ![c] = held] /\ backing' = backing + amount
  BY DEF Seize
<1> HIDE DEF held
<1>10. /\ cases' \in [Cases -> CaseRecord] /\ Moves(c)
       /\ cases'[c].head = NextAction /\ cases'[c].family = "CUSTODY"
       /\ cases'[c].phase = "OPEN"
       /\ custody' \in [Cases -> Custody \cup {None}] /\ custody'[c] = held
  <2>1. PICK k : k = [phase |-> "OPEN", family |-> "CUSTODY", head |-> NextAction]
    OBVIOUS
  <2>2. k \in CaseRecord /\ k.head = NextAction /\ k.family = "CUSTODY" /\ k.phase = "OPEN"
    BY <2>1, Numbers DEF CaseRecord
  <2>3. cases' = [cases EXCEPT ![c] = k]
    BY <2>1 DEF Seize
  <2> QED
    BY <1>8, <1>9, <2>2, <2>3 DEF TypeOK, Moves
<1>11. TypeOK'
  BY <1>3, <1>6, <1>9, <1>10 DEF TypeOK, Appends, Seize
<1>12. HeadsMatch' /\ OwnedMatches' /\ FreezesNest' /\ RestrictionsAlone'
  <2>1. \A b \in Accounts : /\ owned'[b].target = owned[b].target
                            /\ owned'[b].restricted = owned[b].restricted
    BY <1>2 DEF Forcing
  <2> QED
    BY <1>1, <1>7, <1>10, <2>1, OverlaysKept DEF RecordsInv
<1>13. SeizedFromHolders'
  BY <1>1, <1>4, <1>6 DEF SeizedFromHolders, Appends, RecordsInv, RecordsOK
<1>14. custody[c] = None
  BY <1>1 DEF CaseOwns, RecordsInv, CasesOwn
<1>15. CasesOwn'
  <2>1. CaseOwns(c)'
    BY <1>4, <1>6, <1>8, <1>10, Numbers DEF CaseOwns, Appends
  <2>2. \A i \in DOMAIN actions : i \in DOMAIN actions' /\ actions'[i].case = actions[i].case
    BY <1>6 DEF Appends
  <2> QED
    BY <1>10, <2>1, <2>2, CasesKept DEF RecordsInv
<1>16. Backed'
  <2>1. Encumbered(c) = 0 /\ Encumbered(c)' = amount
    BY <1>8, <1>10, <1>14 DEF Encumbered
  <2>2. SumFunctionOnSet([d \in Cases |-> Encumbered(d)], Cases)' = backing + amount
    BY <1>10, <2>1, SumKept DEF RecordsInv, Backed
  <2>3. backing' <= balance'[Adapter]
    BY <1>1, <1>2, <1>9 DEF Forcing, RecordsInv, Backed, TypeOK, TokenOK
  <2> QED
    BY <1>9, <2>2, <2>3 DEF Backed
<1> QED
  BY <1>3, <1>11, <1>12, <1>13, <1>15, <1>16 DEF RecordsInv, RecordsOK

\* A disposition, direct or out of custody.
LEMMA DisposeKeeps ==
  ASSUME TypeOK, RecordsInv, NEW n, NEW subject \in Accounts, NEW source \in Accounts,
         NEW to \in Accounts, NEW c \in Cases, NEW amount \in Nat, NEW entitlement,
         Dispose(n, subject, source, to, c, amount, entitlement)
  PROVE  Closes /\ TypeOK' /\ RecordsInv'
<1> DEFINE rec == Record("DISPOSE", subject, source, to, amount, c, NoHead)
<1> USE DEF NoHead
<1>1. TokenOK /\ source # to /\ amount > 0 /\ Adapter \in Accounts
  BY DEF TypeOK, Dispose, Accounts
<1>2. Forcing(source, to, amount)
  BY <1>1, ForcingIs DEF Dispose
<1>3. Closes /\ TokenOK'
  <2>1. _requireOwnedUpstreamState(Unit, source) /\ _requireOwnedUpstreamState(Unit, to)
    BY DEF Dispose
  <2> QED
    BY <1>1, <1>2, <2>1, ForcingCloses DEF Closes
<1>4. /\ rec \in ActionRecord /\ rec.kind = "DISPOSE" /\ rec.lifecycle = "APPLIED"
      /\ rec.case = c
  <2>1. Recorded(rec, "DISPOSE", subject, source, amount, c, 0)
    BY <1>1, RecordIs
  <2> QED
    BY <2>1 DEF Recorded
<1>5. actions' = Append(actions, rec)
  BY DEF Dispose
<1> HIDE DEF rec
<1>6. Appends(rec)
  BY <1>4, <1>5, AppendIs
<1>7. Leaves("FREEZE") /\ Leaves("RESTRICT")
  <2>1. \A kind, b : HeadOf(kind, b)' = HeadOf(kind, b)
    BY DEF Dispose, HeadOf
  <2> QED
    BY <1>4, <1>6, <2>1, AppendLeaves
<1>8. CaseOwns(c)
  BY DEF RecordsInv, CasesOwn
<1>9. /\ cases[c].phase # "OPEN" \/ cases[c].family = "CUSTODY"
      /\ cases[c].phase # "TERMINAL"
  BY DEF Dispose
<1>10. /\ custody' \in [Cases -> Custody \cup {None}] /\ custody'[c] = None
       /\ backing' \in Nat
       /\ \A d \in Cases \ {c} : custody'[d] = custody[d]
       /\ backing' = backing - Encumbered(c)
       /\ backing' <= balance'[Adapter]
  <2>1. CASE _consumeMatchingCustody(c, subject, source, amount)
    <3>1. /\ source = Adapter /\ custody[c] # None /\ custody[c].amount = amount
          /\ backing >= amount
          /\ custody' = [custody EXCEPT ![c] = None] /\ backing' = backing - amount
      BY <2>1 DEF _consumeMatchingCustody
    <3>2. Encumbered(c) = amount
      BY <3>1 DEF Encumbered
    <3>3. balance'[Adapter] = balance[Adapter] - amount
      BY <1>2, <3>1 DEF Forcing
    <3>4. backing \in Nat /\ balance[Adapter] \in Nat /\ backing <= balance[Adapter]
      BY <1>1 DEF TypeOK, TokenOK, RecordsInv, Backed
    <3>5. custody' \in [Cases -> Custody \cup {None}] /\ custody'[c] = None
      BY <3>1 DEF TypeOK
    <3> QED
      BY <3>1, <3>2, <3>3, <3>4, <3>5
  <2>2. CASE /\ custody[c] = None /\ _requireUnbacked(source, amount)
             /\ UNCHANGED <<custody, backing>>
    <3>1. Encumbered(c) = 0
      BY <2>2 DEF Encumbered
    <3>2. backing \in Nat /\ balance[Adapter] \in Nat /\ backing <= balance[Adapter]
      BY <1>1 DEF TypeOK, TokenOK, RecordsInv, Backed
    <3>3. source = Adapter => amount <= balance[Adapter] - backing
      BY <2>2 DEF _requireUnbacked
    <3>4. backing <= balance'[Adapter]
      <4>1. CASE source = Adapter
        BY <1>2, <3>2, <3>3, <4>1 DEF Forcing
      <4>2. CASE source # Adapter /\ to = Adapter
        BY <1>2, <3>2, <4>2 DEF Forcing
      <4>3. CASE source # Adapter /\ to # Adapter
        BY <1>1, <1>2, <3>2, <4>3 DEF Forcing
      <4> QED
        BY <4>1, <4>2, <4>3
    <3> QED
      BY <2>2, <3>1, <3>2, <3>4 DEF TypeOK
  <2> QED
    BY <2>1, <2>2 DEF Dispose
<1>11. /\ cases' \in [Cases -> CaseRecord]
       /\ cases'[c].head = 0 /\ cases'[c].phase = "TERMINAL"
       /\ \A d \in Cases \ {c} : cases'[d] = cases[d]
  <2>1. PICK u : u = _closeCase(c)
    OBVIOUS
  <2>2. /\ u \in [Cases -> CaseRecord] /\ u[c] \in CaseRecord
        /\ u[c].head = 0 /\ u[c].phase = "TERMINAL"
        /\ \A d \in Cases \ {c} : u[d] = cases[d]
    BY <2>1, CloseIs
  <2>3. PICK family : family = IF custody[c] = None THEN "DISPOSITION" ELSE u[c].family
    OBVIOUS
  <2>4. PICK k : k = [u[c] EXCEPT !.family = family]
    OBVIOUS
  <2>5. k \in CaseRecord /\ k.head = 0 /\ k.phase = "TERMINAL"
    BY <2>2, <2>3, <2>4 DEF CaseRecord
  <2>6. cases' = [u EXCEPT ![c] = k]
    BY <2>1, <2>2, <2>3, <2>4 DEF Dispose
  <2> QED
    BY <2>2, <2>5, <2>6
<1>12. Moves(c)
  BY <1>10, <1>11 DEF Moves
<1>13. TypeOK'
  BY <1>3, <1>6, <1>10, <1>11 DEF TypeOK, Appends, Dispose
<1>14. HeadsMatch' /\ OwnedMatches' /\ FreezesNest' /\ RestrictionsAlone'
  <2>1. \A b \in Accounts : /\ owned'[b].target = owned[b].target
                            /\ owned'[b].restricted = owned[b].restricted
    BY <1>2 DEF Forcing
  <2>2. cases[c].phase # "OPEN" \/ cases[c].family \notin Family
    BY <1>9 DEF Family
  <2> QED
    BY <1>7, <1>12, <2>1, <2>2, OverlaysKept DEF RecordsInv
<1>15. SeizedFromHolders'
  BY <1>4, <1>6 DEF SeizedFromHolders, Appends, RecordsInv, RecordsOK
<1>16. CasesOwn'
  <2>1. CaseOwns(c)'
    BY <1>10, <1>11 DEF CaseOwns
  <2>2. \A i \in DOMAIN actions : i \in DOMAIN actions' /\ actions'[i].case = actions[i].case
    BY <1>6 DEF Appends
  <2> QED
    BY <1>12, <2>1, <2>2, CasesKept DEF RecordsInv
<1>17. Backed'
  BY <1>10, <1>12, ReleasedSum DEF RecordsInv, Backed
<1> QED
  BY <1>3, <1>13, <1>14, <1>15, <1>16, <1>17 DEF RecordsInv, RecordsOK

\* What every reversal starts from.
LEMMA ReversibleIs ==
  ASSUME TypeOK, NEW n, NEW i \in DOMAIN actions, Reversible(n, i)
  PROVE  /\ Reverses(i) /\ actions[i].lifecycle = "APPLIED"
         /\ actions[i] \in ActionRecord /\ i \in Nat /\ i > 0
         /\ actions[i].subject \in Accounts /\ actions[i].source \in Accounts
         /\ actions[i].case \in Cases /\ actions[i].parent \in Nat
         /\ actions[i].prior \in Nat /\ actions[i].priorFlag \in BOOLEAN
         /\ actions[i].amount \in Nat
         /\ \A j \in DOMAIN actions : /\ j \in DOMAIN actions'
                                      /\ actions'[j].case = actions[j].case
<1>1. Reverses(i)
  BY ReverseIs DEF Reversible
<1>2. actions[i] \in ActionRecord /\ i \in Nat /\ i > 0
  BY Numbers
<1> QED
  BY <1>1, <1>2 DEF Reversible, Reverses, ActionRecord

\* Lifting a freeze, which puts the one below it in force.
LEMMA UnfreezeKeeps ==
  ASSUME TypeOK, RecordsInv, NEW n, NEW i \in DOMAIN actions, Unfreeze(n, i)
  PROVE  Closes /\ TypeOK' /\ RecordsInv'
<1> USE DEF NoHead
<1>1. /\ Reverses(i) /\ actions[i].lifecycle = "APPLIED" /\ i \in Nat /\ i > 0
      /\ \A j \in DOMAIN actions : j \in DOMAIN actions' /\ actions'[j].case = actions[j].case
  BY ReversibleIs DEF Unfreeze
<1>2. PICK a \in Accounts, c \in Cases, p \in Nat, prior \in Nat :
        /\ a = actions[i].subject /\ c = actions[i].case /\ p = actions[i].parent
        /\ prior = actions[i].prior
  BY ReversibleIs DEF Unfreeze
<1>3. /\ actions[i].kind = "FREEZE" /\ freezeHead[a] = i
      /\ _requireOwnedUpstreamState(Unit, a)
      /\ freezeHead' = [freezeHead EXCEPT ![a] = p]
      /\ Becomes(_syncFrozen([Unit EXCEPT !.owned[a].target = prior], a))
      /\ cases' = IF p # 0 THEN [cases EXCEPT ![c].head = p] ELSE _closeCase(c)
      /\ UNCHANGED <<restrictionHead, custody, backing>>
  BY <1>2 DEF Unfreeze
<1>4. TokenOK
  BY DEF TypeOK
<1>5. Retargeted(a, prior)
  BY <1>3, <1>4, RetargetIs
<1>6. Closes /\ TokenOK'
  BY <1>3, <1>4, <1>5, RetargetCloses DEF Closes
<1>7. i \in Live("FREEZE", a)
  BY <1>1, <1>2, <1>3 DEF Live
<1>8. cases[c].phase = "OPEN" /\ cases[c].family = "FREEZE" /\ cases[c].head = i
  <2>1. HeadMatches("FREEZE", a)
    BY DEF RecordsInv, RecordsOK, HeadsMatch, Family
  <2> QED
    BY <1>1, <1>2, <1>3, <2>1 DEF HeadMatches, HeadOf
<1>9. /\ p < i /\ \A j \in Live("FREEZE", a) : j < i => j <= p
      /\ p = 0 => prior = 0
      /\ p # 0 => /\ p \in Live("FREEZE", a) /\ actions[p].amount = prior
                  /\ actions[p].case = c
  BY <1>2, <1>7 DEF RecordsInv, RecordsOK, FreezesNest
<1>10. custody[c] = None
  BY <1>8 DEF RecordsInv, CasesOwn, CaseOwns
<1>11. \A kind, b : /\ Live(kind, b)' = Live(kind, b) \ {i}
                    /\ \A j \in Live(kind, b) \ {i} : actions'[j] = actions[j]
  BY <1>1, LiveReversed
<1>12. p # 0 => p \in Live("FREEZE", a)' /\ actions'[p] = actions[p] /\ p \in DOMAIN actions
  <2>1. p # 0 => p \in Live("FREEZE", a) \ {i}
    BY <1>9
  <2> QED
    BY <1>11, <2>1 DEF Live
<1>13. /\ freezeHead' \in [Accounts -> Nat] /\ freezeHead'[a] = p
       /\ \A b \in Accounts \ {a} : freezeHead'[b] = freezeHead[b]
  BY <1>3 DEF TypeOK
<1>14. /\ cases' \in [Cases -> CaseRecord]
       /\ \A d \in Cases \ {c} : cases'[d] = cases[d]
       /\ p # 0 => /\ cases'[c].head = p /\ cases'[c].phase = "OPEN"
                   /\ cases'[c].family = "FREEZE"
       /\ p = 0 => cases'[c].head = 0 /\ cases'[c].phase = "TERMINAL"
  <2>1. CASE p = 0
    <3>1. cases' = _closeCase(c)
      BY <1>3, <2>1
    <3> QED
      BY <2>1, <3>1, CloseIs
  <2>2. CASE p # 0
    <3>1. cases \in [Cases -> CaseRecord] /\ cases[c] \in CaseRecord
      BY DEF TypeOK
    <3>2. PICK k : k = [cases[c] EXCEPT !.head = p]
      OBVIOUS
    <3>3. /\ k \in CaseRecord /\ k.head = p /\ k.phase = cases[c].phase
          /\ k.family = cases[c].family
      BY <3>1, <3>2 DEF CaseRecord
    <3>4. cases' = [cases EXCEPT ![c] = k]
      BY <1>3, <2>2, <3>2
    <3> QED
      BY <1>8, <2>2, <3>1, <3>3, <3>4
  <2> QED
    BY <2>1, <2>2
<1>15. Moves(c)
  BY <1>3, <1>14 DEF Moves
<1>16. TypeOK'
  BY <1>1, <1>3, <1>6, <1>13, <1>14 DEF TypeOK, Reverses
<1>17. ASSUME NEW kind \in Family, NEW b \in Accounts PROVE HeadMatches(kind, b)'
  <2>1. CASE kind = "FREEZE" /\ b = a
    <3>1. HeadOf(kind, b)' = p
      BY <1>13, <2>1 DEF HeadOf
    <3> QED
      BY <1>9, <1>12, <1>14, <2>1, <3>1 DEF HeadMatches
  <2>2. CASE kind # "FREEZE" \/ b # a
    <3> DEFINE h == HeadOf(kind, b)
    <3>1. HeadOf(kind, b)' = h
      BY <1>3, <1>13, <2>2 DEF HeadOf, Family
    <3>2. HeadMatches(kind, b)
      BY DEF RecordsInv, RecordsOK, HeadsMatch
    <3>3. CASE h # 0
      <4>1. /\ h \in Live(kind, b) /\ h \in DOMAIN actions /\ actions[h].case \in Cases
            /\ actions[h].kind = kind /\ actions[h].subject = b
        BY <3>2, <3>3, Numbers DEF HeadMatches, Live, ActionRecord
      <4>2. h # i
        BY <1>2, <1>3, <2>2, <4>1
      <4>3. actions[h].case # c
        BY <1>8, <3>2, <3>3, <4>2 DEF HeadMatches
      <4>4. cases'[actions[h].case] = cases[actions[h].case]
        BY <1>14, <4>1, <4>3
      <4>5. h \in Live(kind, b)' /\ actions'[h] = actions[h]
        BY <1>11, <4>1, <4>2
      <4> QED
        BY <3>1, <3>2, <3>3, <4>4, <4>5 DEF HeadMatches
    <3> QED
      BY <3>1, <3>3 DEF HeadMatches
  <2> QED
    BY <2>1, <2>2
<1>18. ASSUME NEW b \in Accounts
       PROVE  /\ owned'[b].target
                   = IF freezeHead'[b] = 0 THEN 0 ELSE actions'[freezeHead'[b]].amount
              /\ owned'[b].restricted = (restrictionHead'[b] # 0)
  <2>1. /\ owned[b].target = IF freezeHead[b] = 0 THEN 0 ELSE actions[freezeHead[b]].amount
        /\ owned[b].restricted = (restrictionHead[b] # 0)
    BY DEF RecordsInv, RecordsOK, OwnedMatches
  <2>2. CASE b = a
    BY <1>3, <1>5, <1>9, <1>12, <1>13, <2>1, <2>2 DEF Retargeted
  <2>3. CASE b # a
    <3>1. freezeHead[b] # 0 => freezeHead[b] \in Live("FREEZE", b)
      BY DEF RecordsInv, RecordsOK, HeadsMatch, HeadMatches, HeadOf, Family
    <3>2. i \notin Live("FREEZE", b)
      BY <1>2, <2>3 DEF Live
    <3>3. freezeHead[b] # 0 => actions'[freezeHead[b]] = actions[freezeHead[b]]
      BY <1>11, <3>1, <3>2
    <3> QED
      BY <1>3, <1>5, <1>13, <2>1, <2>3, <3>3 DEF Retargeted
  <2> QED
    BY <2>2, <2>3
<1>19. FreezesNest'
  <2> SUFFICES ASSUME NEW b \in Accounts, NEW j \in Live("FREEZE", b)'
               PROVE  /\ j <= freezeHead'[b] /\ actions'[j].parent < j
                      /\ \A m \in Live("FREEZE", b)' : m < j => m <= actions'[j].parent
                      /\ actions'[j].parent = 0 => actions'[j].prior = 0
                      /\ actions'[j].parent # 0 =>
                           /\ actions'[j].parent \in Live("FREEZE", b)'
                           /\ actions'[actions'[j].parent].amount = actions'[j].prior
                           /\ actions'[actions'[j].parent].case = actions'[j].case
    BY DEF FreezesNest
  <2>1. /\ j \in Live("FREEZE", b) /\ j # i /\ actions'[j] = actions[j]
        /\ j \in DOMAIN actions
    BY <1>11 DEF Live
  <2>2. PICK q : q = actions[j].parent
    OBVIOUS
  <2>3. /\ j <= freezeHead[b] /\ q < j
        /\ \A m \in Live("FREEZE", b) : m < j => m <= q
        /\ q = 0 => actions[j].prior = 0
        /\ q # 0 => /\ q \in Live("FREEZE", b) /\ actions[q].amount = actions[j].prior
                    /\ actions[q].case = actions[j].case
    BY <2>1, <2>2 DEF RecordsInv, RecordsOK, FreezesNest
  <2>4. j \in Nat /\ q \in Nat
    BY <2>1, <2>2, Numbers DEF ActionRecord
  <2>5. j <= freezeHead'[b] /\ q # i
    <3>1. CASE b = a
      <4>1. j < i
        BY <1>1, <1>3, <2>1, <2>3, <2>4, <3>1
      <4> QED
        BY <1>1, <1>9, <1>13, <2>1, <2>3, <2>4, <3>1, <4>1
    <3>2. CASE b # a
      <4>1. i \notin Live("FREEZE", b)
        BY <1>2, <3>2 DEF Live
      <4> QED
        BY <1>1, <1>13, <2>3, <3>2, <4>1
    <3> QED
      BY <3>1, <3>2
  <2>6. q # 0 => q \in Live("FREEZE", b)' /\ actions'[q] = actions[q]
    BY <1>11, <2>3, <2>5
  <2>7. \A m \in Live("FREEZE", b)' : m \in Live("FREEZE", b)
    BY <1>11
  <2> QED
    BY <2>1, <2>2, <2>3, <2>5, <2>6, <2>7
<1>20. RestrictionsAlone'
  <2>1. \A b \in Accounts : HeadOf("RESTRICT", b)' = HeadOf("RESTRICT", b)
    BY <1>3 DEF HeadOf
  <2>2. Leaves("RESTRICT")
    BY <1>1, <1>3, <2>1, ReverseLeaves
  <2> QED
    BY <2>2, AloneKept DEF RecordsInv, RecordsOK
<1>21. SeizedFromHolders'
  BY <1>1 DEF SeizedFromHolders, Reverses, RecordsInv, RecordsOK
<1>22. CasesOwn'
  <2>1. CaseOwns(c)'
    BY <1>1, <1>3, <1>9, <1>10, <1>12, <1>14 DEF CaseOwns
  <2> QED
    BY <1>1, <1>15, <2>1, CasesKept DEF RecordsInv
<1>23. Backed'
  BY <1>3, <1>5 DEF Retargeted, Backed, Encumbered, RecordsInv
<1> QED
  BY <1>6, <1>16, <1>17, <1>18, <1>19, <1>20, <1>21, <1>22, <1>23
     DEF RecordsInv, RecordsOK, HeadsMatch, OwnedMatches

\* Lifting a restriction.
LEMMA UnrestrictKeeps ==
  ASSUME TypeOK, RecordsInv, NEW n, NEW i \in DOMAIN actions, Unrestrict(n, i)
  PROVE  Closes /\ TypeOK' /\ RecordsInv'
<1> USE DEF NoHead
<1>1. /\ Reverses(i) /\ actions[i].lifecycle = "APPLIED" /\ i \in Nat /\ i > 0
      /\ \A j \in DOMAIN actions : j \in DOMAIN actions' /\ actions'[j].case = actions[j].case
  BY ReversibleIs DEF Unrestrict
<1>2. PICK a \in Accounts, c \in Cases : a = actions[i].subject /\ c = actions[i].case
  BY ReversibleIs DEF Unrestrict
<1>3. i \in Live("RESTRICT", a)
  BY <1>1, <1>2 DEF Live, Unrestrict
<1>4. actions[i].parent = 0 /\ actions[i].priorFlag \in BOOLEAN /\ ~ actions[i].priorFlag
  BY <1>3, ReversibleIs DEF RecordsInv, RecordsOK, RestrictionsAlone, Unrestrict
<1>5. /\ actions[i].kind = "RESTRICT" /\ restrictionHead[a] = i
      /\ _requireOwnedUpstreamState(Unit, a)
      /\ restrictionHead' = [restrictionHead EXCEPT ![a] = 0]
      /\ Becomes(_setRestricted(Unit, a, actions[i].priorFlag))
      /\ cases' = _closeCase(c)
      /\ UNCHANGED <<freezeHead, custody, backing>>
  BY <1>2, <1>4 DEF Unrestrict
<1>6. TokenOK /\ actions[i].priorFlag = FALSE
  BY <1>4 DEF TypeOK
<1>7. Flagged(a, FALSE)
  BY <1>5, <1>6, FlagIs
<1>8. Closes /\ TokenOK'
  BY <1>5, <1>6, <1>7, FlagCloses DEF Closes
<1>9. cases[c].phase = "OPEN" /\ cases[c].family = "RESTRICT" /\ cases[c].head = i
  <2>1. HeadMatches("RESTRICT", a)
    BY DEF RecordsInv, RecordsOK, HeadsMatch, Family
  <2> QED
    BY <1>1, <1>2, <1>5, <2>1 DEF HeadMatches, HeadOf
<1>10. custody[c] = None
  BY <1>9 DEF RecordsInv, CasesOwn, CaseOwns
<1>11. \A kind, b : /\ Live(kind, b)' = Live(kind, b) \ {i}
                    /\ \A j \in Live(kind, b) \ {i} : actions'[j] = actions[j]
  BY <1>1, LiveReversed
<1>12. /\ restrictionHead' \in [Accounts -> Nat] /\ restrictionHead'[a] = 0
       /\ \A b \in Accounts \ {a} : restrictionHead'[b] = restrictionHead[b]
  BY <1>5 DEF TypeOK
<1>13. /\ cases' \in [Cases -> CaseRecord] /\ Moves(c)
       /\ cases'[c].head = 0 /\ cases'[c].phase = "TERMINAL"
  BY <1>5, CloseIs DEF Moves
<1>14. TypeOK'
  BY <1>1, <1>5, <1>8, <1>12, <1>13 DEF TypeOK, Reverses
<1>15. Leaves("FREEZE")
  <2>1. \A b \in Accounts : HeadOf("FREEZE", b)' = HeadOf("FREEZE", b)
    BY <1>5 DEF HeadOf
  <2> QED
    BY <1>1, <1>5, <2>1, ReverseLeaves
<1>16. ASSUME NEW b \in Accounts, b # a, restrictionHead[b] # 0
       PROVE  /\ restrictionHead[b] \in Live("RESTRICT", b)'
              /\ restrictionHead[b] \in DOMAIN actions
              /\ actions'[restrictionHead[b]] = actions[restrictionHead[b]]
              /\ actions[restrictionHead[b]].case \in Cases
              /\ actions[restrictionHead[b]].case # c
  <2>1. HeadMatches("RESTRICT", b)
    BY DEF RecordsInv, RecordsOK, HeadsMatch, Family
  <2>2. PICK h : h = restrictionHead[b]
    OBVIOUS
  <2>3. /\ h \in Live("RESTRICT", b) /\ h \in DOMAIN actions /\ actions[h].subject = b
        /\ cases[actions[h].case].head = h
    BY <1>16, <2>1, <2>2 DEF HeadMatches, HeadOf, Live
  <2>4. actions[h].case \in Cases
    BY <2>3, Numbers DEF ActionRecord
  <2>5. h # i
    BY <1>2, <1>16, <2>3
  <2> QED
    BY <1>9, <1>11, <2>2, <2>3, <2>4, <2>5
<1>17. ASSUME NEW kind \in Family, NEW b \in Accounts PROVE HeadMatches(kind, b)'
  <2>1. HeadMatches(kind, b)
    BY DEF RecordsInv, RecordsOK, HeadsMatch
  <2>2. CASE kind = "FREEZE"
    BY <1>9, <1>13, <1>15, <2>1, <2>2, HeadsElsewhere
  <2>3. CASE kind = "RESTRICT" /\ (b = a \/ restrictionHead[b] = 0)
    <3>1. HeadOf(kind, b)' = 0
      BY <1>12, <2>3 DEF HeadOf
    <3> QED
      BY <3>1 DEF HeadMatches
  <2>4. CASE kind = "RESTRICT" /\ b # a /\ restrictionHead[b] # 0
    <3>1. PICK h : h = restrictionHead[b]
      OBVIOUS
    <3>2. HeadOf(kind, b)' = h /\ HeadOf(kind, b) = h
      BY <1>12, <2>4, <3>1 DEF HeadOf
    <3>3. /\ h \in Live(kind, b)' /\ actions'[h] = actions[h]
          /\ cases'[actions[h].case] = cases[actions[h].case]
      BY <1>13, <1>16, <2>4, <3>1 DEF Moves
    <3> QED
      BY <2>1, <2>4, <3>1, <3>2, <3>3 DEF HeadMatches
  <2> QED
    BY <2>2, <2>3, <2>4 DEF Family
<1>18. ASSUME NEW b \in Accounts
       PROVE  /\ owned'[b].target
                   = IF freezeHead'[b] = 0 THEN 0 ELSE actions'[freezeHead'[b]].amount
              /\ owned'[b].restricted = (restrictionHead'[b] # 0)
  <2>1. /\ owned[b].target = IF freezeHead[b] = 0 THEN 0 ELSE actions[freezeHead[b]].amount
        /\ owned[b].restricted = (restrictionHead[b] # 0)
    BY DEF RecordsInv, RecordsOK, OwnedMatches
  <2>2. freezeHead[b] # 0 => actions'[freezeHead[b]] = actions[freezeHead[b]]
    BY <1>15 DEF RecordsInv, RecordsOK, HeadsMatch, HeadMatches, HeadOf, Leaves, Family
  <2>3. owned'[b].target = owned[b].target
    BY <1>7 DEF Flagged
  <2>4. owned'[b].restricted = (restrictionHead'[b] # 0)
    <3>1. CASE b = a
      <4>1. owned'[b].restricted = FALSE
        BY <1>7, <3>1 DEF Flagged
      <4> QED
        BY <1>12, <3>1, <4>1
    <3>2. CASE b # a
      BY <1>7, <1>12, <2>1, <3>2 DEF Flagged
    <3> QED
      BY <3>1, <3>2
  <2> QED
    BY <1>5, <2>1, <2>2, <2>3, <2>4
<1>19. RestrictionsAlone'
  <2> SUFFICES ASSUME NEW b \in Accounts, NEW j \in Live("RESTRICT", b)'
               PROVE  /\ j = restrictionHead'[b] /\ actions'[j].parent = 0
                      /\ ~ actions'[j].priorFlag
    BY DEF RestrictionsAlone
  <2>1. j \in Live("RESTRICT", b) /\ j # i /\ actions'[j] = actions[j]
    BY <1>11
  <2>2. j = restrictionHead[b] /\ actions[j].parent = 0 /\ ~ actions[j].priorFlag
    BY <2>1 DEF RecordsInv, RecordsOK, RestrictionsAlone
  <2>3. b # a
    BY <1>5, <2>1, <2>2
  <2> QED
    BY <1>12, <2>1, <2>2, <2>3
<1>20. SeizedFromHolders'
  BY <1>1 DEF SeizedFromHolders, Reverses, RecordsInv, RecordsOK
<1>21. CasesOwn'
  <2>1. CaseOwns(c)'
    BY <1>5, <1>10, <1>13 DEF CaseOwns
  <2> QED
    BY <1>1, <1>13, <2>1, CasesKept DEF RecordsInv
<1>22. Backed'
  BY <1>5, <1>7 DEF Flagged, Backed, Encumbered, RecordsInv
<1> QED
  BY <1>8, <1>14, <1>15, <1>17, <1>18, <1>19, <1>20, <1>21, <1>22, NestKept
     DEF RecordsInv, RecordsOK, HeadsMatch, OwnedMatches

\* Giving back what was seized.
LEMMA ReleaseKeeps ==
  ASSUME TypeOK, RecordsInv, NEW n, NEW i \in DOMAIN actions, Release(n, i)
  PROVE  Closes /\ TypeOK' /\ RecordsInv'
<1> USE DEF NoHead
<1>1. /\ Reverses(i) /\ actions[i].kind = "SEIZE"
      /\ \A j \in DOMAIN actions : j \in DOMAIN actions' /\ actions'[j].case = actions[j].case
  BY ReversibleIs DEF Release
<1>2. PICK c \in Cases, s \in Accounts, amount \in Nat :
        c = actions[i].case /\ s = actions[i].source /\ amount = actions[i].amount
  BY ReversibleIs DEF Release
<1>3. s # Adapter /\ amount > 0 /\ Adapter \in Accounts /\ TokenOK
  BY <1>1, <1>2 DEF RecordsInv, RecordsOK, SeizedFromHolders, Accounts, TypeOK
<1>4. /\ custody[c] = [prior |-> s, amount |-> amount, action |-> i]
      /\ backing >= amount
      /\ _requireOwnedUpstreamState(Unit, s) /\ _requireOwnedUpstreamState(Unit, Adapter)
      /\ custody' = [custody EXCEPT ![c] = None] /\ backing' = backing - amount
      /\ \E u \in _forcedTransfer(Unit, Adapter, s, amount) : Becomes(u)
      /\ cases' = _closeCase(c)
      /\ UNCHANGED <<freezeHead, restrictionHead>>
  BY <1>2 DEF Release
<1>5. Forcing(Adapter, s, amount)
  BY <1>3, <1>4, ForcingIs
<1>6. Closes /\ TokenOK'
  BY <1>3, <1>4, <1>5, ForcingCloses DEF Closes
<1>7. Leaves("FREEZE") /\ Leaves("RESTRICT")
  <2>1. \A kind, b : HeadOf(kind, b)' = HeadOf(kind, b)
    BY <1>4 DEF HeadOf
  <2> QED
    BY <1>1, <2>1, ReverseLeaves
<1>8. custody[c] # None /\ Encumbered(c) = amount
  <2>1. /\ custody[c] \in Custody \cup {None}
        /\ custody[c] = [prior |-> s, amount |-> amount, action |-> i]
    BY <1>4 DEF TypeOK
  <2>2. [prior |-> s, amount |-> amount, action |-> i] \in Custody
    BY ReversibleIs DEF Custody, Release
  <2>3. custody[c] # None
    BY <2>1, <2>2
  <2> QED
    BY <1>4, <2>3 DEF Encumbered
<1>9. cases[c].phase = "OPEN" /\ cases[c].family = "CUSTODY"
  BY <1>8 DEF RecordsInv, CasesOwn, CaseOwns
<1>10. /\ cases' \in [Cases -> CaseRecord] /\ Moves(c)
       /\ cases'[c].head = 0 /\ cases'[c].phase = "TERMINAL"
       /\ custody' \in [Cases -> Custody \cup {None}] /\ custody'[c] = None
  BY <1>4, CloseIs DEF Moves, TypeOK
<1>11. backing' \in Nat /\ backing' <= balance'[Adapter]
  <2>1. /\ backing \in Nat /\ balance[Adapter] \in Nat /\ backing <= balance[Adapter]
        /\ balance'[Adapter] = balance[Adapter] - amount
    BY <1>3, <1>5 DEF TypeOK, TokenOK, RecordsInv, Backed, Forcing
  <2> QED
    BY <1>4, <2>1
<1>12. TypeOK'
  BY <1>1, <1>4, <1>6, <1>10, <1>11 DEF TypeOK, Reverses
<1>13. HeadsMatch' /\ OwnedMatches' /\ FreezesNest' /\ RestrictionsAlone'
  <2>1. \A b \in Accounts : /\ owned'[b].target = owned[b].target
                            /\ owned'[b].restricted = owned[b].restricted
    BY <1>5 DEF Forcing
  <2>2. cases[c].family \notin Family
    BY <1>9 DEF Family
  <2> QED
    BY <1>7, <1>10, <2>1, <2>2, OverlaysKept DEF RecordsInv
<1>14. SeizedFromHolders'
  BY <1>1 DEF SeizedFromHolders, Reverses, RecordsInv, RecordsOK
<1>15. CasesOwn'
  <2>1. CaseOwns(c)'
    BY <1>10 DEF CaseOwns
  <2> QED
    BY <1>1, <1>10, <2>1, CasesKept DEF RecordsInv
<1>16. Backed'
  BY <1>4, <1>8, <1>10, <1>11, ReleasedSum DEF RecordsInv, Backed
<1> QED
  BY <1>6, <1>12, <1>13, <1>14, <1>15, <1>16 DEF RecordsInv, RecordsOK

\* Every command keeps the invariant, and keeps to what the adapter owns.
LEMMA CommandKeeps ==
  ASSUME ProfileInv, NEW n \in Nonces, Command(n)
  PROVE  /\ Closes /\ ProfileInv'
         /\ sealed /\ ~ drifted
<1>1. TypeOK /\ RecordsInv
  BY DEF ProfileInv
<1>2. /\ sealed /\ ~ drifted
      /\ UNCHANGED <<profile, sealed, drifted, changes, disturbed>>
  <2>1. \A a, c, target : Freeze(n, a, c, target) => Authorized(n)
    BY DEF Freeze
  <2>2. \A a, c : RestrictAddress(n, a, c) => Authorized(n)
    BY DEF RestrictAddress
  <2>3. \A a, c, amount : Seize(n, a, c, amount) => Authorized(n)
    BY DEF Seize
  <2>4. \A a, source, to, c, amount, entitlement :
          Dispose(n, a, source, to, c, amount, entitlement) => Authorized(n)
    BY DEF Dispose
  <2>5. \A i : Unfreeze(n, i) \/ Unrestrict(n, i) \/ Release(n, i) => Authorized(n)
    BY DEF Unfreeze, Unrestrict, Release, Reversible
  <2>6. Authorized(n)
    BY <2>1, <2>2, <2>3, <2>4, <2>5 DEF Command
  <2> QED
    BY <2>6 DEF Authorized, sealedTopologyLive
<1>3. Closes /\ TypeOK' /\ RecordsInv'
  <2>1. \A amount \in Amounts : amount \in Nat
    BY DEF Amounts
  <2>2. \A c \in Nameable : c \in Cases
    BY DEF Nameable, Cases
  <2>3. ASSUME NEW a \in Accounts, NEW c \in Nameable,
               \/ \E target \in Targets : Freeze(n, a, c, target)
               \/ RestrictAddress(n, a, c)
               \/ \E amount \in Amounts : Seize(n, a, c, amount)
               \/ \E source, to \in Accounts, amount \in Amounts,
                     entitlement \in Entitlements \cup {None} :
                    Dispose(n, a, source, to, c, amount, entitlement)
        PROVE  Closes /\ TypeOK' /\ RecordsInv'
    <3>1. CASE \E target \in Targets : Freeze(n, a, c, target)
      BY <1>1, <2>2, <3>1, FreezeKeeps
    <3>2. CASE RestrictAddress(n, a, c)
      BY <1>1, <2>2, <3>2, RestrictKeeps
    <3>3. CASE \E amount \in Amounts : Seize(n, a, c, amount)
      BY <1>1, <2>1, <2>2, <3>3, SeizeKeeps
    <3>4. ASSUME NEW source \in Accounts, NEW to \in Accounts, NEW amount \in Amounts,
                 NEW entitlement \in Entitlements \cup {None},
                 Dispose(n, a, source, to, c, amount, entitlement)
          PROVE  Closes /\ TypeOK' /\ RecordsInv'
      BY <1>1, <2>1, <2>2, <3>4, DisposeKeeps
    <3> QED
      BY <2>3, <3>1, <3>2, <3>3, <3>4
  <2>4. ASSUME NEW i \in DOMAIN actions, Unfreeze(n, i) \/ Unrestrict(n, i) \/ Release(n, i)
        PROVE  Closes /\ TypeOK' /\ RecordsInv'
    BY <1>1, <2>4, UnfreezeKeeps, UnrestrictKeeps, ReleaseKeeps
  <2> QED
    BY <2>3, <2>4 DEF Command
<1>4. FrozenWithin' /\ AllFine'
  BY <1>1, <1>2, <1>3, ClosingKeepsFloor DEF ProfileInv, TypeOK
<1>5. FreshBefore'
  BY <1>2 DEF FreshBefore
<1> QED
  BY <1>2, <1>3, <1>4, <1>5 DEF ProfileInv
-----------------------------------------------------------------------------
(* What happens outside commands *)

\* A step that leaves the records alone, and the targets and flags owned.
LEMMA RecordsStay ==
  ASSUME TypeOK, RecordsInv, UNCHANGED caseVars, TokenOK',
         balance'[Adapter] >= balance[Adapter],
         \A a \in Accounts : /\ owned'[a].target = owned[a].target
                             /\ owned'[a].restricted = owned[a].restricted
  PROVE  TypeOK' /\ RecordsInv'
<1>1. UNCHANGED <<actions, freezeHead, restrictionHead, cases, custody, backing>>
  BY DEF caseVars
<1>2. TypeOK'
  BY <1>1 DEF TypeOK
<1>3. Leaves("FREEZE") /\ Leaves("RESTRICT")
  BY <1>1 DEF Leaves, HeadOf, Live
<1>4. HeadsMatch'
  BY <1>1 DEF HeadsMatch, HeadMatches, HeadOf, Live, RecordsInv, RecordsOK
<1>5. OwnedMatches'
  BY <1>3, OwnedKept DEF RecordsInv, RecordsOK
<1>6. FreezesNest' /\ RestrictionsAlone'
  BY <1>3, NestKept, AloneKept DEF RecordsInv, RecordsOK
<1>7. SeizedFromHolders' /\ CasesOwn'
  BY <1>1 DEF SeizedFromHolders, CasesOwn, CaseOwns, RecordsInv, RecordsOK
<1>8. Backed'
  <2>1. balance'[Adapter] \in Nat /\ balance[Adapter] \in Nat /\ backing \in Nat
    BY DEF TypeOK, TokenOK, Accounts
  <2> QED
    BY <1>1, <2>1 DEF Backed, Encumbered, RecordsInv
<1> QED
  BY <1>2, <1>4, <1>5, <1>6, <1>7, <1>8 DEF RecordsInv, RecordsOK

\* Bringing a frozen amount up to date.
LEMMA ResynchroniseKeeps ==
  ASSUME ProfileInv, NEW a \in Accounts, resynchroniseFrozen(a)
  PROVE  ProfileInv'
<1>1. TypeOK /\ TokenOK /\ RecordsInv
  BY DEF ProfileInv, TypeOK
<1>2. /\ sealed /\ _requireOwnedUpstreamState(Unit, a) /\ Becomes(_syncFrozen(Unit, a))
      /\ UNCHANGED <<profile, sealed, disturbed>> /\ UNCHANGED caseVars
  BY DEF resynchroniseFrozen, sealedTopologyLive
<1>3. PICK t \in Nat : t = owned[a].target
  BY <1>1 DEF TokenOK, OwnedRecord
<1>4. [Unit EXCEPT !.owned[a].target = t] = Unit
  <2>1. [owned[a] EXCEPT !.target = t] = owned[a]
    BY <1>1, <1>3 DEF TokenOK, OwnedRecord
  <2>2. [owned EXCEPT ![a].target = t] = owned
    BY <1>1, <2>1 DEF TokenOK
  <2> QED
    BY <2>2 DEF Unit
<1>5. Retargeted(a, t)
  BY <1>1, <1>2, <1>4, RetargetIs
<1>6. Closes
  BY <1>1, <1>2, <1>5, RetargetCloses
<1>7. FrozenWithin' /\ AllFine'
  BY <1>1, <1>2, <1>6, ClosingKeepsFloor DEF ProfileInv
<1>8. TypeOK' /\ RecordsInv'
  <2>1. balance' = balance /\ TokenOK'
    BY <1>5 DEF Retargeted
  <2>2. \A b \in Accounts : /\ owned'[b].target = owned[b].target
                            /\ owned'[b].restricted = owned[b].restricted
    BY <1>3, <1>5 DEF Retargeted
  <2>3. balance'[Adapter] >= balance[Adapter]
    BY <1>1, <2>1 DEF TokenOK, Accounts
  <2> QED
    BY <1>1, <1>2, <2>1, <2>2, <2>3, RecordsStay
<1>9. FreshBefore'
  BY <1>2 DEF FreshBefore
<1> QED
  BY <1>7, <1>8, <1>9 DEF ProfileInv

\* A holder's transfer.
LEMMA TransferKeeps ==
  ASSUME ProfileInv, NEW from \in Accounts, NEW to \in Accounts, NEW amount \in Amounts,
         transfer(from, to, amount)
  PROVE  ProfileInv'
<1>1. TypeOK /\ TokenOK /\ RecordsInv /\ amount \in Nat /\ Adapter \in Accounts
  BY DEF ProfileInv, TypeOK, Amounts, Accounts
<1>2. /\ from # Adapter /\ from # to /\ amount > 0
      /\ profile = "hook" => sealed
      /\ ~ restricted[from] /\ ~ restricted[to]
      /\ amount <= balance[from] - frozen[from]
      /\ Becomes(onTokenBalanceChanged(Moved(Unit, from, to, amount), from, to))
      /\ UNCHANGED <<profile, sealed, disturbed>> /\ UNCHANGED caseVars
  BY DEF transfer, sealedTopologyLive
<1>3. PICK u \in Units : /\ u = Unit /\ u.balance = balance /\ u.frozen = frozen
                         /\ u.restricted = restricted /\ u.owned = owned
  BY <1>1, UnitIs
<1>4. PICK m : m = Moved(u, from, to, amount)
  OBVIOUS
<1>5. /\ Loose(m, u, from, to, amount) /\ m.frozen = frozen /\ m.restricted = restricted
      /\ m.owned = owned
  <2>1. amount <= balance[from]
    BY <1>1, <1>2 DEF TokenOK
  <2>2. m.owned = u.owned
    BY <1>4 DEF Moved, Units
  <2> QED
    BY <1>1, <1>2, <1>3, <1>4, <2>1, <2>2, MovedIsLoose
<1>6. PICK v : v = onTokenBalanceChanged(m, from, to)
  OBVIOUS
<1>7. /\ Loose(v, u, from, to, amount) /\ v.restricted = restricted
      /\ profile # "hook" => v.frozen = frozen /\ v.owned = owned
      /\ profile = "hook" => \A a \in {from, to} :
           /\ v.frozen[a] = Floored(owned[a].target, v.balance[a])
           /\ v.owned[a].applied = v.frozen[a]
  <2>1. CASE profile # "hook"
    BY <1>5, <1>6, <2>1 DEF onTokenBalanceChanged
  <2>2. CASE profile = "hook"
    <3>1. PICK s : s = _syncFrozen(m, from)
      OBVIOUS
    <3>2. v = _syncFrozen(s, to)
      BY <1>6, <2>2, <3>1 DEF onTokenBalanceChanged
    <3>3. m \in Units
      BY <1>5 DEF Loose
    <3>4. Synced(s, m, from)
      BY <3>1, <3>3, SyncIs
    <3>5. s \in Units /\ Loose(s, u, from, to, amount)
      BY <1>5, <3>1, <3>4, SyncedIsLoose DEF Synced
    <3>6. Synced(v, s, to)
      BY <3>2, <3>5, SyncIs
    <3>7. Loose(v, u, from, to, amount)
      BY <3>2, <3>5, SyncedIsLoose
    <3>8. /\ v.balance = m.balance /\ s.balance = m.balance /\ v.restricted = restricted
          /\ v.frozen[from] = s.frozen[from] /\ v.owned[from] = s.owned[from]
      BY <1>2, <1>5, <3>4, <3>6 DEF Synced
    <3>9. s.owned[to] = owned[to]
      BY <1>2, <1>5, <3>4 DEF Synced
    <3>10. /\ v.frozen[from] = Floored(owned[from].target, v.balance[from])
           /\ v.owned[from].applied = v.frozen[from]
      BY <1>5, <3>4, <3>8 DEF Synced
    <3>11. /\ v.frozen[to] = Floored(owned[to].target, v.balance[to])
           /\ v.owned[to].applied = v.frozen[to]
      BY <3>6, <3>8, <3>9 DEF Synced
    <3> QED
      BY <2>2, <3>7, <3>8, <3>10, <3>11
  <2> QED
    BY <2>1, <2>2
<1>8. /\ TokenOK' /\ balance' = v.balance /\ frozen' = v.frozen
      /\ restricted' = restricted /\ owned' = v.owned
  <2>1. Becomes(v) /\ v \in Units
    BY <1>2, <1>3, <1>4, <1>6, <1>7 DEF Loose
  <2> QED
    BY <1>7, <2>1, BecomesOK DEF Becomes
<1>9. /\ balance'[from] = balance[from] - amount /\ balance'[to] = balance[to] + amount
      /\ \A b \in Accounts : /\ owned'[b].target = owned[b].target
                             /\ owned'[b].restricted = owned[b].restricted
      /\ \A b \in Accounts \ {from, to} :
           balance'[b] = balance[b] /\ frozen'[b] = frozen[b] /\ owned'[b] = owned[b]
  BY <1>3, <1>7, <1>8 DEF Loose
<1>10. TypeOK' /\ RecordsInv'
  <2>1. balance'[Adapter] >= balance[Adapter]
    BY <1>1, <1>2, <1>9 DEF TokenOK
  <2> QED
    BY <1>1, <1>2, <1>8, <1>9, <2>1, RecordsStay
<1>11. ASSUME NEW a \in Accounts
       PROVE  /\ owned[a].target \in Nat /\ balance[a] \in Nat /\ frozen[a] \in Nat
              /\ owned'[a].target \in Nat /\ balance'[a] \in Nat /\ frozen'[a] \in Nat
              /\ frozen[a] <= balance[a]
  BY <1>1, <1>8 DEF TokenOK, OwnedRecord, ProfileInv, FrozenWithin
<1>12. ASSUME NEW a \in Accounts
       PROVE  frozen'[a] <= balance'[a] /\ (Fine(a) => Fine(a)')
  <2>1. CASE a \notin {from, to}
    BY <1>2, <1>8, <1>9, <1>11, <2>1 DEF Fine
  <2>2. CASE a \in {from, to} /\ profile = "hook"
    <3>1. /\ frozen'[a] = Floored(owned'[a].target, balance'[a])
          /\ owned'[a].applied = frozen'[a]
      BY <1>7, <1>8, <1>9, <2>2
    <3>2. restricted'[a] = restricted[a] /\ owned'[a].restricted = owned[a].restricted
      BY <1>8, <1>9
    <3> QED
      BY <1>2, <1>11, <3>1, <3>2 DEF Fine, Floored
  <2>3. CASE a \in {from, to} /\ profile # "hook"
    <3>1. /\ frozen'[a] = frozen[a] /\ owned'[a] = owned[a]
          /\ restricted'[a] = restricted[a] /\ profile' # "hook"
      BY <1>2, <1>7, <1>8, <2>3
    <3>2. frozen[a] <= balance'[a]
      BY <1>1, <1>2, <1>9, <1>11, <2>3
    <3> QED
      BY <1>11, <3>1, <3>2 DEF Fine, Floored
  <2> QED
    BY <2>1, <2>2, <2>3
<1>13. FrozenWithin' /\ AllFine'
  BY <1>2, <1>12 DEF FrozenWithin, AllFine, ProfileInv
<1>14. FreshBefore'
  BY <1>2, <1>7, <1>8 DEF FreshBefore, ProfileInv, caseVars
<1> QED
  BY <1>10, <1>13, <1>14 DEF ProfileInv

\* A change behind the adapter.
LEMMA UpstreamKeeps ==
  ASSUME ProfileInv, NEW a \in Accounts, UpstreamChange(a)
  PROVE  ProfileInv'
<1>1. TypeOK /\ TokenOK /\ RecordsInv
  BY DEF ProfileInv, TypeOK
<1>2. PICK amount \in 0 .. balance[a], flag \in BOOLEAN :
        /\ frozen' = [frozen EXCEPT ![a] = amount]
        /\ restricted' = [restricted EXCEPT ![a] = flag]
  BY DEF UpstreamChange
<1>3. /\ UNCHANGED <<profile, sealed, balance, owned>> /\ UNCHANGED caseVars
      /\ disturbed' = IF sealed THEN disturbed \cup {a} ELSE disturbed
  BY DEF UpstreamChange
<1>4. /\ TokenOK' /\ frozen'[a] <= balance[a]
      /\ \A b \in Accounts \ {a} : frozen'[b] = frozen[b] /\ restricted'[b] = restricted[b]
  BY <1>1, <1>2, <1>3 DEF TokenOK
<1>5. TypeOK' /\ RecordsInv'
  <2>1. balance'[Adapter] >= balance[Adapter]
    BY <1>1, <1>3 DEF TokenOK, Accounts
  <2> QED
    BY <1>1, <1>3, <1>4, <2>1, RecordsStay
<1>6. FrozenWithin' /\ AllFine'
  BY <1>3, <1>4 DEF FrozenWithin, AllFine, Fine, ProfileInv
<1>7. FreshBefore'
  BY <1>3 DEF FreshBefore, ProfileInv, caseVars
<1> QED
  BY <1>5, <1>6, <1>7 DEF ProfileInv

\* A step that changes none of it.
LEMMA NothingMoves ==
  ASSUME ProfileInv, UNCHANGED <<profile, sealed, tokenVars, caseVars, disturbed>>
  PROVE  ProfileInv'
<1>1. TypeOK /\ TokenOK /\ RecordsInv
  BY DEF ProfileInv, TypeOK
<1>2. /\ UNCHANGED <<profile, sealed, balance, frozen, restricted, owned, disturbed>>
      /\ UNCHANGED caseVars
  BY DEF tokenVars
<1>3. TokenOK' /\ balance'[Adapter] >= balance[Adapter]
  BY <1>1, <1>2 DEF TokenOK, Accounts
<1>4. TypeOK' /\ RecordsInv'
  BY <1>1, <1>2, <1>3, RecordsStay
<1>5. FrozenWithin' /\ AllFine'
  BY <1>2 DEF FrozenWithin, AllFine, Fine, ProfileInv
<1>6. FreshBefore'
  BY <1>2 DEF FreshBefore, ProfileInv, caseVars
<1> QED
  BY <1>4, <1>5, <1>6 DEF ProfileInv
-----------------------------------------------------------------------------
(* The seal *)

\* The library's enumeration of a finite set names each member exactly once.
LEMMA Enumerated ==
  ASSUME NEW S, IsFiniteSet(S)
  PROVE  /\ Cardinality(S) \in Nat
         /\ SetToSeq(S) \in [1 .. Cardinality(S) -> S]
         /\ \A i, j \in 1 .. Cardinality(S) : SetToSeq(S)[i] = SetToSeq(S)[j] => i = j
         /\ \A x \in S : \E i \in 1 .. Cardinality(S) : SetToSeq(S)[i] = x
<1> DEFINE n == Cardinality(S)
           order == SetToSeq(S)
<1>1. n \in Nat /\ ExistsBijection(1 .. n, S)
  BY FS_CardinalityType
<1>2. \E f \in [1 .. n -> S] : IsInjective(f)
  BY <1>1 DEF ExistsBijection, Bijection, Injection
<1>3. order \in [1 .. n -> S] /\ IsInjective(order)
  BY <1>2 DEF SetToSeq
<1>4. order \in Injection(1 .. n, S)
  BY <1>3 DEF Injection
<1>5. Cardinality(1 .. n) = n
  <2>1. ExistsBijection(1 .. n, 1 .. n)
    <3>1. [i \in 1 .. n |-> i] \in Bijection(1 .. n, 1 .. n)
      BY DEF Bijection, Injection, Surjection, IsInjective
    <3> QED
      BY <3>1 DEF ExistsBijection
  <2> QED
    BY <1>1, <2>1, FS_CountingElements
<1>6. order \in Surjection(1 .. n, S)
  BY <1>4, <1>5, FS_Injection
<1> QED
  BY <1>1, <1>3, <1>6 DEF IsInjective, Surjection

\* The effect recorded for one declared state.
Imported(rec, entries, e) ==
  /\ rec \in ActionRecord /\ rec.kind = e[2] /\ rec.lifecycle = "APPLIED"
  /\ rec.subject = e[1] /\ rec.case = e /\ rec.parent = 0
  /\ rec.amount = (IF e[2] = "FREEZE" THEN entries[e[1]].frozenAmount ELSE 0)
  /\ rec.prior = 0 /\ rec.priorFlag = FALSE

\* What the seal writes of it.
ImportRecord(entries, e) ==
  [Record(e[2], e[1], e[1], None,
          IF e[2] = "FREEZE" THEN entries[e[1]].frozenAmount ELSE 0, e, 0)
     EXCEPT !.prior = 0, !.priorFlag = FALSE]

\* That is the effect of the declared state.
LEMMA ImportedIs ==
  ASSUME TypeOK, NEW entries \in Manifests, NEW e \in (DOMAIN entries) \X Family
  PROVE  Imported(ImportRecord(entries, e), entries, e)
<1> DEFINE a == e[1]
           f == e[2]
<1>1. a \in Accounts /\ f \in Family /\ entries[a].frozenAmount \in Nat
  BY DEF Manifests, Amounts
<1>2. PICK m \in Nat : m = IF f = "FREEZE" THEN entries[a].frozenAmount ELSE 0
  BY <1>1
<1>3. e \in Cases /\ 0 \in Nat /\ None \in Accounts \cup {None}
  BY <1>1 DEF Cases
<1>4. f \in {"FREEZE", "RESTRICT", "SEIZE", "DISPOSE"}
  BY <1>1 DEF Family
<1>5. PICK r : r = Record(f, a, a, None, m, e, 0)
  OBVIOUS
<1>6. Recorded(r, f, a, a, m, e, 0)
  BY <1>1, <1>3, <1>4, <1>5, RecordIs
<1>7. PICK r1 : r1 = [r EXCEPT !.prior = 0]
  OBVIOUS
<1>8. /\ r1 \in ActionRecord /\ r1.prior = 0 /\ r1.kind = r.kind
      /\ r1.lifecycle = r.lifecycle /\ r1.subject = r.subject /\ r1.case = r.case
      /\ r1.parent = r.parent /\ r1.amount = r.amount
  BY <1>6, <1>7 DEF Recorded, ActionRecord
<1>9. PICK r2 : r2 = [r1 EXCEPT !.priorFlag = FALSE]
  OBVIOUS
<1>10. /\ r2 \in ActionRecord /\ r2.prior = 0 /\ r2.kind = r1.kind
       /\ r2.lifecycle = r1.lifecycle /\ r2.subject = r1.subject /\ r2.case = r1.case
       /\ r2.parent = r1.parent /\ r2.amount = r1.amount /\ r2.priorFlag = FALSE
  BY <1>8, <1>9 DEF ActionRecord
<1>11. Imported(r2, entries, e)
  BY <1>2, <1>6, <1>8, <1>10 DEF Recorded, Imported
<1>12. r2 = ImportRecord(entries, e)
  <2>1. r2 = [r EXCEPT !.prior = 0, !.priorFlag = FALSE]
    BY <1>7, <1>9
  <2> QED
    BY <1>2, <1>5, <2>1 DEF ImportRecord
<1> QED
  BY <1>11, <1>12

\* A place in the enumeration.
Place(order, e) == CHOOSE i \in DOMAIN order : order[i] = e

\* The declared states are numbered from 1, and each is in force alone.
Sealing(entries, S, n, order, at) ==
  /\ S \subseteq Accounts \X Family /\ n \in Nat
  /\ order \in [1 .. n -> S] /\ at \in [S -> 1 .. n]
  /\ \A e \in S : order[at[e]] = e
  /\ \A i \in 1 .. n : at[order[i]] = i
  /\ \A a \in Accounts : <<a, "FREEZE">> \in S
       <=> a \in DOMAIN entries /\ entries[a].frozenAmount # 0
  /\ \A a \in Accounts : <<a, "RESTRICT">> \in S
       <=> a \in DOMAIN entries /\ entries[a].restricted
  /\ actions' \in Seq(ActionRecord) /\ DOMAIN actions' = 1 .. n
  /\ \A i \in 1 .. n : Imported(actions'[i], entries, order[i])
  /\ freezeHead' = [a \in Accounts |-> IF <<a, "FREEZE">> \in S
                                       THEN at[<<a, "FREEZE">>] ELSE 0]
  /\ restrictionHead' = [a \in Accounts |-> IF <<a, "RESTRICT">> \in S
                                            THEN at[<<a, "RESTRICT">>] ELSE 0]
  /\ cases' = [c \in Cases |->
                 IF c \in S THEN [phase |-> "OPEN", family |-> c[2], head |-> at[c]]
                 ELSE cases[c]]

\* The seal does that.
LEMMA SealingIs ==
  ASSUME TypeOK, NEW entries \in Manifests, seal(entries)
  PROVE  \E S, n, order, at : Sealing(entries, S, n, order, at)
<1> USE DEF NoHead
<1> DEFINE S == {e \in (DOMAIN entries) \X Family :
                   IF e[2] = "FREEZE" THEN entries[e[1]].frozenAmount # 0
                   ELSE entries[e[1]].restricted}
           order == SetToSeq(S)
           n == Cardinality(S)
           at == [e \in S |-> Place(order, e)]
<1>1. DOMAIN entries \subseteq Accounts
  BY DEF Manifests
<1>2. S \subseteq Accounts \X Family
  BY <1>1
<1>3. IsFiniteSet(S)
  <2>1. IsFiniteSet(Family)
    <3>1. Family = {"FREEZE"} \cup {"RESTRICT"}
      BY DEF Family
    <3> QED
      BY <3>1, FS_Singleton, FS_Union
  <2>2. IsFiniteSet(Accounts \X Family)
    BY <2>1, CasesFinite, FS_Product
  <2> HIDE DEF S
  <2> QED
    BY <1>2, <2>2, FS_Subset
<1>4. /\ \A a \in Accounts : <<a, "FREEZE">> \in S
           <=> a \in DOMAIN entries /\ entries[a].frozenAmount # 0
      /\ \A a \in Accounts : <<a, "RESTRICT">> \in S
           <=> a \in DOMAIN entries /\ entries[a].restricted
  BY DEF Family
<1>5. \A e \in S : e = <<e[1], e[2]>> /\ e \in (DOMAIN entries) \X Family
  OBVIOUS
<1>6. /\ actions' = [i \in DOMAIN order |-> ImportRecord(entries, order[i])]
      /\ freezeHead' = [a \in Accounts |->
           IF <<a, "FREEZE">> \in S THEN Place(order, <<a, "FREEZE">>) ELSE 0]
      /\ restrictionHead' = [a \in Accounts |->
           IF <<a, "RESTRICT">> \in S THEN Place(order, <<a, "RESTRICT">>) ELSE 0]
      /\ cases' = [c \in Cases |->
           IF c \in S
           THEN [phase |-> "OPEN", family |-> c[2],
                 head |-> Place(order, <<c[1], c[2]>>)]
           ELSE cases[c]]
  BY DEF seal, Place, ImportRecord
<1> HIDE DEF S
<1>7. /\ n \in Nat /\ order \in [1 .. n -> S]
      /\ \A i, j \in 1 .. n : order[i] = order[j] => i = j
      /\ \A e \in S : \E i \in 1 .. n : order[i] = e
  BY <1>3, Enumerated
<1> HIDE DEF order, n
<1>8. \A e \in S : at[e] \in 1 .. n /\ order[at[e]] = e
  <2> TAKE e \in S
  <2>1. \E i \in 1 .. n : order[i] = e
    BY <1>7
  <2>2. Place(order, e) \in 1 .. n /\ order[Place(order, e)] = e
    <3>1. DOMAIN order = 1 .. n
      BY <1>7
    <3> QED
      BY <2>1, <3>1 DEF Place
  <2> QED
    BY <2>2
<1>9. \A e \in S : at[e] = Place(order, e)
  OBVIOUS
<1>10. at = [e \in S |-> at[e]]
  OBVIOUS
<1> HIDE DEF at
<1>11. at \in [S -> 1 .. n] /\ \A i \in 1 .. n : at[order[i]] = i
  BY <1>7, <1>8, <1>10
<1>12. DOMAIN order = 1 .. n
  BY <1>7
<1>13. /\ actions' \in Seq(ActionRecord) /\ DOMAIN actions' = 1 .. n
       /\ \A i \in 1 .. n : Imported(actions'[i], entries, order[i])
  <2>1. ASSUME NEW i \in 1 .. n PROVE Imported(actions'[i], entries, order[i])
    <3>1. order[i] \in (DOMAIN entries) \X Family
      BY <1>5, <1>7
    <3>2. actions'[i] = ImportRecord(entries, order[i])
      BY <1>6, <1>12
    <3> QED
      BY <3>1, <3>2, ImportedIs
  <2>2. actions' \in [1 .. n -> ActionRecord] /\ DOMAIN actions' = 1 .. n
    <3>1. DOMAIN actions' = 1 .. n /\ actions' = [i \in 1 .. n |-> actions'[i]]
      BY <1>6, <1>12
    <3>2. \A i \in 1 .. n : actions'[i] \in ActionRecord
      BY <2>1 DEF Imported
    <3> QED
      BY <3>1, <3>2
  <2>3. actions' \in Seq(ActionRecord)
    BY <1>7, <2>2, SeqDef
  <2> QED
    BY <2>1, <2>2, <2>3
<1>14. /\ freezeHead' = [a \in Accounts |-> IF <<a, "FREEZE">> \in S
                                            THEN at[<<a, "FREEZE">>] ELSE 0]
       /\ restrictionHead' = [a \in Accounts |-> IF <<a, "RESTRICT">> \in S
                                                 THEN at[<<a, "RESTRICT">>] ELSE 0]
  BY <1>6, <1>9, <1>12
<1>15. cases' = [c \in Cases |->
                   IF c \in S THEN [phase |-> "OPEN", family |-> c[2], head |-> at[c]]
                   ELSE cases[c]]
  BY <1>5, <1>6, <1>9, <1>12
<1>16. Sealing(entries, S, n, order, at)
  BY <1>2, <1>4, <1>7, <1>8, <1>11, <1>13, <1>14, <1>15 DEF Sealing
<1> QED
  BY <1>16

\* What the seal takes over is accounted for by what it records.
LEMMA SealKeeps ==
  ASSUME ProfileInv, NEW entries \in Manifests, seal(entries)
  PROVE  ProfileInv'
<1> USE DEF NoHead
<1>1. TypeOK /\ TokenOK /\ RecordsInv /\ FrozenWithin
  BY DEF ProfileInv, TypeOK
<1>2. PICK S, n, order, at : Sealing(entries, S, n, order, at)
  BY <1>1, SealingIs
<1>3. /\ profile = "partial" /\ ~ sealed /\ sealed' /\ profile' = profile
      /\ Matches(entries)
      /\ owned' = [a \in Accounts |->
                     IF a \in DOMAIN entries
                     THEN [target |-> entries[a].frozenAmount,
                           applied |-> entries[a].frozenAmount,
                           restricted |-> entries[a].restricted]
                     ELSE owned[a]]
      /\ disturbed' = {a \in Accounts \ DOMAIN entries : frozen[a] # 0 \/ restricted[a]}
      /\ UNCHANGED <<balance, frozen, restricted, custody, backing>>
  BY DEF seal
<1>4. /\ \A a \in Accounts : owned[a] = [target |-> 0, applied |-> 0, restricted |-> FALSE]
      /\ \A c \in Cases : cases[c].phase = "NONE" /\ cases[c].head = 0 /\ custody[c] = None
  BY <1>3 DEF ProfileInv, FreshBefore
<1>5. \A a \in DOMAIN entries : /\ a \in Accounts /\ entries[a].frozenAmount \in Nat
                                /\ entries[a].restricted \in BOOLEAN
  BY DEF Manifests, Amounts
<1>6. TokenOK'
  <2>1. ASSUME NEW a \in Accounts PROVE owned'[a] \in OwnedRecord
    BY <1>3, <1>5, <1>1 DEF TokenOK, OwnedRecord
  <2>2. owned' \in [Accounts -> OwnedRecord]
    BY <1>3, <2>1
  <2> QED
    BY <1>1, <1>3, <2>2 DEF TokenOK
<1>7. TypeOK'
  <2>1. freezeHead' \in [Accounts -> Nat] /\ restrictionHead' \in [Accounts -> Nat]
    BY <1>2 DEF Sealing
  <2>2. ASSUME NEW c \in Cases PROVE cases'[c] \in CaseRecord
    <3>1. c \in S => c[2] \in {"FREEZE", "RESTRICT"} /\ at[c] \in Nat
      BY <1>2 DEF Sealing, Family
    <3> QED
      BY <1>1, <1>2, <3>1 DEF Sealing, CaseRecord, TypeOK
  <2>3. cases' \in [Cases -> CaseRecord]
    BY <1>2, <2>2 DEF Sealing
  <2> QED
    BY <1>1, <1>2, <1>3, <1>6, <2>1, <2>3 DEF TypeOK, Sealing
<1>8. ASSUME NEW i \in DOMAIN actions'
      PROVE  /\ order[i] \in S /\ at[order[i]] = i /\ i > 0
             /\ order[i] = <<actions'[i].subject, actions'[i].kind>>
             /\ actions'[i].subject \in Accounts
             /\ actions'[i].kind \in Family
             /\ Imported(actions'[i], entries, order[i])
  BY <1>2 DEF Sealing, Imported
<1>9. ASSUME NEW kind \in Family, NEW a \in Accounts
      PROVE  /\ HeadOf(kind, a)' = IF <<a, kind>> \in S THEN at[<<a, kind>>] ELSE 0
             /\ Live(kind, a)' = IF <<a, kind>> \in S THEN {at[<<a, kind>>]} ELSE {}
  <2>1. HeadOf(kind, a)' = IF <<a, kind>> \in S THEN at[<<a, kind>>] ELSE 0
    BY <1>2 DEF Sealing, HeadOf, Family
  <2>2. ASSUME NEW i \in Live(kind, a)' PROVE <<a, kind>> \in S /\ i = at[<<a, kind>>]
    BY <1>8 DEF Live
  <2>3. ASSUME <<a, kind>> \in S PROVE at[<<a, kind>>] \in Live(kind, a)'
    <3>1. PICK i \in DOMAIN actions' : i = at[<<a, kind>>] /\ order[i] = <<a, kind>>
      BY <1>2, <2>3 DEF Sealing
    <3>2. Imported(actions'[i], entries, <<a, kind>>)
      BY <1>8, <3>1
    <3> QED
      BY <3>1, <3>2 DEF Live, Imported
  <2> QED
    BY <2>1, <2>2, <2>3
<1>10. ASSUME NEW e \in S
       PROVE  /\ at[e] \in DOMAIN actions' /\ at[e] \in Nat /\ at[e] > 0
              /\ Imported(actions'[at[e]], entries, e)
              /\ e \in Cases
              /\ cases'[e].phase = "OPEN" /\ cases'[e].family = e[2] /\ cases'[e].head = at[e]
  <2>1. at[e] \in DOMAIN actions' /\ at[e] \in Nat /\ at[e] > 0 /\ order[at[e]] = e
    BY <1>2 DEF Sealing
  <2>2. e \in Cases
    BY <1>2 DEF Sealing, Cases
  <2> QED
    BY <1>2, <1>8, <2>1, <2>2 DEF Sealing
<1>11. HeadsMatch'
  <2> SUFFICES ASSUME NEW kind \in Family, NEW a \in Accounts PROVE HeadMatches(kind, a)'
    BY DEF HeadsMatch
  <2>1. CASE <<a, kind>> \in S
    <3>1. PICK h : h = at[<<a, kind>>]
      OBVIOUS
    <3>2. HeadOf(kind, a)' = h /\ h \in Live(kind, a)' /\ actions'[h].case = <<a, kind>>
      BY <1>9, <1>10, <2>1, <3>1 DEF Imported
    <3> QED
      BY <1>10, <2>1, <3>1, <3>2 DEF HeadMatches
  <2>2. CASE <<a, kind>> \notin S
    BY <1>9, <2>2 DEF HeadMatches
  <2> QED
    BY <2>1, <2>2
<1>12. OwnedMatches'
  <2> SUFFICES ASSUME NEW a \in Accounts
               PROVE  /\ owned'[a].target
                           = IF freezeHead'[a] = 0 THEN 0 ELSE actions'[freezeHead'[a]].amount
                      /\ owned'[a].restricted = (restrictionHead'[a] # 0)
    BY DEF OwnedMatches
  <2>1. owned'[a].target = IF freezeHead'[a] = 0 THEN 0 ELSE actions'[freezeHead'[a]].amount
    <3>1. CASE <<a, "FREEZE">> \in S
      <4>1. freezeHead'[a] = at[<<a, "FREEZE">>] /\ a \in DOMAIN entries
        BY <1>2, <3>1 DEF Sealing
      <4>2. PICK h \in Nat : h = at[<<a, "FREEZE">>]
        BY <1>10, <3>1
      <4>3. h > 0 /\ Imported(actions'[h], entries, <<a, "FREEZE">>)
        BY <1>10, <3>1, <4>2
      <4>4. actions'[h].amount = entries[a].frozenAmount
        BY <4>3 DEF Imported
      <4> QED
        BY <1>3, <4>1, <4>2, <4>3, <4>4
    <3>2. CASE <<a, "FREEZE">> \notin S
      <4>1. freezeHead'[a] = 0 /\ (a \in DOMAIN entries => entries[a].frozenAmount = 0)
        BY <1>2, <3>2 DEF Sealing
      <4> QED
        BY <1>3, <1>4, <4>1
    <3> QED
      BY <3>1, <3>2
  <2>2. owned'[a].restricted = (restrictionHead'[a] # 0)
    <3>1. CASE <<a, "RESTRICT">> \in S
      <4>1. /\ restrictionHead'[a] = at[<<a, "RESTRICT">>] /\ a \in DOMAIN entries
            /\ entries[a].restricted
        BY <1>2, <3>1 DEF Sealing
      <4>2. restrictionHead'[a] # 0
        BY <1>10, <3>1, <4>1
      <4>3. owned'[a].restricted = entries[a].restricted
        BY <1>3, <4>1
      <4>4. owned'[a].restricted = TRUE
        BY <1>5, <4>1, <4>3
      <4> QED
        BY <4>2, <4>4
    <3>2. CASE <<a, "RESTRICT">> \notin S
      <4>1. restrictionHead'[a] = 0 /\ (a \in DOMAIN entries => ~ entries[a].restricted)
        BY <1>2, <3>2 DEF Sealing
      <4>2. owned'[a].restricted = FALSE
        BY <1>3, <1>4, <1>5, <4>1
      <4> QED
        BY <4>1, <4>2
    <3> QED
      BY <3>1, <3>2
  <2> QED
    BY <2>1, <2>2
<1>13. FreezesNest'
  <2> SUFFICES ASSUME NEW a \in Accounts, NEW i \in Live("FREEZE", a)'
               PROVE  /\ i <= freezeHead'[a] /\ actions'[i].parent < i
                      /\ \A j \in Live("FREEZE", a)' : j < i => j <= actions'[i].parent
                      /\ actions'[i].parent = 0 /\ actions'[i].prior = 0
    BY DEF FreezesNest
  <2>1. /\ <<a, "FREEZE">> \in S /\ i = at[<<a, "FREEZE">>]
        /\ Live("FREEZE", a)' = {i} /\ freezeHead'[a] = i
    BY <1>9 DEF Family, HeadOf
  <2>2. i > 0 /\ i \in Nat /\ Imported(actions'[i], entries, <<a, "FREEZE">>)
    BY <1>2, <1>10, <2>1 DEF Sealing
  <2> QED
    BY <2>1, <2>2 DEF Imported
<1>14. RestrictionsAlone'
  <2> SUFFICES ASSUME NEW a \in Accounts, NEW i \in Live("RESTRICT", a)'
               PROVE  /\ i = restrictionHead'[a] /\ actions'[i].parent = 0
                      /\ ~ actions'[i].priorFlag
    BY DEF RestrictionsAlone
  <2>1. <<a, "RESTRICT">> \in S /\ i = at[<<a, "RESTRICT">>] /\ restrictionHead'[a] = i
    BY <1>9 DEF Family, HeadOf
  <2>2. Imported(actions'[i], entries, <<a, "RESTRICT">>)
    BY <1>10, <2>1
  <2>3. actions'[i].parent = 0 /\ actions'[i].priorFlag = FALSE
    BY <2>2 DEF Imported
  <2> QED
    BY <2>1, <2>3
<1>15. SeizedFromHolders'
  <2>1. ASSUME NEW i \in DOMAIN actions' PROVE actions'[i].kind # "SEIZE"
    BY <1>8 DEF Family
  <2> QED
    BY <2>1 DEF SeizedFromHolders
<1>16. CasesOwn'
  <2> SUFFICES ASSUME NEW c \in Cases PROVE CaseOwns(c)'
    BY DEF CasesOwn
  <2>1. CASE c \in S
    <3>1. c[2] # "CUSTODY" /\ custody'[c] = None
      BY <1>2, <1>3, <1>4, <2>1 DEF Sealing, Family
    <3>2. actions'[at[c]].case = c
      BY <1>10, <2>1 DEF Imported
    <3> QED
      BY <1>10, <2>1, <3>1, <3>2 DEF CaseOwns
  <2>2. CASE c \notin S
    <3>1. cases'[c] = cases[c] /\ custody'[c] = None
      BY <1>2, <1>3, <1>4, <2>2 DEF Sealing
    <3> QED
      BY <1>4, <3>1 DEF CaseOwns
  <2> QED
    BY <2>1, <2>2
<1>17. Backed'
  BY <1>1, <1>3 DEF Backed, Encumbered, RecordsInv
<1>18. FrozenWithin'
  BY <1>1, <1>3 DEF FrozenWithin
<1>19. AllFine'
  <2> SUFFICES ASSUME NEW a \in Accounts, a \notin disturbed' PROVE Fine(a)'
    BY DEF AllFine
  <2>1. frozen[a] \in Nat /\ balance[a] \in Nat /\ frozen[a] <= balance[a]
    BY <1>1 DEF TokenOK, FrozenWithin
  <2>2. CASE a \in DOMAIN entries
    <3>1. /\ owned'[a].target = frozen[a] /\ owned'[a].applied = frozen[a]
          /\ owned'[a].restricted = restricted[a]
      BY <1>3, <2>2 DEF Matches
    <3> QED
      BY <1>3, <2>1, <3>1 DEF Fine, Floored
  <2>3. CASE a \notin DOMAIN entries
    <3>1. frozen[a] = 0 /\ ~ restricted[a]
      BY <1>3, <2>3
    <3>2. restricted[a] = FALSE
      BY <1>1, <3>1 DEF TokenOK
    <3>3. owned'[a].target = 0 /\ owned'[a].applied = 0 /\ owned'[a].restricted = FALSE
      BY <1>3, <1>4, <2>3
    <3>4. /\ frozen'[a] = 0 /\ restricted'[a] = FALSE /\ balance'[a] \in Nat
          /\ profile' # "hook"
      BY <1>3, <2>1, <3>1, <3>2
    <3>5. restricted'[a] = owned'[a].restricted
      BY <3>3, <3>4
    <3>6. Floored(owned'[a].target, balance'[a]) = 0
      BY <3>3, <3>4 DEF Floored
    <3>7. frozen'[a] = owned'[a].applied /\ frozen'[a] <= 0
      BY <3>3, <3>4
    <3> QED
      BY <3>4, <3>5, <3>6, <3>7 DEF Fine
  <2> QED
    BY <2>2, <2>3
<1>20. FreshBefore'
  BY <1>3 DEF FreshBefore
<1> QED
  BY <1>7, <1>11, <1>12, <1>13, <1>14, <1>15, <1>16, <1>17, <1>18, <1>19, <1>20
     DEF ProfileInv, RecordsInv, RecordsOK
-----------------------------------------------------------------------------
(* The invariant, and the properties it implies *)

\* Nothing has happened in the beginning.
LEMMA InitKeeps == ASSUME Init PROVE ProfileInv
<1> USE DEF Init, NoHead
<1>1. TypeOK
  <2>1. TokenOK
    <3>1. [target |-> 0, applied |-> 0, restricted |-> FALSE] \in OwnedRecord
      BY DEF OwnedRecord
    <3> QED
      BY <3>1 DEF TokenOK
  <2>2. [phase |-> "NONE", family |-> "NONE", head |-> 0] \in CaseRecord
    BY DEF CaseRecord
  <2>3. cases \in [Cases -> CaseRecord]
    BY <2>2
  <2>4. actions \in Seq(ActionRecord)
    OBVIOUS
  <2> QED
    BY <2>1, <2>3, <2>4 DEF TypeOK
<1>2. DOMAIN actions = {}
  OBVIOUS
<1>3. \A a \in Accounts : owned[a].target = 0 /\ owned[a].restricted = FALSE
  OBVIOUS
<1>4. HeadsMatch /\ OwnedMatches
  BY <1>3 DEF HeadsMatch, HeadMatches, HeadOf, OwnedMatches, Family
<1>5. FreezesNest /\ RestrictionsAlone /\ SeizedFromHolders
  BY <1>2 DEF FreezesNest, RestrictionsAlone, SeizedFromHolders, Live
<1>6. CasesOwn
  BY DEF CasesOwn, CaseOwns
<1>7. Backed
  <2> DEFINE f == [c \in Cases |-> Encumbered(c)]
  <2>1. \A c \in Cases : f[c] = 0
    BY DEF Encumbered
  <2> HIDE DEF f
  <2>2. SumFunctionOnSet(f, Cases) = 0
    BY <2>1, CasesFinite, SumZero
  <2>3. 0 <= balance[Adapter]
    BY DEF Accounts
  <2> QED
    BY <2>2, <2>3 DEF Backed, f
<1>8. FreshBefore
  BY DEF FreshBefore
<1>9. FrozenWithin
  BY DEF FrozenWithin
<1>10. AllFine
  <2> SUFFICES ASSUME NEW a \in Accounts PROVE Fine(a)
    BY DEF AllFine
  <2>1. Floored(owned[a].target, balance[a]) = 0
    <3>1. balance[a] \in Nat
      OBVIOUS
    <3> QED
      BY <1>3, <3>1 DEF Floored
  <2>2. frozen[a] = owned[a].applied /\ frozen[a] <= 0 /\ frozen[a] = 0
    OBVIOUS
  <2>3. restricted[a] = FALSE
    OBVIOUS
  <2>4. restricted[a] = owned[a].restricted
    BY <1>3, <2>3
  <2> QED
    BY <2>1, <2>2, <2>4 DEF Fine
<1> QED
  BY <1>1, <1>4, <1>5, <1>6, <1>7, <1>8, <1>9, <1>10 DEF ProfileInv, RecordsInv, RecordsOK

\* Every step keeps the invariant; one that spends a nonce is a command.
LEMMA StepKeeps ==
  ASSUME ProfileInv, [Next]_vars
  PROVE  /\ ProfileInv'
         /\ used' # used => Closes /\ sealed /\ ~ drifted
<1>1. ASSUME NEW n \in Nonces, Command(n)
      PROVE  ProfileInv' /\ Closes /\ sealed /\ ~ drifted
  BY <1>1, CommandKeeps
<1>2. ASSUME NEW entries \in Manifests, seal(entries)
      PROVE  ProfileInv' /\ used' = used
  BY <1>2, SealKeeps DEF seal
<1>3. ASSUME NEW a \in Accounts, resynchroniseFrozen(a)
      PROVE  ProfileInv' /\ used' = used
  BY <1>3, ResynchroniseKeeps DEF resynchroniseFrozen
<1>4. ASSUME NEW a \in Accounts, UpstreamChange(a)
      PROVE  ProfileInv' /\ used' = used
  BY <1>4, UpstreamKeeps DEF UpstreamChange
<1>5. ASSUME NEW from \in Accounts, NEW to \in Accounts, NEW amount \in Amounts,
             transfer(from, to, amount)
      PROVE  ProfileInv' /\ used' = used
  BY <1>5, TransferKeeps DEF transfer
<1>6. CASE TopologyChange
  BY <1>6, NothingMoves DEF TopologyChange
<1>7. CASE UNCHANGED vars
  BY <1>7, NothingMoves DEF vars
<1> QED
  BY <1>1, <1>2, <1>3, <1>4, <1>5, <1>6, <1>7 DEF Next

\* Whatever the commands, the token and its other agents do, the records, the
\* token and what the adapter owns agree as the invariant says.
THEOREM ProfileHolds == Spec => []ProfileInv
<1>1. Init => ProfileInv
  BY InitKeeps
<1>2. ProfileInv /\ [Next]_vars => ProfileInv'
  BY StepKeeps
<1> QED
  BY <1>1, <1>2, PTL DEF Spec

\* What the adapter holds against an account is what its effects in force say,
\* each the head of an open case that can undo it.
THEOREM OwnedAlwaysAccounted == Spec => []OwnedIsAccounted
<1>1. ProfileInv => OwnedIsAccounted
  <2> SUFFICES ASSUME ProfileInv PROVE OwnedIsAccounted
    OBVIOUS
  <2>1. OwnedMatches /\ HeadsMatch
    BY DEF ProfileInv, RecordsInv, RecordsOK
  <2>2. ASSUME NEW a \in Accounts, NEW h \in {freezeHead[a], restrictionHead[a]} \ {NoHead}
        PROVE  /\ actions[h].lifecycle = "APPLIED" /\ actions[h].subject = a
               /\ cases[actions[h].case].head = h
               /\ cases[actions[h].case].phase = "OPEN"
    <3>1. PICK kind \in Family : h = HeadOf(kind, a)
      BY DEF HeadOf, Family
    <3>2. HeadMatches(kind, a)
      BY <2>1 DEF HeadsMatch
    <3> QED
      BY <2>2, <3>1, <3>2 DEF HeadMatches, Live
  <2>3. ASSUME NEW a \in Accounts
        PROVE  /\ owned[a].target
                    = IF freezeHead[a] = NoHead THEN 0 ELSE actions[freezeHead[a]].amount
               /\ owned[a].restricted = (restrictionHead[a] # NoHead)
    BY <2>1 DEF OwnedMatches
  <2> QED
    BY <2>2, <2>3 DEF OwnedIsAccounted
<1> QED
  BY <1>1, ProfileHolds, PTL

\* After the seal an account nobody disturbed shows what the adapter applied,
\* at most the floor, and in the hook profile the floor.
THEOREM FloorAlwaysShown == Spec => []FrozenFloor
<1>1. ProfileInv => FrozenFloor
  <2> SUFFICES ASSUME ProfileInv, sealed, NEW a \in Accounts \ disturbed
               PROVE  LET floor == Min({owned[a].target, balance[a]})
                      IN  /\ _requireOwnedUpstreamState(Unit, a)
                          /\ frozen[a] <= floor
                          /\ profile = "hook" => frozen[a] = floor
    BY DEF FrozenFloor
  <2>1. Fine(a)
    BY DEF ProfileInv, AllFine
  <2>2. owned[a].target \in Nat /\ balance[a] \in Nat
    BY DEF ProfileInv, TypeOK, TokenOK, OwnedRecord
  <2>3. Min({owned[a].target, balance[a]}) = Floored(owned[a].target, balance[a])
    BY <2>2, MinPair DEF Floored
  <2> QED
    BY <2>1, <2>3 DEF Fine, _requireOwnedUpstreamState, Unit
<1> QED
  BY <1>1, ProfileHolds, PTL

\* The adapter's balance covers what is in custody, which is what backing says,
\* for as long as the custody case is open.
THEOREM CustodyAlwaysBacked == Spec => []CustodyBacked
<1>1. ProfileInv => CustodyBacked
  <2> SUFFICES ASSUME ProfileInv PROVE CustodyBacked
    OBVIOUS
  <2>1. Backed /\ CasesOwn
    BY DEF ProfileInv, RecordsInv
  <2>2. \A c \in Cases : (custody[c] # None)
                         <=> (cases[c].phase = "OPEN" /\ cases[c].family = "CUSTODY")
    BY <2>1 DEF CasesOwn, CaseOwns
  <2>3. /\ backing = SumFunctionOnSet([c \in Cases |-> Encumbered(c)], Cases)
        /\ backing <= balance[Adapter]
    BY <2>1 DEF Backed
  <2> QED
    BY <2>2, <2>3 DEF CustodyBacked
<1> QED
  BY <1>1, ProfileHolds, PTL

\* Each account a step within the adapter's bounds changes was in a state the
\* adapter owned and is in one again.
LEMMA ClosesClosed ==
  ASSUME Closes, NEW a \in Accounts
  PROVE  <<balance[a], frozen[a], restricted[a], owned[a]>>'
           # <<balance[a], frozen[a], restricted[a], owned[a]>>
         => _requireOwnedUpstreamState(Unit, a) /\ _requireOwnedUpstreamState(Unit, a)'
<1>1. CASE Untouched(a)
  BY <1>1 DEF Untouched
<1>2. CASE Settled(a)
  BY <1>2 DEF Settled, _requireOwnedUpstreamState, Unit
<1> QED
  BY <1>1, <1>2 DEF Closes

\* A command acts under the sealed topology on accounts in the state the adapter
\* owns, leaves them so and conserves the balances, whatever the token did.
THEOREM CommandsFailClosed == Spec => FailsClosed
<1> DEFINE Closed == used' # used =>
      /\ sealed /\ ~ drifted
      /\ SumFunction(balance') = SumFunction(balance)
      /\ \A a \in Accounts :
           <<balance[a], frozen[a], restricted[a], owned[a]>>'
             # <<balance[a], frozen[a], restricted[a], owned[a]>>
           => _requireOwnedUpstreamState(Unit, a) /\ _requireOwnedUpstreamState(Unit, a)'
<1>1. ProfileInv /\ [Next]_vars => [Closed]_vars
  <2> SUFFICES ASSUME ProfileInv, [Next]_vars, used' # used PROVE Closed
    OBVIOUS
  <2>1. Closes /\ sealed /\ ~ drifted
    BY StepKeeps
  <2>2. SumFunction(balance') = SumFunction(balance)
    BY <2>1 DEF Closes
  <2> QED
    BY <2>1, <2>2, ClosesClosed
<1>2. Spec => [][Closed]_vars
  <2> HIDE DEF Closed
  <2> QED
    BY <1>1, ProfileHolds, PTL DEF Spec
<1> QED
  BY <1>2 DEF FailsClosed
=============================================================================
