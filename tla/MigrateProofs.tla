--------------------------- MODULE MigrateProofs ----------------------------
(***************************************************************************)
(* What Migrate guarantees for every set of processes and releases: the    *)
(* cursor names the migration that ran last as long as every version fits  *)
(* user_version, and a commit by a process whose copy of the cursor is not *)
(* stale moves it forward.                                                 *)
(***************************************************************************)
EXTENDS Migrate, WellFoundedInduction, TLAPS

\* Every version of every release can be stored in user_version.
VersionsFit == \A r \in Releases : \A v \in Range(r) : v \in Nat => v <= MaxUserVersion

\* A call that is past its start has only usable versions left.
TodoFits ==
    \A p \in Procs : pc[p] \in {"loop", "bump", "commit"} => \A v \in todo[p] : v <= MaxUserVersion

\* The draft of the lock's holder, conjunct by conjunct of what it will commit.
DraftFollows ==
    \A p \in Procs : pc[p] \in {"bump", "commit"} =>
        /\ lock = p
        /\ todo[p] # {}
        /\ current[p] < Least(todo[p])
        /\ draft[p].applied = Append(db.applied, Least(todo[p]))
        /\ pc[p] = "commit" => draft[p].version = Least(todo[p])

HolderWrites == \A p \in Procs : lock = p => pc[p] \in {"bump", "commit"}

MigrateInv == TypeOK /\ TodoFits /\ DraftFollows /\ HolderWrites /\ CursorNamesLast

\* The loop's progress: a version it has left behind is covered by the cursor
\* copy and, if it was newer than the base, has been run; one still ahead
\* that the copy has reached is not newer than the base.
Progress ==
    \A p \in Procs : pc[p] \in {"loop", "bump", "commit", "ok"} =>
        \A v \in VersionsOf(release[p]) :
            /\ v \in Nat
            /\ v \notin todo[p] => v <= current[p]
            /\ v \notin todo[p] /\ v > base[p] => v \in Range(db.applied)
            /\ v \in todo[p] /\ v <= current[p] => v <= base[p]

OkIsEmpty == \A p \in Procs : pc[p] = "ok" => todo[p] = {}

SuccessInv == Progress /\ OkIsEmpty

-----------------------------------------------------------------------------
(* A set of versions that is not empty has a least one, and Least is it.   *)
LEMMA LeastIsLeast ==
    ASSUME NEW S \in SUBSET Nat, S # {}
    PROVE  Least(S) \in S /\ \A w \in S : Least(S) <= w
<1>1. OpToRel(<, Nat) = {ss \in Nat \X Nat : ss[1] < ss[2]}
  BY Zenon DEF OpToRel
<1>2. PICK v \in S : \A w \in S : ~(<<w, v>> \in OpToRel(<, Nat))
  BY NatLessThanWellFounded, WFMin
<1>3. ASSUME NEW w \in S PROVE v <= w
  <2>1. <<w, v>> \notin {ss \in Nat \X Nat : ss[1] < ss[2]}
    BY <1>1, <1>2, Zenon
  <2>2. w \in Nat /\ v \in Nat
    OBVIOUS
  <2> HIDE <1>2
  <2>3. ~(w < v)
    BY <2>1, <2>2
  <2> QED
    BY <2>2, <2>3
<1> QED
  BY <1>3 DEF Least

(* A longer log ends with what was appended.                               *)
LEMMA LastOfAppend ==
    ASSUME NEW s \in Seq(Nat), NEW v \in Nat
    PROVE  Append(s, v) \in Seq(Nat) /\ Append(s, v) # <<>> /\ Last(Append(s, v)) = v
BY DEF Last

(* The new database satisfies the invariant.                               *)
LEMMA InitMigrateInv == MigrateInit => MigrateInv
<1> SUFFICES ASSUME MigrateInit PROVE MigrateInv
  OBVIOUS
<1>1. TypeOK
  <2>1. db \in Databases
    BY DEF MigrateInit, Databases
  <2> QED
    BY <2>1, ReleasesAssumption DEF MigrateInit, TypeOK, PCs
<1>2. TodoFits /\ DraftFollows
  BY DEF MigrateInit, TodoFits, DraftFollows
<1>3. HolderWrites
  BY ReleasesAssumption DEF MigrateInit, HolderWrites
<1>4. CursorNamesLast
  BY DEF MigrateInit, CursorNamesLast
<1> QED
  BY <1>1, <1>2, <1>3, <1>4 DEF MigrateInv

(* Every step keeps types and the shape of the transaction in progress;    *)
(* only Commit writes the database, and then with the draft.               *)
LEMMA MigrateStep ==
    ASSUME VersionsFit, MigrateInv, [MigrateNext]_migrateVars
    PROVE  MigrateInv'
<1> USE DEF MigrateInv
<1>0. \A p \in Procs : todo[p] # {} =>
        /\ Least(todo[p]) \in todo[p] /\ Least(todo[p]) \in Nat
        /\ todo[p] \ {Least(todo[p])} \in SUBSET Nat
  BY LeastIsLeast DEF TypeOK
<1>1. CASE UNCHANGED migrateVars
  BY <1>1 DEF migrateVars, procVars, TypeOK, TodoFits, DraftFollows, HolderWrites, CursorNamesLast
<1>2. ASSUME NEW p \in Procs, Start(p) PROVE MigrateInv'
  <2>1. UNCHANGED <<db, lock, draft, release>> /\ pc[p] = "idle"
    BY <1>2 DEF Start
  <2>2. lock # p
    BY <2>1 DEF HolderWrites
  <2>3. CASE Unusable(release[p])
    <3>1. pc' = [pc EXCEPT ![p] = "failed"] /\ UNCHANGED <<todo, current, base>>
      BY <1>2, <2>3 DEF Start
    <3>2. runs' \in [Procs -> 0..MaxRuns]
      BY <1>2, ReleasesAssumption DEF Start, TypeOK
    <3>3. TypeOK'
      BY <2>1, <3>1, <3>2 DEF TypeOK, PCs
    <3> QED
      BY <2>1, <2>2, <3>1, <3>3 DEF TodoFits, DraftFollows, HolderWrites, CursorNamesLast, TypeOK
  <2>4. CASE ~Unusable(release[p])
    <3>1. /\ pc' = [pc EXCEPT ![p] = "loop"]
          /\ todo' = [todo EXCEPT ![p] = VersionsOf(release[p])]
          /\ current' = [current EXCEPT ![p] = db.version]
          /\ base' = [base EXCEPT ![p] = db.version]
      BY <1>2, <2>4 DEF Start
    <3>2. runs' \in [Procs -> 0..MaxRuns]
      BY <1>2, ReleasesAssumption DEF Start, TypeOK
    <3>3. release[p] \in Releases /\ release[p] \in Seq(Nat \cup {NoVersion})
      BY ReleasesAssumption DEF TypeOK
    <3>4. VersionsOf(release[p]) \in SUBSET Nat /\ \A v \in VersionsOf(release[p]) : v <= MaxUserVersion
      BY <2>4, <3>3 DEF VersionsOf, Unusable, Range, VersionsFit
    <3>5. db.version \in Nat
      BY DEF TypeOK, Databases
    <3>6. TypeOK'
      BY <2>1, <3>1, <3>2, <3>4, <3>5 DEF TypeOK, PCs
    <3>7. TodoFits'
      BY <3>1, <3>4 DEF TodoFits, TypeOK
    <3> QED
      BY <2>1, <2>2, <3>1, <3>6, <3>7 DEF DraftFollows, HolderWrites, CursorNamesLast, TypeOK
  <2> QED
    BY <2>3, <2>4
<1>3. ASSUME NEW p \in Procs, Skip(p) PROVE MigrateInv'
  <2>1. lock # p
    BY <1>3 DEF Skip, HolderWrites
  <2>2. TypeOK'
    BY <1>0, <1>3 DEF Skip, TypeOK
  <2>3. TodoFits'
    BY <1>3 DEF Skip, TodoFits, TypeOK
  <2> QED
    BY <1>3, <2>1, <2>2, <2>3 DEF Skip, DraftFollows, HolderWrites, CursorNamesLast, TypeOK
<1>4. ASSUME NEW p \in Procs, Finish(p) PROVE MigrateInv'
  <2>1. TypeOK'
    BY <1>4 DEF Finish, TypeOK, PCs, procVars
  <2> QED
    BY <1>4, <2>1 DEF Finish, TodoFits, DraftFollows, HolderWrites, CursorNamesLast, TypeOK, procVars
<1>5. ASSUME NEW p \in Procs, Body(p) PROVE MigrateInv'
  <2> DEFINE v == Least(todo[p])
  <2>1. v \in Nat /\ todo[p] # {}
    BY <1>0, <1>5 DEF Body
  <2>2. Apply(db, v) \in Databases /\ Apply(db, v).applied = Append(db.applied, v)
    BY <2>1, LastOfAppend DEF Apply, Databases, TypeOK
  <2>3. TypeOK'
    BY <1>5, <2>2 DEF Body, TypeOK, PCs, procVars
  <2>4. TodoFits'
    BY <1>5 DEF Body, TodoFits, TypeOK, procVars
  <2>5. HolderWrites'
    BY <1>5 DEF Body, HolderWrites, TypeOK
  <2>6. \A q \in Procs \ {p} : pc[q] \notin {"bump", "commit"}
    BY <1>5, ReleasesAssumption DEF Body, DraftFollows
  <2>7. DraftFollows'
    BY <1>5, <2>1, <2>2, <2>6 DEF Body, Behind, DraftFollows, TypeOK, procVars
  <2> QED
    BY <1>5, <2>3, <2>4, <2>5, <2>7 DEF Body, CursorNamesLast
<1>6. ASSUME NEW p \in Procs, Bump(p) PROVE MigrateInv'
  <2> DEFINE v == Least(todo[p])
  <2>1. v \in Nat /\ v <= MaxUserVersion /\ todo[p] # {}
    BY <1>0, <1>6 DEF Bump, DraftFollows, TodoFits
  <2>2. /\ Bumped(draft[p], v) \in Databases
        /\ Bumped(draft[p], v).version = v /\ Bumped(draft[p], v).applied = draft[p].applied
    BY <2>1 DEF Bumped, Databases, TypeOK
  <2>3. TypeOK'
    BY <1>6, <2>2 DEF Bump, TypeOK, PCs, procVars
  <2>4. TodoFits' /\ HolderWrites'
    BY <1>6 DEF Bump, TodoFits, HolderWrites, TypeOK, procVars
  <2>5. DraftFollows'
    BY <1>6, <2>2 DEF Bump, DraftFollows, TypeOK, procVars
  <2> QED
    BY <1>6, <2>3, <2>4, <2>5 DEF Bump, CursorNamesLast
<1>7. ASSUME NEW p \in Procs, Commit(p) PROVE MigrateInv'
  <2> DEFINE v == Least(todo[p])
  <2>1. /\ lock = p /\ todo[p] # {} /\ draft[p].version = v
        /\ draft[p].applied = Append(db.applied, v)
    BY <1>7 DEF Commit, DraftFollows
  <2>2. v \in Nat /\ db.applied \in Seq(Nat)
    BY <1>0, <2>1 DEF TypeOK, Databases
  <2>3. TypeOK'
    BY <1>0, <1>7, <2>1 DEF Commit, TypeOK, PCs
  <2>4. TodoFits'
    BY <1>7 DEF Commit, TodoFits, TypeOK
  <2>5. \A q \in Procs \ {p} : pc[q] \notin {"bump", "commit"}
    BY <2>1 DEF DraftFollows
  <2>6. DraftFollows' /\ HolderWrites'
    BY <1>7, <2>5, ReleasesAssumption DEF Commit, DraftFollows, HolderWrites, TypeOK
  <2>7. CursorNamesLast'
    BY <1>7, <2>1, <2>2, LastOfAppend DEF Commit, CursorNamesLast
  <2> QED
    BY <2>3, <2>4, <2>6, <2>7
<1>8. ASSUME NEW p \in Procs, Fails(p) PROVE MigrateInv'
  <2>1. /\ pc' = [pc EXCEPT ![p] = "failed"]
        /\ lock' = IF lock = p THEN "none" ELSE lock
        /\ UNCHANGED <<db, draft, procVars, runs>>
    BY <1>8 DEF Fails, Unlocked
  <2>2. TypeOK'
    BY <2>1 DEF TypeOK, PCs, procVars
  <2>3. TodoFits' /\ CursorNamesLast'
    BY <2>1 DEF TodoFits, CursorNamesLast, TypeOK, procVars
  <2>4. DraftFollows' /\ HolderWrites'
    BY <2>1, ReleasesAssumption DEF DraftFollows, HolderWrites, TypeOK, procVars
  <2> QED
    BY <2>2, <2>3, <2>4
<1>9. ASSUME NEW p \in Procs, Restart(p) PROVE MigrateInv'
  <2>1. /\ pc' = [pc EXCEPT ![p] = "idle"]
        /\ lock' = IF lock = p THEN "none" ELSE lock
        /\ todo' = [todo EXCEPT ![p] = {}]
        /\ current' = [current EXCEPT ![p] = 0]
        /\ base' = [base EXCEPT ![p] = 0]
        /\ draft' = [draft EXCEPT ![p] = db]
        /\ UNCHANGED <<db, runs>>
    BY <1>9 DEF Restart, Unlocked
  <2>2. release' \in [Procs -> Releases]
    BY <1>9 DEF Restart, TypeOK
  <2>3. TypeOK'
    BY <2>1, <2>2 DEF TypeOK, PCs
  <2>4. TodoFits' /\ CursorNamesLast'
    BY <2>1 DEF TodoFits, CursorNamesLast, TypeOK
  <2>5. DraftFollows' /\ HolderWrites'
    BY <2>1, ReleasesAssumption DEF DraftFollows, HolderWrites, TypeOK
  <2> QED
    BY <2>3, <2>4, <2>5
<1> QED
  BY <1>1, <1>2, <1>3, <1>4, <1>5, <1>6, <1>7, <1>8, <1>9 DEF MigrateNext, Step

(* MigrateInv holds in every state.                                        *)
THEOREM MigrateInvariant ==
    ASSUME VersionsFit
    PROVE  Spec => []MigrateInv
<1>1. MigrateInv /\ [MigrateNext]_migrateVars => MigrateInv'
  BY MigrateStep
<1> QED
  BY InitMigrateInv, <1>1, PTL DEF Spec

(* Migrate's variables keep their types.                                   *)
THEOREM MigrateTypeOK ==
    ASSUME VersionsFit
    PROVE  Spec => []TypeOK
<1>1. MigrateInv => TypeOK
  BY DEF MigrateInv
<1> QED
  BY MigrateInvariant, <1>1, PTL

(* However many processes migrate, crash and come back, user_version names *)
(* the migration that ran last, if every version fits it.                  *)
THEOREM MigrateCursorNamesLast ==
    ASSUME VersionsFit
    PROVE  Spec => []CursorNamesLast
<1>1. MigrateInv => CursorNamesLast
  BY DEF MigrateInv
<1> QED
  BY MigrateInvariant, <1>1, PTL

(* A transaction in progress belongs to the holder of the write lock and   *)
(* extends the database as it is by exactly one migration.                 *)
THEOREM MigrateOneWriter ==
    ASSUME VersionsFit
    PROVE  Spec => []OneWriter
<1>1. MigrateInv => OneWriter
  BY DEF MigrateInv, OneWriter, DraftFollows, HolderWrites
<1> QED
  BY MigrateInvariant, <1>1, PTL

(* However many processes migrate, a commit moves the cursor up unless     *)
(* another process has moved it since this one read it.                    *)
THEOREM MigrateCursorAdvances ==
    ASSUME VersionsFit
    PROVE  Spec => CursorAdvances
<1>1. MigrateInv /\ [MigrateNext]_migrateVars =>
        [\A p \in Procs :
           pc[p] = "commit" /\ pc'[p] = "loop" /\ current[p] = db.version
           => db.version < db'.version]_migrateVars
  <2> SUFFICES ASSUME MigrateInv, MigrateNext, NEW p \in Procs,
                      pc[p] = "commit", pc'[p] = "loop", current[p] = db.version
               PROVE  db.version < db'.version
    OBVIOUS
  <2>1. PICK q \in Procs : Step(q)
    BY DEF MigrateNext
  <2>2. p = q
    BY <2>1 DEF Step, Start, Skip, Finish, Body, Bump, Commit, Fails, Restart, MigrateInv, TypeOK
  <2>3. Commit(p)
    BY <2>1, <2>2 DEF Step, Start, Skip, Finish, Body, Bump, Fails, Restart, MigrateInv, TypeOK
  <2>4. draft[p].version = Least(todo[p]) /\ db.version < Least(todo[p])
    BY <2>3 DEF Commit, MigrateInv, DraftFollows
  <2> QED
    BY <2>3, <2>4 DEF Commit
<1> QED
  BY MigrateInvariant, <1>1, PTL DEF Spec, CursorAdvances

-----------------------------------------------------------------------------
(* The log only grows.                                                     *)
LEMMA AppendedRange ==
    ASSUME NEW s \in Seq(Nat), NEW v \in Nat
    PROVE  v \in Range(Append(s, v)) /\ \A w \in Range(s) : w \in Range(Append(s, v))
<1>1. /\ DOMAIN Append(s, v) = 1..Len(s) + 1
      /\ Append(s, v)[Len(s) + 1] = v
      /\ \A i \in 1..Len(s) : Append(s, v)[i] = s[i]
  OBVIOUS
<1>2. DOMAIN s = 1..Len(s) /\ Len(s) \in Nat
  OBVIOUS
<1>3. \A i \in DOMAIN s : i \in DOMAIN Append(s, v)
  BY <1>1, <1>2
<1>4. Len(s) + 1 \in DOMAIN Append(s, v)
  BY <1>1, <1>2
<1> QED
  BY <1>1, <1>2, <1>3, <1>4 DEF Range

(* Every step keeps the loop's progress.                                   *)
LEMMA SuccessStep ==
    ASSUME VersionsFit, MigrateInv, SuccessInv, [MigrateNext]_migrateVars
    PROVE  SuccessInv'
<1> USE DEF MigrateInv, SuccessInv
<1>0. \A p \in Procs : todo[p] # {} =>
        Least(todo[p]) \in todo[p] /\ \A w \in todo[p] : w \in Nat /\ Least(todo[p]) <= w
  BY LeastIsLeast DEF TypeOK
<1>1. CASE UNCHANGED migrateVars
  BY <1>1 DEF migrateVars, procVars, Progress, OkIsEmpty
<1>2. ASSUME NEW p \in Procs, Start(p) PROVE SuccessInv'
  <2>1. CASE Unusable(release[p])
    BY <1>2, <2>1 DEF Start, Progress, OkIsEmpty, TypeOK
  <2>2. CASE ~Unusable(release[p])
    <3>1. release[p] \in Seq(Nat \cup {NoVersion})
      BY ReleasesAssumption DEF TypeOK
    <3>2. VersionsOf(release[p]) \in SUBSET Nat
      BY <2>2, <3>1 DEF VersionsOf, Unusable, Range
    <3>3. /\ pc' = [pc EXCEPT ![p] = "loop"]
          /\ todo' = [todo EXCEPT ![p] = VersionsOf(release[p])]
          /\ current' = [current EXCEPT ![p] = db.version]
          /\ base' = [base EXCEPT ![p] = db.version]
          /\ UNCHANGED <<db, release>>
      BY <1>2, <2>2 DEF Start
    <3> QED
      BY <3>2, <3>3 DEF Progress, OkIsEmpty, TypeOK
  <2> QED
    BY <2>1, <2>2
<1>3. ASSUME NEW p \in Procs, Skip(p) PROVE SuccessInv'
  <2>1. /\ pc[p] = "loop" /\ todo' = [todo EXCEPT ![p] = @ \ {Least(@)}]
        /\ UNCHANGED <<db, pc, release, current, base>>
    BY <1>3 DEF Skip
  <2>2. Least(todo[p]) \in todo[p] /\ Least(todo[p]) \in Nat /\ Least(todo[p]) <= current[p]
    BY <1>0, <1>3 DEF Skip, Behind, TypeOK
  <2>3. Progress'
    BY <2>1, <2>2 DEF Progress, TypeOK
  <2>4. OkIsEmpty'
    BY <2>1 DEF OkIsEmpty, TypeOK
  <2> QED
    BY <2>3, <2>4
<1>4. ASSUME NEW p \in Procs, Finish(p) \/ Body(p) \/ Bump(p) PROVE SuccessInv'
  BY <1>4 DEF Finish, Body, Bump, Progress, OkIsEmpty, TypeOK, procVars
<1>5. ASSUME NEW p \in Procs, Commit(p) PROVE SuccessInv'
  <2> DEFINE v == Least(todo[p])
  <2>1. /\ pc[p] = "commit" /\ pc' = [pc EXCEPT ![p] = "loop"]
        /\ current' = [current EXCEPT ![p] = v]
        /\ todo' = [todo EXCEPT ![p] = @ \ {v}]
        /\ db' = draft[p]
        /\ UNCHANGED <<release, base>>
    BY <1>5 DEF Commit
  <2>2. todo[p] # {} /\ current[p] < v /\ db'.applied = Append(db.applied, v)
    BY <2>1 DEF DraftFollows
  <2>3. v \in todo[p] /\ v \in Nat /\ \A w \in todo[p] : v <= w
    BY <1>0, <2>2
  <2>4. v \in Range(db'.applied) /\ \A w \in Range(db.applied) : w \in Range(db'.applied)
    BY <2>2, <2>3, AppendedRange DEF TypeOK, Databases
  <2>5. \A w \in todo'[p] : w \in Nat /\ v < w
    BY <2>1, <2>3 DEF TypeOK
  <2>6. Progress'
    <3> HIDE DEF v
    <3>1. ASSUME NEW q \in Procs, q # p, pc'[q] \in {"loop", "bump", "commit", "ok"},
                 NEW w \in VersionsOf(release'[q])
          PROVE  /\ w \in Nat
                 /\ w \notin todo'[q] => w <= current'[q]
                 /\ w \notin todo'[q] /\ w > base'[q] => w \in Range(db'.applied)
                 /\ w \in todo'[q] /\ w <= current'[q] => w <= base'[q]
      BY <2>1, <2>4, <3>1 DEF Progress, TypeOK
    <3>2. ASSUME NEW w \in VersionsOf(release'[p])
          PROVE  /\ w \in Nat
                 /\ w \notin todo'[p] => w <= current'[p]
                 /\ w \notin todo'[p] /\ w > base'[p] => w \in Range(db'.applied)
                 /\ w \in todo'[p] /\ w <= current'[p] => w <= base'[p]
      <4>1. w \in Nat /\ (w \notin todo[p] => w <= current[p])
            /\ (w \notin todo[p] /\ w > base[p] => w \in Range(db.applied))
        BY <2>1 DEF Progress
      <4>2. todo'[p] = todo[p] \ {v} /\ current'[p] = v /\ base'[p] = base[p] /\ current[p] \in Nat
        BY <2>1 DEF TypeOK
      <4> QED
        BY <2>2, <2>3, <2>4, <2>5, <4>1, <4>2
    <3> QED
      BY <3>1, <3>2 DEF Progress
  <2>7. OkIsEmpty'
    BY <2>1 DEF OkIsEmpty, TypeOK
  <2> QED
    BY <2>6, <2>7
<1>6. ASSUME NEW p \in Procs, Fails(p) PROVE SuccessInv'
  BY <1>6 DEF Fails, Progress, OkIsEmpty, TypeOK, procVars
<1>7. ASSUME NEW p \in Procs, Restart(p) PROVE SuccessInv'
  BY <1>7 DEF Restart, Progress, OkIsEmpty, TypeOK
<1> QED
  BY <1>1, <1>2, <1>3, <1>4, <1>5, <1>6, <1>7 DEF MigrateNext, Step

(* A call of Migrate that succeeds leaves every newer migration of its     *)
(* release in the database, whoever else migrates or crashes.              *)
THEOREM MigrateSuccessApplies ==
    ASSUME VersionsFit
    PROVE  Spec => []SuccessApplies
<1>1. MigrateInit => SuccessInv
  BY DEF MigrateInit, SuccessInv, Progress, OkIsEmpty
<1>2. MigrateInv /\ SuccessInv /\ [MigrateNext]_migrateVars => SuccessInv'
  BY SuccessStep
<1>3. SuccessInv => SuccessApplies
  BY DEF SuccessInv, Progress, OkIsEmpty, SuccessApplies
<1> QED
  BY MigrateInvariant, <1>1, <1>2, <1>3, PTL DEF Spec
=============================================================================
