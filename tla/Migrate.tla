------------------------------ MODULE Migrate -------------------------------
(***************************************************************************)
(* store.Migrate (src/store/migrate.go) run by the processes Procs on one  *)
(* SQLite database: the cursor is read once, outside any transaction; each *)
(* newer migration then runs in a transaction of its own together with its *)
(* PRAGMA user_version bump.  A process may crash at any point and come    *)
(* back, with the same release of the program or another one.              *)
(*                                                                         *)
(* A release is the sequence of the versions of its .sql files, in the     *)
(* order of the directory; NoVersion is a file without a numeric prefix.   *)
(* SQLite is external: a transaction takes the write lock with its first   *)
(* statement, works on a draft and replaces the database when it commits.  *)
(***************************************************************************)
EXTENDS Naturals, SequencesExt

CONSTANTS
    Procs,           \* the processes that open the database
    Releases,        \* the migration sets of the program's releases
    NoVersion,       \* a file name without a numeric prefix
    MaxUserVersion,  \* the largest user_version (2^31 - 1 in SQLite)
    MaxRuns          \* bound: how often a process calls Migrate

ASSUME ReleasesAssumption ==
    /\ Releases \subseteq Seq(Nat \cup {NoVersion})
    /\ NoVersion \notin Nat
    /\ "none" \notin Procs
    /\ MaxRuns \in Nat /\ MaxUserVersion \in Nat

VARIABLES
    db,         \* the database: user_version, and the migrations it has run
    lock,       \* who holds the write lock, Procs or "none"
    draft,      \* what the transaction of each process would commit
    release,    \* the release each process runs
    pc, todo, current,  \* where Migrate is, the versions left, and its copy of the cursor
    base,       \* the cursor this call started from
    runs        \* how many calls of Migrate the process has made

procVars == <<release, todo, current, base>>
migrateVars == <<db, lock, draft, pc, procVars, runs>>

PCs == {"idle", "loop", "bump", "commit", "ok", "failed"}

\* A file without a prefix, or two with one version, is refused.
Unusable(r) == ~IsInjective(r) \/ NoVersion \in Range(r)

VersionsOf(r) == Range(r)

\* Mutant of Least: directory order, where "10_..." may come before "2_...".
MutLeast(S) == CHOOSE v \in S : \A w \in S : v >= w

Least(S) == CHOOSE v \in S : \A w \in S : v <= w

Apply(d, v) == [d EXCEPT !.applied = Append(@, v)]

\* PRAGMA user_version = v: SQLite stores 0 for a number it cannot hold.
Bumped(d, v) == [d EXCEPT !.version = IF v <= MaxUserVersion THEN v ELSE 0]

Unlocked(p) == IF lock = p THEN "none" ELSE lock

-----------------------------------------------------------------------------
(* Mutants of Body and Behind.                                             *)

\* Body and bump in two transactions.
MutBody(p) ==
    /\ pc[p] = "loop" /\ todo[p] # {} /\ current[p] < Least(todo[p])
    /\ lock = "none"
    /\ lock' = p
    /\ db' = Apply(db, Least(todo[p]))
    /\ draft' = [draft EXCEPT ![p] = Apply(db, Least(todo[p]))]
    /\ pc' = [pc EXCEPT ![p] = "bump"]
    /\ UNCHANGED <<procVars, runs>>

\* No comparison with the cursor.
MutBehind(p, v) == TRUE

-----------------------------------------------------------------------------
MigrateInit ==
    /\ db = [version |-> 0, applied |-> <<>>]
    /\ lock = "none"
    /\ draft = [p \in Procs |-> db]
    /\ release \in [Procs -> Releases]
    /\ pc = [p \in Procs |-> "idle"]
    /\ todo = [p \in Procs |-> {}]
    /\ current = [p \in Procs |-> 0]
    /\ base = [p \in Procs |-> 0]
    /\ runs = [p \in Procs |-> 0]

\* Migrate lists and sorts the files, rejects a bad set, and reads the cursor.
Start(p) ==
    /\ pc[p] = "idle" /\ runs[p] < MaxRuns
    /\ runs' = [runs EXCEPT ![p] = @ + 1]
    /\ IF Unusable(release[p])
         THEN /\ pc' = [pc EXCEPT ![p] = "failed"]
              /\ UNCHANGED <<todo, current, base>>
         ELSE /\ pc' = [pc EXCEPT ![p] = "loop"]
              /\ todo' = [todo EXCEPT ![p] = VersionsOf(release[p])]
              /\ current' = [current EXCEPT ![p] = db.version]
              /\ base' = [base EXCEPT ![p] = db.version]
    /\ UNCHANGED <<db, lock, draft, release>>

Behind(p, v) == current[p] < v

Skip(p) ==
    /\ pc[p] = "loop" /\ todo[p] # {} /\ ~Behind(p, Least(todo[p]))
    /\ todo' = [todo EXCEPT ![p] = @ \ {Least(@)}]
    /\ UNCHANGED <<db, lock, draft, pc, release, current, base, runs>>

Finish(p) ==
    /\ pc[p] = "loop" /\ todo[p] = {}
    /\ pc' = [pc EXCEPT ![p] = "ok"]
    /\ UNCHANGED <<db, lock, draft, procVars, runs>>

\* BEGIN and the body; its first write waits for the lock.
Body(p) ==
    /\ pc[p] = "loop" /\ todo[p] # {} /\ Behind(p, Least(todo[p]))
    /\ lock = "none"
    /\ lock' = p
    /\ draft' = [draft EXCEPT ![p] = Apply(db, Least(todo[p]))]
    /\ pc' = [pc EXCEPT ![p] = "bump"]
    /\ UNCHANGED <<db, procVars, runs>>

Bump(p) ==
    /\ pc[p] = "bump"
    /\ draft' = [draft EXCEPT ![p] = Bumped(@, Least(todo[p]))]
    /\ pc' = [pc EXCEPT ![p] = "commit"]
    /\ UNCHANGED <<db, lock, procVars, runs>>

Commit(p) ==
    /\ pc[p] = "commit"
    /\ db' = draft[p]
    /\ lock' = "none"
    /\ current' = [current EXCEPT ![p] = Least(todo[p])]
    /\ todo' = [todo EXCEPT ![p] = @ \ {Least(@)}]
    /\ pc' = [pc EXCEPT ![p] = "loop"]
    /\ UNCHANGED <<draft, release, base, runs>>

\* A file that cannot be read, a statement or a commit that fails, a lock that
\* stays busy past busy_timeout: the transaction is rolled back.
Fails(p) ==
    /\ pc[p] \in {"loop", "bump", "commit"}
    /\ pc[p] = "loop" => todo[p] # {} /\ Behind(p, Least(todo[p]))
    /\ pc' = [pc EXCEPT ![p] = "failed"]
    /\ lock' = Unlocked(p)
    /\ UNCHANGED <<db, draft, procVars, runs>>

\* The process ends, at any point, and comes back; SQLite rolls back.
Restart(p) ==
    /\ pc[p] # "idle"
    /\ pc' = [pc EXCEPT ![p] = "idle"]
    /\ lock' = Unlocked(p)
    /\ \E r \in Releases : release' = [release EXCEPT ![p] = r]
    /\ todo' = [todo EXCEPT ![p] = {}]
    /\ current' = [current EXCEPT ![p] = 0]
    /\ base' = [base EXCEPT ![p] = 0]
    /\ draft' = [draft EXCEPT ![p] = db]
    /\ UNCHANGED <<db, runs>>

Step(p) ==
    \/ Start(p) \/ Skip(p) \/ Finish(p) \/ Body(p) \/ Bump(p) \/ Commit(p) \/ Fails(p) \/ Restart(p)

MigrateNext == \E p \in Procs : Step(p)

Spec == MigrateInit /\ [][MigrateNext]_migrateVars

-----------------------------------------------------------------------------
Databases == [version : Nat, applied : Seq(Nat)]

TypeOK ==
    /\ db \in Databases
    /\ draft \in [Procs -> Databases]
    /\ lock \in Procs \cup {"none"}
    /\ release \in [Procs -> Releases]
    /\ pc \in [Procs -> PCs]
    /\ todo \in [Procs -> SUBSET Nat]
    /\ current \in [Procs -> Nat] /\ base \in [Procs -> Nat]
    /\ runs \in [Procs -> 0..MaxRuns]

(* user_version always names the migration that ran last: no failure and   *)
(* no crash leaves a schema that its cursor does not tell                  *)
(* (migrate.go:21-25), however many processes migrate at once.             *)
CursorNamesLast ==
    IF db.applied = <<>> THEN db.version = 0 ELSE db.version = Last(db.applied)

(* A transaction in progress is its holder's, and it started from the      *)
(* database as it is.                                                      *)
OneWriter ==
    \A p \in Procs :
        /\ pc[p] \in {"bump", "commit"} <=> lock = p
        /\ lock = p => draft[p].applied = Append(db.applied, Least(todo[p]))

(* A commit moves the cursor up (migrate.go:52-58), unless another process *)
(* has moved the database past the cursor that Migrate read once.          *)
CursorAdvances ==
    [][\A p \in Procs :
         pc[p] = "commit" /\ pc'[p] = "loop" /\ current[p] = db.version
         => db.version < db'.version]_migrateVars

(* migrate.go:25: "Migration N runs only if user_version < N", whoever     *)
(* else migrates.                                                          *)
RunsOnlyIfBehind == [][db' # db => db.version < db'.version]_migrateVars

(* A call that succeeds leaves every migration of its release that is      *)
(* newer than the cursor it started from in the database, whatever order   *)
(* the directory lists them in (migrate.go:17-19, 54) and whoever else     *)
(* migrates; its own copy of the cursor is past them all.                  *)
SuccessApplies ==
    \A p \in Procs : pc[p] = "ok" =>
        \A v \in VersionsOf(release[p]) :
            /\ v > base[p] => v \in Range(db.applied)
            /\ v <= current[p]
=============================================================================
