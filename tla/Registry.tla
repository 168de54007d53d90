------------------------------ MODULE Registry ------------------------------
(***************************************************************************)
(* The tool registry (src/tools/registry.go): a map guarded by an RWMutex  *)
(* and the memoized, sorted slice of its definitions.  Every critical      *)
(* section is one step; ToolDefs has two, with nothing held in between.    *)
(***************************************************************************)
EXTENDS SequencesExt, Integers

CONSTANTS
    Registries,     \* the objects: one from the start, Filter and Without make others
    Root,           \* the one that exists from the start
    Names,          \* tool names; numbers stand for their sort order
    Versions,       \* what one name may be bound to, one after another
    Callers,        \* goroutines that call ToolDefs
    NoDefs,         \* the nil slice: recompute on the next call
    Nobody          \* a registry that has not been made

ASSUME RootAssumption == Root \in Registries
ASSUME NamesAssumption == Names \subseteq Int

Maps == UNION {[S -> Versions] : S \in SUBSET Names}

ASSUME NobodyAssumption == Nobody \notin Registries \cup Maps

VARIABLES
    tools,          \* the map of each registry
    defsCache,      \* its memoized definitions
    look,           \* registry whose ToolDefs a goroutine is inside, past its first look
    seen,           \* definitions that registry has had since the call began
    answer          \* what the goroutine's last call returned

registryVars == <<tools, defsCache, look, seen, answer>>

Made == {r \in Registries : tools[r] # Nobody}

\* The slice ToolDefs builds: sorted, so equal maps give equal slices.
Defs(m) ==
    LET names == SetToSortSeq(DOMAIN m, <)
    IN  [i \in DOMAIN names |-> <<names[i], m[names[i]]>>]

\* Entries of m under the names in S.
Only(m, S) == [n \in DOMAIN m \cap S |-> m[n]]

\* What the calls inside ToolDefs of r have witnessed when its map becomes m.
Witness(r, m) ==
    seen' = [c \in Callers |-> IF look[c] = r THEN seen[c] \cup {Defs(m)} ELSE seen[c]]

-----------------------------------------------------------------------------
(* Mutants.                                                                *)

\* Register that leaves the memoized slice in place.
MutStore(r, m) ==
    /\ tools' = [tools EXCEPT ![r] = m]
    /\ UNCHANGED defsCache
    /\ Witness(r, m)

-----------------------------------------------------------------------------
RegistryInit ==
    /\ tools = [r \in Registries |-> IF r = Root THEN [n \in {} |-> n] ELSE Nobody]
    /\ defsCache = [r \in Registries |-> NoDefs]
    /\ look = [c \in Callers |-> Nobody]
    /\ seen = [c \in Callers |-> {}]
    /\ answer = [c \in Callers |-> NoDefs]

\* The map is changed and the slice dropped under one write lock.
Store(r, m) ==
    /\ tools' = [tools EXCEPT ![r] = m]
    /\ defsCache' = [defsCache EXCEPT ![r] = NoDefs]
    /\ Witness(r, m)

Register(r, n, v) ==
    /\ r \in Made
    /\ Store(r, [k \in DOMAIN tools[r] \cup {n} |-> IF k = n THEN v ELSE tools[r][k]])
    /\ UNCHANGED <<look, answer>>

Unregister(r, S) ==
    /\ r \in Made
    /\ Store(r, Only(tools[r], Names \ S))
    /\ UNCHANGED <<look, answer>>

\* Filter(S) and Without(Names \ S): a new registry with a copy of some entries.
Derive(r, child, S) ==
    /\ r \in Made /\ child \notin Made
    /\ tools' = [tools EXCEPT ![child] = Only(tools[r], S)]
    /\ UNCHANGED <<defsCache, look, seen, answer>>

\* ToolDefs' look under the read lock finds the slice ...
FastHit(c, r) ==
    /\ look[c] = Nobody /\ r \in Made
    /\ defsCache[r] # NoDefs
    /\ answer' = [answer EXCEPT ![c] = defsCache[r]]
    /\ seen' = [seen EXCEPT ![c] = {Defs(tools[r])}]
    /\ UNCHANGED <<tools, defsCache, look>>

\* ... or finds none; the lock is released before the other one is taken.
FastMiss(c, r) ==
    /\ look[c] = Nobody /\ r \in Made
    /\ defsCache[r] = NoDefs
    /\ look' = [look EXCEPT ![c] = r]
    /\ seen' = [seen EXCEPT ![c] = {Defs(tools[r])}]
    /\ UNCHANGED <<tools, defsCache, answer>>

\* Under the write lock: another goroutine's slice, or one built here.
SlowPath(c) ==
    LET r    == look[c]
        defs == IF defsCache[r] # NoDefs THEN defsCache[r] ELSE Defs(tools[r])
    IN  /\ r # Nobody
        /\ answer' = [answer EXCEPT ![c] = defs]
        /\ defsCache' = [defsCache EXCEPT ![r] = defs]
        /\ look' = [look EXCEPT ![c] = Nobody]
        /\ UNCHANGED <<tools, seen>>

RegistryNext ==
    \/ \E r \in Registries :
        \/ \E n \in Names, v \in Versions : Register(r, n, v)
        \/ \E S \in SUBSET Names : Unregister(r, S)
        \/ \E child \in Registries, S \in SUBSET Names : Derive(r, child, S)
        \/ \E c \in Callers : FastHit(c, r) \/ FastMiss(c, r)
    \/ \E c \in Callers : SlowPath(c)

RegistrySpec == RegistryInit /\ [][RegistryNext]_registryVars

-----------------------------------------------------------------------------
(* A ToolDefs call returns what its registry held at some moment of the    *)
(* call: never tools that were gone before it began, and never a part of   *)
(* what one Unregister removes (registry.go:108-119, 39-41).               *)
Snapshots ==
    \A c \in Callers : look[c] = Nobody /\ answer[c] # NoDefs => answer[c] \in seen[c]

\* A memoized slice is the registry's present content.
CacheFresh ==
    \A r \in Registries :
        defsCache[r] # NoDefs => r \in Made /\ defsCache[r] = Defs(tools[r])

\* A call past its first look has witnessed the present content.
CallsWatch ==
    \A c \in Callers : look[c] # Nobody => look[c] \in Made /\ Defs(tools[look[c]]) \in seen[c]

RegistryTypeOK ==
    /\ tools \in [Registries -> Maps \cup {Nobody}]
    /\ DOMAIN defsCache = Registries
    /\ look \in [Callers -> Registries \cup {Nobody}]
    /\ DOMAIN seen = Callers
    /\ DOMAIN answer = Callers

\* The inductive invariant.
RegistryInv ==
    /\ RegistryTypeOK
    /\ CacheFresh
    /\ CallsWatch
    /\ Snapshots
=============================================================================
