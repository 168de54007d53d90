----------------------------- MODULE ToolCalls ------------------------------
(***************************************************************************)
(* ToolCallAccumulator (src/llm/toolcall.go): the fragments of a turn's    *)
(* tool calls arrive interleaved and are merged by index.  A string is the *)
(* sequence of the pieces it was joined from, <<>> the empty one.          *)
(***************************************************************************)
EXTENDS SequencesExt, Integers

CONSTANTS
    MaxIndex,       \* bound: highest delta index
    Ids,            \* ids a server sends
    Pieces,         \* pieces of names and arguments
    MaxFragments    \* bound: fragments in one turn

ASSUME IndexAssumption == MaxIndex \in Nat

VARIABLES
    fragments,      \* what the wire has carried
    calls,          \* the accumulator's map
    finalized       \* what Finalize returned, once

toolCallVars == <<fragments, calls, finalized>>

Empty == <<>>
OneOf(S) == {Empty} \cup {<<p>> : p \in S}

\* Arguments may come as a JSON value in place of a string (llama.cpp);
\* coerceArguments turns it into its text, one piece like any other.
Fragment == [index : 0..MaxIndex, id : OneOf(Ids), name : OneOf(Pieces), args : OneOf(Pieces)]

\* Sprintf("call_%d", index)
SyntheticId(i) == <<"call", i>>

-----------------------------------------------------------------------------
(* Mutants.                                                                *)

\* Merge that takes the id of every fragment, an empty one too.
MutMerge(acc, f) ==
    LET old == IF f.index \in DOMAIN acc THEN acc[f.index]
               ELSE [id |-> Empty, name |-> Empty, args |-> Empty]
        new == [id |-> f.id, name |-> old.name \o f.name, args |-> old.args \o f.args]
    IN  [i \in DOMAIN acc \cup {f.index} |-> IF i = f.index THEN new ELSE acc[i]]

-----------------------------------------------------------------------------
\* Arguments and names are joined, an id replaces the one before it.
Merge(acc, f) ==
    LET old == IF f.index \in DOMAIN acc THEN acc[f.index]
               ELSE [id |-> Empty, name |-> Empty, args |-> Empty]
        new == [id   |-> IF f.id # Empty THEN f.id ELSE old.id,
                name |-> old.name \o f.name,
                args |-> old.args \o f.args]
    IN  [i \in DOMAIN acc \cup {f.index} |-> IF i = f.index THEN new ELSE acc[i]]

\* Nameless entries are noise; a named one without an id gets its own.
Named(acc) == {i \in DOMAIN acc : acc[i].name # Empty}
Identified(acc) ==
    [i \in DOMAIN acc |->
        IF i \in Named(acc) /\ acc[i].id = Empty
        THEN [acc[i] EXCEPT !.id = SyntheticId(i)] ELSE acc[i]]

\* sort.Ints
Ascending(I) == FlattenSeq([k \in 1..(MaxIndex + 1) |-> IF k - 1 \in I THEN <<k - 1>> ELSE <<>>])

Completed(acc) ==
    LET order == Ascending(Named(acc))
    IN  [k \in DOMAIN order |-> Identified(acc)[order[k]]]

ToolCallsInit ==
    /\ fragments = <<>>
    /\ calls = <<>>
    /\ finalized = <<>>

MergeFragment(f) ==
    /\ finalized = <<>> /\ Len(fragments) < MaxFragments
    /\ fragments' = Append(fragments, f)
    /\ calls' = Merge(calls, f)
    /\ UNCHANGED finalized

\* The synthesized ids are written into the map.
Finalize ==
    /\ finalized = <<>>
    /\ finalized' = <<Completed(calls)>>
    /\ calls' = Identified(calls)
    /\ UNCHANGED fragments

ToolCallsNext == Finalize \/ \E f \in Fragment : MergeFragment(f)

-----------------------------------------------------------------------------
\* A call read off the wire fs at once: all fragments of an index, joined, and
\* the last id among them.
NameSent(fs, i) == FlattenSeq([k \in DOMAIN fs |-> IF fs[k].index = i THEN fs[k].name ELSE Empty])
ArgsSent(fs, i) == FlattenSeq([k \in DOMAIN fs |-> IF fs[k].index = i THEN fs[k].args ELSE Empty])

IdsSent(fs, i) == {k \in DOMAIN fs : fs[k].index = i /\ fs[k].id # Empty}
IdSent(fs, i) == IF IdsSent(fs, i) = {} THEN SyntheticId(i) ELSE fs[Max(IdsSent(fs, i))].id

CallSent(fs, i) == [id |-> IdSent(fs, i), name |-> NameSent(fs, i), args |-> ArgsSent(fs, i)]

(* Whatever the order in which the fragments of several calls interleave,  *)
(* a turn yields its named calls in index order, each with its own pieces  *)
(* in the order they were sent and with an id (toolcall.go:52-81).         *)
CallsAsStreamed ==
    \A r \in DOMAIN finalized :
        \E order \in [DOMAIN finalized[r] -> 0..MaxIndex] :
            /\ \A j, k \in DOMAIN order : j < k => order[j] < order[k]
            /\ {order[k] : k \in DOMAIN order} = {i \in 0..MaxIndex : NameSent(fragments, i) # Empty}
            /\ \A k \in DOMAIN order : finalized[r][k] = CallSent(fragments, order[k])
=============================================================================
