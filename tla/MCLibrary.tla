----------------------------- MODULE MCLibrary ------------------------------
(***************************************************************************)
(* The library's parts that share no state, checked side by side: a        *)
(* behaviour is one of a single part, the subject, while the others stay   *)
(* in their initial states.  The states are the sum of the parts' states.  *)
(***************************************************************************)
EXTENDS Migrate, Registry, ToolCalls, LoopGuard, Frames, MCRequests, DebugLog, InlineCalls

VARIABLE subject

\* Releases with a gap and an unsorted listing, one that fills the gap later,
\* and two that Migrate rejects.
MCReleases == {<<10, 2>>, <<1, 10, 2>>, <<2, 2>>, <<1, NoVersion>>}

-----------------------------------------------------------------------------
Rest(s) ==
    /\ s # "migrate"  => UNCHANGED migrateVars
    /\ s # "registry" => UNCHANGED registryVars
    /\ s # "calls"    => UNCHANGED toolCallVars
    /\ s # "guard"    => UNCHANGED guardVars
    /\ s # "frames"   => UNCHANGED framesVars
    /\ s # "messages" => UNCHANGED messageVars
    /\ s # "requests" => UNCHANGED history
    /\ s # "debug"    => UNCHANGED debugVars
    /\ s # "inline"   => UNCHANGED inlineVars

Init ==
    /\ subject \in {"migrate", "registry", "calls", "guard", "frames", "messages", "requests",
                    "debug", "inline"}
    /\ MigrateInit
    /\ subject = "migrate" \/ release = [p \in Procs |-> CHOOSE r \in Releases : TRUE]
    /\ RegistryInit /\ ToolCallsInit /\ GuardInit /\ FramesInit /\ DebugInit /\ RequestsInit
    /\ IF subject = "messages" THEN MessagesInit ELSE NoMessage
    /\ IF subject = "inline" THEN InlineInit ELSE content = <<>> /\ recovered = <<>>

Next ==
    /\ \/ subject = "migrate"  /\ MigrateNext
       \/ subject = "registry" /\ RegistryNext
       \/ subject = "calls"    /\ ToolCallsNext
       \/ subject = "guard"    /\ GuardNext
       \/ subject = "frames"   /\ FramesNext
       \/ subject = "messages" /\ MessagesNext
       \/ subject = "requests" /\ RequestsNext
       \/ subject = "debug"    /\ DebugNext
       \/ subject = "inline"   /\ InlineNext
    /\ Rest(subject)
    /\ UNCHANGED subject
=============================================================================
