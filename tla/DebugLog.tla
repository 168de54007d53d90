------------------------------ MODULE DebugLog -------------------------------
(***************************************************************************)
(* The debug log (src/llm/openai.go): a writer behind an RWMutex and an    *)
(* atomic flag that mirrors it, so that Debugf can skip a disabled log     *)
(* without the lock.  SetDebug changes flag and writer at two moments;     *)
(* Debugf reads them at two moments and writes at a third.                 *)
(***************************************************************************)
EXTENDS Integers

CONSTANTS
    Setters,        \* goroutines that call SetDebug
    Loggers,        \* goroutines that call Debugf
    MaxOpened       \* bound: files opened

VARIABLES
    enabled,        \* debugEnabled
    writer,         \* debugWriter: a file, or Discard
    opened,         \* files opened so far, numbered
    closed,         \* those closed again
    setting,        \* where each setter is: idle, disabling, opened with its file, enabling
    logging,        \* where each logger is: idle, checked, loaded with its writer
    line,           \* what became of a logger's last line: "none", "skipped", "lost", "written"
    calm            \* loggers beside whose call no SetDebug has run

debugVars == <<enabled, writer, opened, closed, setting, logging, line, calm>>

Discard == 0
Files   == 1..opened

\* A place in the code and the file in hand there.
At(place)      == <<place, Discard>>
With(place, f) == <<place, f>>

\* A step of a setter: no logger's call is alone any more.
Sets(s, place) ==
    /\ setting' = [setting EXCEPT ![s] = place]
    /\ calm' = {}
    /\ UNCHANGED <<logging, line>>

-----------------------------------------------------------------------------
(* Mutants.                                                                *)

\* SetDebug that replaces the writer without closing the old one.
MutReplace(w) ==
    /\ writer' = w
    /\ UNCHANGED closed

-----------------------------------------------------------------------------
DebugInit ==
    /\ enabled = FALSE /\ writer = Discard
    /\ opened = 0 /\ closed = {}
    /\ setting = [s \in Setters |-> At("idle")]
    /\ logging = [l \in Loggers |-> At("idle")]
    /\ line = [l \in Loggers |-> "none"]
    /\ calm = {}

\* Under the lock: closeDebugWriterLocked, then the assignment.
Replace(w) ==
    /\ closed' = closed \cup ({writer} \ {Discard})
    /\ writer' = w

\* SetDebug(""): the flag first, then the writer.
Disable(s) ==
    /\ setting[s] = At("idle")
    /\ enabled' = FALSE
    /\ Sets(s, At("disabling"))
    /\ UNCHANGED <<writer, opened, closed>>

DiscardWriter(s) ==
    /\ setting[s] = At("disabling")
    /\ Replace(Discard)
    /\ Sets(s, At("idle"))
    /\ UNCHANGED <<enabled, opened>>

\* SetDebug(path): the file, the writer, the flag.  A file that cannot be
\* opened changes nothing.
OpenFile(s) ==
    /\ setting[s] = At("idle") /\ opened < MaxOpened
    /\ opened' = opened + 1
    /\ Sets(s, With("opened", opened + 1))
    /\ UNCHANGED <<enabled, writer, closed>>

InstallWriter(s) ==
    /\ setting[s][1] = "opened"
    /\ Replace(setting[s][2])
    /\ Sets(s, At("enabling"))
    /\ UNCHANGED <<enabled, opened>>

Enable(s) ==
    /\ setting[s] = At("enabling")
    /\ enabled' = TRUE
    /\ Sets(s, At("idle"))
    /\ UNCHANGED <<writer, opened, closed>>

Quiet == \A s \in Setters : setting[s] = At("idle")

\* Debugf: the flag without the lock, ...
CheckFlag(l) ==
    /\ logging[l] = At("idle")
    /\ calm' = IF Quiet THEN calm \cup {l} ELSE calm \ {l}
    /\ IF enabled THEN logging' = [logging EXCEPT ![l] = At("checked")] /\ line' = [line EXCEPT ![l] = "none"]
                  ELSE UNCHANGED logging /\ line' = [line EXCEPT ![l] = "skipped"]
    /\ UNCHANGED <<enabled, writer, opened, closed, setting>>

\* ... the writer under the read lock, ...
LoadWriter(l) ==
    /\ logging[l] = At("checked")
    /\ logging' = [logging EXCEPT ![l] = With("loaded", writer)]
    /\ UNCHANGED <<enabled, writer, opened, closed, setting, line, calm>>

\* ... and Fprintf without one, whose error nobody sees.
WriteLine(l) ==
    /\ logging[l][1] = "loaded"
    /\ line' = [line EXCEPT ![l] = IF logging[l][2] \in Files \ closed THEN "written" ELSE "lost"]
    /\ logging' = [logging EXCEPT ![l] = At("idle")]
    /\ UNCHANGED <<enabled, writer, opened, closed, setting, calm>>

DebugNext ==
    \/ \E s \in Setters :
        Disable(s) \/ DiscardWriter(s) \/ OpenFile(s) \/ InstallWriter(s) \/ Enable(s)
    \/ \E l \in Loggers : CheckFlag(l) \/ LoadWriter(l) \/ WriteLine(l)

-----------------------------------------------------------------------------
(* However SetDebug calls overlap: no file stays open but the writer and   *)
(* those about to be installed; when the last call has returned, a log     *)
(* with a file is switched on; and a line logged beside no SetDebug is     *)
(* written if there is a file (openai.go:40-42, 59-71, 94-105).            *)
LogFollows ==
    /\ Files \ closed = ({writer} \ {Discard}) \cup {f \in Files : \E s \in Setters : setting[s] = With("opened", f)}
    /\ Quiet /\ writer # Discard => enabled
    /\ \A l \in calm : line[l] \in {"skipped", "lost"} => writer = Discard
=============================================================================
