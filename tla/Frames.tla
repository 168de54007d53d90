------------------------------- MODULE Frames -------------------------------
(***************************************************************************)
(* IPC framing (src/ipc/ipc.go): Write puts a length prefix and a payload  *)
(* on a byte stream in two writes, Read takes them off with io.ReadFull.   *)
(* The connection may end after any byte.  A byte is the number of its     *)
(* frame and its place in the frame, prefix first.                         *)
(***************************************************************************)
EXTENDS SequencesExt, Integers

CONSTANTS
    PrefixLen,      \* 4 in the code
    MaxMessage,     \* longest payload, 8 << 20 in the code
    MaxFrames       \* bound: Write calls

ASSUME FramesAssumption == PrefixLen \in Nat \ {0} /\ MaxMessage \in Nat \ {0}

VARIABLES
    sizes,          \* payload lengths of the frames Write has accepted
    halfway,        \* Write is between its two writes
    pipe,           \* bytes written and not yet read
    cut,            \* the writing end is gone
    part,           \* bytes the current Read has taken
    got,            \* frames Read has returned
    ended           \* "no", or the error the last Read returned

framesVars == <<sizes, halfway, pipe, cut, part, got, ended>>

Prefix(k)  == [i \in 1..PrefixLen |-> <<k, i>>]
Payload(k) == [i \in 1..sizes[k] |-> <<k, PrefixLen + i>>]

-----------------------------------------------------------------------------
(* Mutants.                                                                *)

\* Write that leaves the limit to the reader.
MutWritePrefix(n) ==
    /\ ~cut /\ ~halfway
    /\ sizes' = Append(sizes, n)
    /\ pipe' = pipe \o Prefix(Len(sizes) + 1)
    /\ halfway' = TRUE
    /\ UNCHANGED <<cut, part, got, ended>>

-----------------------------------------------------------------------------
FramesInit ==
    /\ sizes = <<>> /\ halfway = FALSE
    /\ pipe = <<>> /\ cut = FALSE
    /\ part = <<>> /\ got = <<>>
    /\ ended = "no"

\* A longer envelope is refused before anything is written.
WritePrefix(n) ==
    /\ ~cut /\ ~halfway /\ n <= MaxMessage
    /\ sizes' = Append(sizes, n)
    /\ pipe' = pipe \o Prefix(Len(sizes) + 1)
    /\ halfway' = TRUE
    /\ UNCHANGED <<cut, part, got, ended>>

WritePayload ==
    /\ ~cut /\ halfway
    /\ pipe' = pipe \o Payload(Len(sizes))
    /\ halfway' = FALSE
    /\ UNCHANGED <<sizes, cut, part, got, ended>>

\* The peer dies or the connection breaks: what was not read arrives up to
\* some byte.
Cut ==
    /\ ~cut
    /\ cut' = TRUE
    /\ \E n \in 0..Len(pipe) : pipe' = SubSeq(pipe, 1, n)
    /\ UNCHANGED <<sizes, halfway, part, got, ended>>

\* What a Read with b bytes still wants: the rest of the prefix, or of the
\* payload that the prefix announces.
Announced(b) == sizes[b[1][1]]
Wants(b) == IF Len(b) < PrefixLen THEN PrefixLen ELSE PrefixLen + Announced(b)

\* One byte of an io.ReadFull; the last one completes the frame.
ReadByte ==
    LET b == Append(part, Head(pipe))
    IN  /\ ended = "no" /\ pipe # <<>>
        /\ pipe' = Tail(pipe)
        /\ IF Len(b) >= PrefixLen /\ Announced(b) \notin 1..MaxMessage
           THEN /\ ended' = "bad length" /\ part' = b /\ UNCHANGED got
           ELSE IF Len(b) > PrefixLen /\ Len(b) = Wants(b)
           THEN /\ got' = Append(got, b) /\ part' = <<>> /\ UNCHANGED ended
           ELSE part' = b /\ UNCHANGED <<got, ended>>
        /\ UNCHANGED <<sizes, halfway, cut>>

\* io.ReadFull gives io.EOF if not one byte came and io.ErrUnexpectedEOF if some
\* did; in the payload either is wrapped (%w) in "short frame".
ReadError(b) ==
    CASE b = <<>> -> "EOF"
      [] Len(b) \in 1..(PrefixLen - 1) -> "unexpected EOF"
      [] Len(b) = PrefixLen -> "short frame: EOF"
      [] OTHER -> "short frame: unexpected EOF"

\* errors.Is(err, io.EOF), which sees through the wrapping.
IsEOF(err) == err \in {"EOF", "short frame: EOF"}

ReadEnds ==
    /\ ended = "no" /\ cut /\ pipe = <<>>
    /\ ended' = ReadError(part)
    /\ UNCHANGED <<sizes, halfway, pipe, cut, part, got>>

FramesNext ==
    \/ Len(sizes) < MaxFrames /\ \E n \in 1..(MaxMessage + 1) : WritePrefix(n)
    \/ WritePayload \/ Cut \/ ReadByte \/ ReadEnds

-----------------------------------------------------------------------------
(* The receiver gets the frames that were sent, whole and in order, up to  *)
(* where the stream broke, and never refuses what Write let through        *)
(* (ipc.go:54-56).  "io.EOF passes through verbatim so callers distinguish *)
(* it from a truncated frame" (ipc_test.go:56-58, ipc.go:74-76) holds of   *)
(* the error's identity: it is io.EOF itself exactly between two frames.   *)
(* By errors.Is, which that test uses, it does not hold: a stream cut      *)
(* between the two writes of a Write looks like an orderly close as well,  *)
(* and that is the only other place.                                       *)
FramesArrive ==
    /\ \A k \in DOMAIN got : k \in DOMAIN sizes /\ got[k] = Prefix(k) \o Payload(k)
    /\ ended = "EOF" <=> ended # "no" /\ part = <<>>
    /\ IsEOF(ended) <=> ended # "no" /\ Len(part) \in {0, PrefixLen}
    /\ ended # "bad length"
=============================================================================
