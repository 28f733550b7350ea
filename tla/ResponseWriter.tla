--------------------------- MODULE ResponseWriter ---------------------------
(***************************************************************************)
(* The response writer that the access log puts between a handler and      *)
(* net/http (httpserver/wrap_writer.go, requestLoggerHandler).             *)
(*                                                                         *)
(* The wrapper counts bytes and remembers the status, and offers those of  *)
(* the interfaces Flusher, Hijacker and ReaderFrom that the writer below   *)
(* it has, by being one of six types.  A handler calls what is offered in  *)
(* any order, and returns.                                                 *)
(*                                                                         *)
(* The writer below behaves as the one of net/http: the first final status *)
(* counts, a body or a flush implies OK, informational statuses are sent   *)
(* at once and decide nothing, a hijacked connection takes no response.    *)
(***************************************************************************)
EXTENDS Naturals

CONSTANTS
    Codes,          \* statuses that a handler sends
    Informational,  \* those below 200
    NoBody,         \* those that allow no body (204, 304)
    OK,             \* http.StatusOK
    Tees,           \* writers that a handler tees to
    NoTee,
    MaxChunk,       \* bound: bytes of one write
    MaxBytes        \* bound: bytes of one response

NoStatus == 0

ASSUME CodeAssumption ==
    /\ Informational \cup NoBody \cup {OK} \subseteq Codes
    /\ NoStatus \notin Codes
    /\ Informational \cap NoBody = {} /\ OK \notin Informational \cup NoBody
ASSUME TeeAssumption   == NoTee \notin Tees
ASSUME BoundAssumption == MaxChunk \in Nat /\ MaxBytes \in Nat

Features == {"flush", "hijack", "readFrom", "push"}

VARIABLES
    below,        \* the features of the wrapped http.ResponseWriter
    proto,        \* r.ProtoMajor
    phase,        \* "serving", "returned" (from the handler) or "panicked"
    wroteHeader, code, bytes, tee,   \* the fields of basicWriter
    status,       \* below: the status that the client gets, if it is decided
    sent,         \* below: the bytes of the body
    hijacked,     \* below: the connection was hijacked
    copied,       \* history: bytes that ReadFrom copied by way of the tee
    teed,         \* history: bytes that each tee was given
    due           \* history: bytes sent while it was the tee

writerVars == <<below, proto, phase, wroteHeader, code, bytes, tee,
                status, sent, hijacked, copied, teed, due>>

teeVars == <<copied, teed, due>>

WriterInit ==
    /\ below       \in SUBSET Features
    /\ proto       \in {1, 2}
    /\ phase       = "serving"
    /\ wroteHeader = FALSE
    /\ code        = NoStatus
    /\ bytes       = 0
    /\ tee         = NoTee
    /\ status      = NoStatus
    /\ sent        = 0
    /\ hijacked    = FALSE
    /\ copied      = 0
    /\ teed        = [t \in Tees |-> 0]
    /\ due         = [t \in Tees |-> 0]

-----------------------------------------------------------------------------
\* What the type that newWrapResponseWriter chooses implements.
Offers ==
    IF proto = 2
    THEN IF {"flush", "push"} \subseteq below THEN {"flush", "push"} ELSE below \cap {"flush"}
    ELSE IF {"flush", "hijack", "readFrom"} \subseteq below THEN {"flush", "hijack", "readFrom"}
    ELSE below \cap {"flush", "hijack"}

(***************************************************************************)
(* The writer below                                                        *)
(***************************************************************************)
\* The status once c was given to WriteHeader.
Decided(c) ==
    IF status # NoStatus \/ hijacked \/ c \in Informational THEN status ELSE c

\* ... and then a body or a flush follows.
Implied(s) == IF s = NoStatus /\ ~hijacked THEN OK ELSE s

\* n of len bytes can be sent as the body of a response with status s.
CanSend(s, n, len) ==
    /\ n <= len /\ sent + n <= MaxBytes
    /\ n > 0 => ~hijacked /\ s \notin NoBody

(***************************************************************************)
(* The handler calls the wrapper                                           *)
(***************************************************************************)
Serving(feature) == phase = "serving" /\ feature \in Offers

\* The wrapper asserts that the writer below has the feature, or panics.
Asserted(feature) == phase' = IF feature \in below THEN "serving" ELSE "panicked"

WriteHeader(c) ==
    /\ phase = "serving"
    /\ IF wroteHeader
       THEN UNCHANGED <<code, wroteHeader, status>>
       ELSE code' = c /\ wroteHeader' = TRUE /\ status' = Decided(c)
    /\ UNCHANGED <<below, proto, phase, bytes, tee, sent, hijacked>> /\ UNCHANGED teeVars

MaybeWriteHeader ==
    /\ wroteHeader' = TRUE
    /\ code' = IF wroteHeader THEN code ELSE OK

\* The writer below gets n of len bytes.
Deliver(n, len) ==
    /\ CanSend(Implied(status), n, len)
    /\ status' = Implied(status)
    /\ sent' = sent + n
    /\ due' = IF tee = NoTee THEN due ELSE [due EXCEPT ![tee] = @ + n]

\* The tee gets what the writer below took.
TeeWrite(n) == teed' = IF tee = NoTee THEN teed ELSE [teed EXCEPT ![tee] = @ + n]

\* Fault: what was to be written is counted, not what was.
WriteCountingAll(n, len) ==
    /\ phase = "serving"
    /\ MaybeWriteHeader
    /\ Deliver(n, len)
    /\ TeeWrite(n)
    /\ bytes' = bytes + len
    /\ UNCHANGED <<below, proto, phase, tee, hijacked, copied>>

Write(n, len) ==
    /\ phase = "serving"
    /\ MaybeWriteHeader
    /\ Deliver(n, len)
    /\ TeeWrite(n)
    /\ bytes' = bytes + n
    /\ UNCHANGED <<below, proto, phase, tee, hijacked, copied>>

\* Fault: Flush leaves the header to a later WriteHeader.
FlushForgetting ==
    /\ Serving("flush") /\ Asserted("flush")
    /\ status' = Implied(status)
    /\ UNCHANGED <<below, proto, wroteHeader, code, bytes, tee, sent, hijacked>>
    /\ UNCHANGED teeVars

Flush ==
    /\ Serving("flush") /\ Asserted("flush")
    /\ wroteHeader' = TRUE
    /\ status' = IF "flush" \in below THEN Implied(status) ELSE status
    /\ UNCHANGED <<below, proto, code, bytes, tee, sent, hijacked>> /\ UNCHANGED teeVars

Hijack ==
    /\ Serving("hijack") /\ Asserted("hijack")
    /\ hijacked' = TRUE
    /\ UNCHANGED <<below, proto, wroteHeader, code, bytes, tee, status, sent>>
    /\ UNCHANGED teeVars

\* Fault: ReadFrom goes to the writer below whether there is a tee or not.
ReadFromPastTee(n, len) ==
    /\ Serving("readFrom") /\ Asserted("readFrom")
    /\ tee # NoTee
    /\ MaybeWriteHeader
    /\ Deliver(n, len)
    /\ bytes' = bytes + n
    /\ UNCHANGED <<below, proto, tee, hijacked, copied, teed>>

\* With a tee: io.Copy to Write, which counts, and then its sum is counted.
\* Write is not called when there is nothing to copy.
ReadFromByTee(n, len) ==
    /\ Serving("readFrom") /\ tee # NoTee /\ len > 0
    /\ MaybeWriteHeader
    /\ Deliver(n, len) /\ TeeWrite(n)
    /\ bytes' = bytes + n + n
    /\ copied' = copied + n
    /\ UNCHANGED <<below, proto, phase, tee, hijacked>>

\* Without a tee: ReadFrom of the writer below.
ReadFrom(n, len) ==
    /\ Serving("readFrom") /\ Asserted("readFrom")
    /\ tee = NoTee
    /\ MaybeWriteHeader
    /\ Deliver(n, len)
    /\ bytes' = bytes + n
    /\ UNCHANGED <<below, proto, tee, hijacked, copied, teed>>

Tee(t) ==
    /\ phase = "serving"
    /\ tee' = t
    /\ UNCHANGED <<below, proto, phase, wroteHeader, code, bytes, status, sent, hijacked>>
    /\ UNCHANGED teeVars

\* The handler returns: its request is logged, and net/http ends the response.
Return ==
    /\ phase = "serving"
    /\ phase' = "returned"
    /\ status' = Implied(status)
    /\ UNCHANGED <<below, proto, wroteHeader, code, bytes, tee, sent, hijacked>>
    /\ UNCHANGED teeVars

Chunks == {c \in (0..MaxChunk) \X (0..MaxChunk) : c[1] <= c[2]}

WriterNext ==
    \/ \E c \in Codes : WriteHeader(c)
    \/ \E c \in Chunks : Write(c[1], c[2])
    \/ Flush
    \/ Hijack
    \/ \E c \in Chunks : ReadFromByTee(c[1], c[2])
    \/ \E c \in Chunks : ReadFrom(c[1], c[2])
    \/ \E t \in Tees \cup {NoTee} : Tee(t)
    \/ Return

WriterSpec == WriterInit /\ [][WriterNext]_writerVars

-----------------------------------------------------------------------------
(***************************************************************************)
(* Properties                                                              *)
(***************************************************************************)
\* Every variable holds a value of its type.
WriterTypeOK ==
    /\ below \subseteq Features /\ proto \in {1, 2}
    /\ phase \in {"serving", "returned", "panicked"}
    /\ wroteHeader \in BOOLEAN /\ code \in Codes \cup {NoStatus} /\ bytes \in 0..2 * MaxBytes
    /\ tee \in Tees \cup {NoTee}
    /\ status \in (Codes \ Informational) \cup {NoStatus} /\ sent \in 0..MaxBytes
    /\ hijacked \in BOOLEAN
    /\ copied \in 0..MaxBytes /\ teed \in [Tees -> Nat] /\ due \in [Tees -> Nat]

\* Whatever a handler calls of what the wrapper offers, the writer below has
\* it: the type assertions of Flush, Hijack and ReadFrom do not panic.
OfferedIsSupported == phase # "panicked"

\* The first that a handler did was to flush: the header is on its way, and
\* the status that it implies was not noted.
FlushedFirst == wroteHeader /\ code = NoStatus

\* While the handler serves, Status is the final status that the client gets,
\* and 0 as long as none was decided; once it returned, what Status had is still
\* it.  Left out are a Flush before any status (StatusIsSent), a handler whose
\* first status is informational, and a hijacked connection.
StatusAgrees ==
    ~FlushedFirst /\ code \notin Informational /\ ~hijacked
        => IF phase = "serving" THEN code = status ELSE code \in {NoStatus, status}

\* BytesWritten is what was sent, unless ReadFrom copied to a tee (BytesAreSent).
BytesCounted == copied = 0 => bytes = sent

\* A tee gets every byte that is sent while it is set, by Write and ReadFrom.
TeeGetsAll == teed = due

\* The wrapper does not show: what it offers works, and what it reports as the
\* status, but for the cases that StatusAgrees names, is what the client got.
WrapperTransparent == OfferedIsSupported /\ StatusAgrees

\* The tallies of a body: each tee was given what was sent while it was set,
\* and the wrapper counted what was sent when nothing was copied to a tee.
WritesAddUp == BytesCounted /\ TeeGetsAll

\* "Status returns the HTTP status of the request, or 0 if one has not yet been
\* sent": a status that was sent is known.  A Flush before any status breaks it.
StatusIsSent == phase = "serving" /\ status # NoStatus /\ ~hijacked => code = status

\* "BytesWritten returns the total number of bytes sent to the client".
\* ReadFrom with a tee breaks it: what Write has counted is counted again.
BytesAreSent == bytes = sent
=============================================================================
