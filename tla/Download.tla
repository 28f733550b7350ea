------------------------------ MODULE Download ------------------------------
(***************************************************************************)
(* Where a client puts its responses (httpclient/downloader.go,            *)
(* integrity.go, and the setters of client.go that choose a downloader).   *)
(*                                                                         *)
(* For every response actualDownloader applies the middleware to the       *)
(* downloader, whose OpenDownload names a file, creates it and perhaps     *)
(* puts a hash in front of it.  handleDownload then writes headers and     *)
(* body to the output, and closes it.  The responses belong to one or      *)
(* several calls of Do: a failure ends a call, not the client.             *)
(*                                                                         *)
(* A path is the request URI without its leading slashes, a sequence of    *)
(* components; the last one is the file.  Any but the first of several may *)
(* be Empty, which to the file system is as if it were not there.  The     *)
(* file system may refuse to create, write or close.                       *)
(***************************************************************************)
EXTENDS Integers, SequencesExt

CONSTANTS
    Options,       \* how the client may be configured: a set of option records
    Names,         \* the components of paths
    Paths,         \* paths that are requested
    Empty,         \* the empty string, a component too
    Suffix,        \* "index.suffix" of a file name, for each index after the first
    MaxResponses   \* bound: responses that are downloaded

Downloaders == {"stdout", "file", "expr", "requestFile", "requestPath"}

\* middleware: what SetIntegrity and SetStripComponents added, in their order
\* (a later setter may replace the downloader that SetStripComponents set);
\* linked: the hash function is linked in; headers: IncludeResponseHeaders.
IsOptions(o) ==
    /\ o.downloader \in Downloaders
    /\ o.middleware \in Seq({"integrity", "strip"})
    /\ o.count \in Int
    /\ o.linked \in BOOLEAN /\ o.headers \in BOOLEAN

ASSUME OptionsAssumption == \A o \in Options : IsOptions(o)
ASSUME PathsAssumption ==
    \A p \in Paths : p \in Seq(Names) \ {<<>>} /\ (Len(p) > 1 => p[1] # Empty)
ASSUME EmptyAssumption == Empty \in Names
ASSUME BoundAssumption == MaxResponses \in Nat
ASSUME SuffixAssumption == \A i, j \in 1..MaxResponses : Suffix[i] = Suffix[j] => i = j

VARIABLES
    opts,     \* the configuration
    pc,       \* where handleDownload stands
    n,        \* the response that it is at
    index,    \* exprAdapter.index
    path,     \* the path of the request
    name,     \* the file that is open; <<>> when it is no file
    files,    \* the file system: what each file holds
    genuine,  \* the responses whose body has the expected digest
    done,     \* history: the responses that succeeded, and their files
    refused   \* history: the responses whose Close found a mismatch

vars == <<opts, pc, n, index, path, name, files, genuine, done, refused>>

Init ==
    /\ opts    \in Options
    /\ pc      = "idle"
    /\ n       = 0
    /\ index   = -1
    /\ path    = <<>>
    /\ name    = <<>>
    /\ files   = <<>>
    /\ genuine = {}
    /\ done    = {}
    /\ refused = {}

-----------------------------------------------------------------------------
(***************************************************************************)
(* The downloader                                                          *)
(***************************************************************************)
\* A downloader under middleware: strip, once WithStripComponents was called;
\* checks, the integrity downloaders around it; or a failed type assertion.
Plain == [strip |-> FALSE, checks |-> 0, panics |-> FALSE]

Apply(d, middleware) ==
    IF middleware = "integrity" THEN [d EXCEPT !.checks = @ + 1]
    ELSE IF opts.downloader \in {"requestFile", "requestPath"} /\ ~d.strip /\ d.checks = 0
    THEN [d EXCEPT !.strip = opts.downloader = "requestPath"]
    ELSE [d EXCEPT !.panics = TRUE]

\* actualDownloader, after each of its rounds and at the end.
Applied ==
    LET applied[i \in 0..Len(opts.middleware)] ==
            IF i = 0 THEN Plain ELSE Apply(applied[i - 1], opts.middleware[i])
    IN  applied
Actual == Applied[Len(opts.middleware)]

\* filepath.Join drops empty components.
JoinUpTo(components) ==
    LET joined[i \in 0..Len(components)] ==
            IF i = 0 THEN <<>>
            ELSE IF components[i] = Empty THEN joined[i - 1]
            ELSE Append(joined[i - 1], components[i])
    IN  joined
Join(components) == JoinUpTo(components)[Len(components)]

\* The file that a path names, as the file system takes it: empty components
\* within it are as if not there, one at its end makes it no file.
Named(p) == Append(Join(Front(p)), Last(p))

\* Fault: a negative count leaves the last directories out of account.
StripFromEnd(p, count) ==
    LET len == Len(p)
    IN  IF count = 0 THEN Named(p)
        ELSE Join(Append(IF count > len THEN <<>>
                         ELSE IF count < 0 THEN SubSeq(p, 1, len + count)
                         ELSE SubSeq(p, count + 1, len - 1), Last(p)))

\* stripComponents.FileName: strings.Split of the directories ends with an
\* empty string, for the directories end with a separator.
Strip(p, count) ==
    LET dirs == Append(Front(p), Empty)
        len  == Len(dirs)
        kept == IF count > len THEN <<>>
                ELSE IF count < -len THEN dirs
                ELSE IF count < 0 THEN SubSeq(dirs, ((len + count) % len) + 1, len)
                ELSE SubSeq(dirs, count + 1, len)
    IN  IF count = 0 THEN Named(p) ELSE Join(Append(kept, Last(p)))

\* Fault: the suffix is left out.
FileNameUnnumbered(p, i) ==
    CASE opts.downloader \in {"file", "expr"} -> <<opts.downloader>>
      [] opts.downloader = "requestFile"      -> Join(<<Last(p)>>)
      [] opts.downloader = "requestPath" ->
            IF Join(p) = <<>> THEN <<>>
            ELSE IF Actual.strip THEN Strip(p, opts.count) ELSE Named(p)

\* The file for a response, <<>> when there is no name.  A file name without
\* expressions gets the index as its suffix; an expression names what it
\* names, here the same file always.
FileName(p, i) ==
    CASE opts.downloader = "file"        -> IF i = 0 THEN <<"file">> ELSE <<"file", Suffix[i]>>
      [] opts.downloader = "expr"        -> <<"expr">>
      [] opts.downloader = "requestFile" -> Join(<<Last(p)>>)
      [] opts.downloader = "requestPath" ->
            IF Join(p) = <<>> THEN <<>>
            ELSE IF Actual.strip THEN Strip(p, opts.count) ELSE Named(p)

(***************************************************************************)
(* handleDownload                                                          *)
(***************************************************************************)
Goto(label) == pc' = label

\* handleDownload returns an error.
Fail == Goto("idle")

Content(headers, part) == [response |-> n, headers |-> headers, part |-> part]
Holding(file, content) ==
    [f \in DOMAIN files \cup {file} |-> IF f = file THEN content ELSE files[f]]
Put(headers, part) ==
    files' = IF name = <<>> THEN files ELSE Holding(name, Content(headers, part))

ActualDownloader ==
    /\ pc = "idle" /\ n < MaxResponses
    /\ n' = n + 1
    /\ path' \in Paths
    /\ name' = <<>>
    /\ Goto(IF Actual.panics THEN "panicked" ELSE "open")
    /\ UNCHANGED <<opts, index, files, genuine, done, refused>>

\* Fault: FileName counts as well.
NextIndexTwice == IF opts.downloader \in {"file", "expr"} THEN index + 2 ELSE index

\* exprAdapter counts every call; a path without a file name is an error, and
\* so is a file that cannot be created, as one with a trailing slash.
NextIndex == IF opts.downloader \in {"file", "expr"} THEN index + 1 ELSE index

OpenStdout ==
    /\ pc = "open" /\ opts.downloader = "stdout"
    /\ Goto("hash")
    /\ UNCHANGED <<opts, n, index, path, name, files, genuine, done, refused>>

OpenFile ==
    /\ pc = "open" /\ opts.downloader # "stdout"
    /\ index' = NextIndex
    /\ LET file == FileName(path, NextIndex)
       IN  \/ Fail /\ UNCHANGED <<name, files>>
           \/ /\ file # <<>> /\ Last(file) # Empty
              /\ Goto("hash")
              /\ name' = file
              /\ files' = Holding(file, Content(FALSE, "none"))
    /\ UNCHANGED <<opts, n, path, genuine, done, refused>>

\* integrityDownloader.OpenDownload, after the output was opened.
StartHash ==
    /\ pc = "hash"
    /\ IF Actual.checks > 0 /\ ~opts.linked THEN Fail ELSE Goto("headers")
    /\ UNCHANGED <<opts, n, index, path, name, files, genuine, done, refused>>

WriteHeaders ==
    /\ pc = "headers"
    /\ IF opts.headers
       THEN Put(TRUE, "none") /\ (Goto("body") \/ Fail)
       ELSE Goto("body") /\ UNCHANGED files
    /\ UNCHANGED <<opts, n, index, path, name, genuine, done, refused>>

\* The body arrives whole, with the digest that is expected or another, or
\* the copy fails in its middle.
WriteBody ==
    /\ pc = "body"
    /\ \/ /\ Put(opts.headers, "whole")
          /\ genuine' \in {genuine, genuine \cup {n}}
          /\ Goto("close")
       \/ Put(opts.headers, "some") /\ Fail /\ UNCHANGED genuine
    /\ UNCHANGED <<opts, n, index, path, name, done, refused>>

\* The digest is of everything that was written to the output.
DigestMatches == n \in genuine /\ ~opts.headers

Succeed == done' = done \cup {[response |-> n, file |-> name]} /\ UNCHANGED refused

\* Fault: the digest is compared when Close of the output has failed.
CloseUnchecked ==
    /\ pc = "close"
    /\ Fail
    /\ Succeed \/ UNCHANGED <<done, refused>>
    /\ UNCHANGED <<opts, n, index, path, name, files, genuine>>

\* integrityChecker.Close, and Close of the output.
Close ==
    /\ pc = "close"
    /\ Goto("idle")
    /\ IF Actual.checks > 0 /\ ~DigestMatches
       THEN refused' = refused \cup {n} /\ UNCHANGED done
       ELSE Succeed \/ UNCHANGED <<done, refused>>
    /\ UNCHANGED <<opts, n, index, path, name, files, genuine>>

Next ==
    \/ ActualDownloader \/ OpenStdout \/ OpenFile \/ StartHash
    \/ WriteHeaders \/ WriteBody \/ Close

Spec == Init /\ [][Next]_vars

-----------------------------------------------------------------------------
(***************************************************************************)
(* Properties                                                              *)
(***************************************************************************)
Contents == [response : 1..n, headers : BOOLEAN, part : {"none", "some", "whole"}]

\* Every variable holds a value of its type.
TypeOK ==
    /\ opts \in Options
    /\ pc \in {"idle", "open", "hash", "headers", "body", "close", "panicked"}
    /\ n \in 0..MaxResponses /\ index \in -1..n - 1
    /\ path \in Paths \cup {<<>>}
    /\ genuine \subseteq 1..n /\ refused \subseteq 1..n
    /\ \A f \in DOMAIN files : f # <<>> /\ files[f] \in Contents
    /\ \A d \in done : d.response \in 1..n /\ d.file \in DOMAIN files \cup {<<>>}

\* With SetIntegrity a download that succeeded has the expected digest, however
\* the integrity downloader is combined with others.
VerifiedOnSuccess ==
    "integrity" \in ToSet(opts.middleware) => \A d \in done : d.response \in genuine

\* The documentation of NewFileDownloader: "a suffix is added for successive
\* downloads of the same file name".  No download, failed or not, touches the
\* file of one that succeeded.
DownloadsKept ==
    opts.downloader = "file" =>
        \A d \in done : files[d.file] = [response |-> d.response, headers |-> opts.headers,
                                         part |-> "whole"]

\* WithStripComponents "strips the specified number of leading path elements":
\* a positive count that many directories, empty ones among them, or all; a
\* count of -2 or less all but one less than that many (downloader_test.go:63-65;
\* for -1 see NegativeKeepsOne).  The file itself is never stripped.
StripsLeading ==
    pc = "hash" /\ Actual.strip /\ opts.count # -1 =>
        LET dirs  == Len(path) - 1
            strip == IF opts.count >= 0 THEN Min({opts.count, dirs})
                     ELSE Max({0, dirs + 1 + opts.count})
        IN  name = Join(SubSeq(path, strip + 1, Len(path)))

\* The entry of downloader_test.go:61, which keeps "e/f.txt" of "a/b/c/d/e/f.txt"
\* for a count of -1: the last directory and the file.  The code keeps the file.
NegativeKeepsOne ==
    pc = "hash" /\ Actual.strip /\ opts.count = -1 =>
        name = Join(SubSeq(path, Max({1, Len(path) - 1}), Len(path)))
=============================================================================
