------------------------------ MODULE TLSConfig ------------------------------
(***************************************************************************)
(* The TLS configuration of a client and the options that change it (tls). *)
(*                                                                         *)
(* Option.Execute and Config.Apply drop the error of an option: one that   *)
(* fails leaves what it has not changed.                                   *)
(***************************************************************************)
EXTENDS Naturals, Sequences, SequencesExt, FiniteSets

CONSTANTS
    CertsIn,    \* the PEM files that can be read: [file -> set of certificates]
    PemIn,      \* those of each directory with the extension .pem: [directory -> files]
    KeyPairs,   \* <<certificate file, key file>> that belong together
    SuiteNames, \* names of cipher suites: [name -> ID]
    CurveNames  \* names of curves: [name -> ID]

System == {"system"}  \* RootCAs nil: the roots of the system, whatever they are

PemHere == PemIn["."]

ASSUME CertsAssumption == \A file \in DOMAIN CertsIn : CertsIn[file] \cap System = {}

NewConfig ==
    [roots        |-> System,
     certificates |-> <<>>,
     minVersion   |-> 0,        \* 0 is the default of crypto/tls, 10..13 are 1.0 to 1.3
     maxVersion   |-> 0,
     insecure     |-> FALSE,
     serverName   |-> "",
     nextProtos   |-> <<>>,
     suites       |-> <<>>,
     curves       |-> <<>>,
     time         |-> "clock",
     random       |-> "default",
     keyLog       |-> "none"]

Pool(c) == IF c.roots = System THEN {} ELSE c.roots

\* A file that cannot be read changes nothing; one without certificates still
\* takes the place of the system's roots.
AddRootCACertFile(c, file) ==
    IF file \notin DOMAIN CertsIn THEN c ELSE [c EXCEPT !.roots = Pool(c) \cup CertsIn[file]]

\* The path is not looked at: the PEM files of the current directory are added.
AddRootCACertPath(c, path) ==
    LET readable == PemHere \cap DOMAIN CertsIn
    IN  IF readable = {} THEN c
        ELSE [c EXCEPT !.roots = Pool(c) \cup UNION {CertsIn[file] : file \in readable}]

AddX509KeyPair(c, pair) ==
    IF pair \in KeyPairs THEN [c EXCEPT !.certificates = Append(@, pair)] ELSE c

\* Fault: only the minimum is set by a flag for one version.
SetVersionsMin(c, range) ==
    [c EXCEPT !.minVersion = range[1], !.maxVersion = IF @ = 0 THEN range[2] ELSE @]

SetVersions(c, range) == [c EXCEPT !.minVersion = range[1], !.maxVersion = range[2]]

WithInsecureSkipVerify(c, v) == [c EXCEPT !.insecure = v]
WithServerName(c, name)      == [c EXCEPT !.serverName = name]
WithNextProtos(c, protos)    == [c EXCEPT !.nextProtos = protos]
WithCiphers(c, ids)          == [c EXCEPT !.suites = ids]
WithCurves(c, ids)           == [c EXCEPT !.curves = ids]
WithTimeHelper(c, mtime)     == [c EXCEPT !.time = mtime]
WithRand(c, source)          == [c EXCEPT !.random = source]
WithKeyLogWriter(c, w)       == [c EXCEPT !.keyLog = w]

\* CipherSuites.Set and CurveIDs.Set: all names, or none.  A name of a suite
\* may also be its number.
NameSet(known, ids, names) ==
    LET ok == ToSet(names) \subseteq DOMAIN known
    IN  [ok  |-> ok,
         ids |-> IF ok THEN ids \o [i \in DOMAIN names |-> known[names[i]]] ELSE ids]
SuiteSet(ids, names) == NameSet(SuiteNames, ids, names)
CurveSet(ids, names) == NameSet(CurveNames, ids, names)
=============================================================================
