---------------------------- MODULE ClientProofs ----------------------------
(***************************************************************************)
(* The safety of Client, for every set of configurations and every number  *)
(* of calls, locations and redirects.                                      *)
(***************************************************************************)
EXTENDS Client, SequenceTheorems, TLAPS

\* doOne is at one of the locations that were resolved, those before it have
\* responded, and nothing has failed yet.
LoopInv ==
    /\ \A i \in 1..Len(responses) : responses[i] = i
    /\ pc \notin {"idle", "next", "panicked"} => loc \in 1..count
    /\ pc = "next" => loc \in 1..count + 1
    /\ pc \notin {"idle", "panicked"} => err = "none" /\ Len(responses) = loc - 1
    /\ pc = "idle" /\ calls > 0 =>
          /\ err = "none" => Len(responses) = count
          /\ err # "none" => loc = Len(responses) + 1 /\ loc <= count + 1

\* What is open belongs to the location that doOne is at, from the reply to the
\* end of its download.
OpenInv ==
    /\ \A r \in open : r[2] = loc
    /\ pc \notin {"idle", "download", "headers", "copy", "close", "panicked"} => open = {}
    /\ pc = "idle" /\ err = "none" => open = {}
    /\ pc = "download" => open \subseteq {<<"body", loc>>}
    /\ pc \in {"headers", "copy"} => open \subseteq {<<"body", loc>>, <<"output", loc>>}
    /\ pc = "close" => open \subseteq {<<"output", loc>>}

\* The chain reads the content before it goes on to the query.
ChainInv ==
    /\ pc \in {"url", "location", "body"} => "query" \notin ran
    /\ opts.content \in {"raw", "json"} =>
          /\ pc \in {"query", "auth", "user"} => body = "fresh"
          /\ pc = "send" /\ "query" \in ran => body = "fresh"

\* A transport is built at most once, and credentials replace the ones before.
SharedInv ==
    /\ transport = "unset" => built = 0
    /\ built <= 1
    /\ opts.auth = "basic" => header <= 1

IInv ==
    /\ TypeOK
    /\ LoopInv /\ OpenInv /\ ChainInv /\ SharedInv
    /\ FailFastIsSilent /\ ContentIsResent /\ BasicSentOnce

-----------------------------------------------------------------------------
\* The configuration is one of those that Client is proved for.
LEMMA OptionsTyped ==
  ASSUME TypeOK
  PROVE  /\ opts.content \in {"none", "raw", "json", "reader"}
         /\ opts.auth \in {"none", "basic", "bearer"}
         /\ opts.fill \in BOOLEAN /\ opts.follow \in BOOLEAN /\ opts.failFast \in BOOLEAN
  BY OptionsAssumption DEF TypeOK, AllOptions

\* A client that has not been called is in the invariant.
LEMMA InitInv == Init => IInv
  <1> SUFFICES ASSUME Init PROVE IInv
    OBVIOUS
  <1> USE DEF Init
  <1>0. NotSent \in [loc : 0..MaxLocations, ran : SUBSET Links, header : Nat,
                     body : {"none", "fresh", "consumed"}]
    BY BoundsAssumption DEF NotSent
  <1>1. TypeOK
    <2>1. /\ 0 \in 0..MaxCalls /\ 0 \in 0..MaxLocations /\ 0 \in 0..MaxLocations + 1
          /\ 0 \in 0..MaxVia
      BY BoundsAssumption, ViaAssumption
    <2>2. responses \in Seq(1..MaxLocations) /\ open \subseteq Resources
      OBVIOUS
    <2> QED BY <1>0, <2>1, <2>2 DEF TypeOK
  <1>2. LoopInv /\ OpenInv /\ ChainInv /\ SharedInv
    BY DEF LoopInv, OpenInv, ChainInv, SharedInv
  <1>3. FailFastIsSilent /\ ContentIsResent /\ BasicSentOnce
    BY DEF FailFastIsSilent, ContentIsResent, BasicSentOnce, NotSent
  <1> QED BY <1>1, <1>2, <1>3 DEF IInv

\* The loop of Do, and what doOne does before the middleware.
LEMMA LoopKeeps ==
  ASSUME IInv, Do \/ AllDone \/ EnsureClient \/ URL
  PROVE  IInv'
  <1> USE BoundsAssumption, ViaAssumption
  <1> USE DEF clientVars, requestVars, replyVars, resultVars, Goto, Return
  <1>1. CASE Do
    <2>1. TypeOK'
      BY <1>1 DEF Do, IInv, TypeOK, LoopInv
    <2>2. LoopInv'
      BY <1>1 DEF Do, IInv, TypeOK, LoopInv
    <2>3. OpenInv'
      BY <1>1 DEF Do, IInv, TypeOK, LoopInv, OpenInv
    <2>4. ChainInv' /\ SharedInv'
      BY <1>1 DEF Do, IInv, TypeOK, ChainInv, SharedInv
    <2>5. FailFastIsSilent' /\ ContentIsResent' /\ BasicSentOnce'
      BY <1>1 DEF Do, IInv, ChainInv, SharedInv, FailFastIsSilent,
                    ContentIsResent, BasicSentOnce
    <2> QED BY <2>1, <2>2, <2>3, <2>4, <2>5 DEF IInv
  <1>2. CASE AllDone
    <2>1. TypeOK'
      BY <1>2 DEF AllDone, IInv, TypeOK, LoopInv
    <2>2. LoopInv'
      BY <1>2 DEF AllDone, IInv, TypeOK, LoopInv
    <2>3. OpenInv'
      BY <1>2 DEF AllDone, IInv, TypeOK, LoopInv, OpenInv
    <2>4. ChainInv' /\ SharedInv'
      BY <1>2 DEF AllDone, IInv, TypeOK, ChainInv, SharedInv
    <2>5. FailFastIsSilent' /\ ContentIsResent' /\ BasicSentOnce'
      BY <1>2 DEF AllDone, IInv, ChainInv, SharedInv, FailFastIsSilent,
                    ContentIsResent, BasicSentOnce
    <2> QED BY <2>1, <2>2, <2>3, <2>4, <2>5 DEF IInv
  <1>3. CASE EnsureClient
    <2>1. /\ transport' \in {"unset", "cached", "error"} /\ built' \in Nat /\ logger' \in BOOLEAN
          /\ pc' = "url" /\ ran' = {} /\ via' = 0 /\ 0 \in 0..MaxVia
          /\ UNCHANGED <<opts, calls, count, loc, open, header, body, sent, success,
                        responses, err>>
      <3>1. transport' \in {"unset", "cached", "error"} /\ built' \in Nat
        BY <1>3 DEF EnsureClient, NewTransport, IInv, TypeOK
      <3>2. logger' \in BOOLEAN
        BY <1>3, Zenon DEF EnsureClient, NewTransport, IInv, TypeOK
      <3> QED BY <1>3, <3>1, <3>2 DEF EnsureClient
    <2>2. TypeOK'
      BY <2>1 DEF IInv, TypeOK
    <2>3. LoopInv'
      BY <1>3 DEF EnsureClient, NewTransport, IInv, TypeOK, LoopInv
    <2>4. OpenInv'
      BY <1>3 DEF EnsureClient, NewTransport, IInv, TypeOK, LoopInv, OpenInv
    <2>5. ChainInv' /\ SharedInv'
      BY <1>3 DEF EnsureClient, NewTransport, IInv, TypeOK, ChainInv, SharedInv
    <2>6. FailFastIsSilent' /\ ContentIsResent' /\ BasicSentOnce'
      BY <1>3 DEF EnsureClient, NewTransport, IInv, ChainInv, SharedInv, FailFastIsSilent,
                    ContentIsResent, BasicSentOnce
    <2> QED BY <2>2, <2>3, <2>4, <2>5, <2>6 DEF IInv
  <1>4. CASE URL
    <2>1. TypeOK'
      BY <1>4 DEF URL, IInv, TypeOK, LoopInv
    <2>2. LoopInv'
      BY <1>4 DEF URL, IInv, TypeOK, LoopInv
    <2>3. OpenInv'
      BY <1>4 DEF URL, IInv, TypeOK, LoopInv, OpenInv
    <2>4. ChainInv' /\ SharedInv'
      BY <1>4 DEF URL, IInv, TypeOK, ChainInv, SharedInv
    <2>5. FailFastIsSilent' /\ ContentIsResent' /\ BasicSentOnce'
      BY <1>4 DEF URL, IInv, ChainInv, SharedInv, FailFastIsSilent,
                    ContentIsResent, BasicSentOnce
    <2> QED BY <2>1, <2>2, <2>3, <2>4, <2>5 DEF IInv
  <1> QED BY <1>1, <1>2, <1>3, <1>4

\* The chain of middleware.
LEMMA ChainKeeps ==
  ASSUME IInv,
         \/ LocationMiddleware \/ SetupBodyContent \/ SetupQueryString
         \/ ProcessAuth \/ UserMiddleware
  PROVE  IInv'
  <1> USE BoundsAssumption, ViaAssumption
  <1> USE DEF clientVars, requestVars, replyVars, resultVars, Goto, Return
  <1>1. CASE LocationMiddleware
    <2>1. TypeOK'
      BY <1>1
      DEF LocationMiddleware, CallNext, Stop, chainUnchanged, Links, IInv, TypeOK, LoopInv
    <2>2. LoopInv'
      BY <1>1
      DEF LocationMiddleware, CallNext, Stop, chainUnchanged, Links, IInv, TypeOK, LoopInv
    <2>3. OpenInv'
      BY <1>1
      DEF LocationMiddleware, CallNext, Stop, chainUnchanged, Links, IInv, TypeOK, LoopInv,
          OpenInv
    <2>4. ChainInv' /\ SharedInv'
      BY <1>1
      DEF LocationMiddleware, CallNext, Stop, chainUnchanged, Links, IInv, TypeOK,
          ChainInv, SharedInv
    <2>5. FailFastIsSilent' /\ ContentIsResent' /\ BasicSentOnce'
      BY <1>1
      DEF LocationMiddleware, CallNext, Stop, chainUnchanged, Links, IInv, ChainInv,
          SharedInv, FailFastIsSilent,
                    ContentIsResent, BasicSentOnce
    <2> QED BY <2>1, <2>2, <2>3, <2>4, <2>5 DEF IInv
  <1>2. CASE SetupBodyContent
    <2>1. TypeOK'
      BY <1>2
      DEF SetupBodyContent, CallNext, Stop, chainUnchanged, ReadBody, Links, IInv, TypeOK,
          LoopInv
    <2>2. LoopInv'
      BY <1>2
      DEF SetupBodyContent, CallNext, Stop, chainUnchanged, ReadBody, Links, IInv, TypeOK,
          LoopInv
    <2>3. OpenInv'
      BY <1>2
      DEF SetupBodyContent, CallNext, Stop, chainUnchanged, ReadBody, Links, IInv, TypeOK,
          LoopInv, OpenInv
    <2>4. ChainInv' /\ SharedInv'
      BY <1>2
      DEF SetupBodyContent, CallNext, Stop, chainUnchanged, ReadBody, Links, IInv, TypeOK,
          ChainInv, SharedInv
    <2>5. FailFastIsSilent' /\ ContentIsResent' /\ BasicSentOnce'
      BY <1>2
      DEF SetupBodyContent, CallNext, Stop, chainUnchanged, ReadBody, Links, IInv,
          ChainInv, SharedInv, FailFastIsSilent,
                    ContentIsResent, BasicSentOnce
    <2> QED BY <2>1, <2>2, <2>3, <2>4, <2>5 DEF IInv
  <1>3. CASE SetupQueryString
    <2>1. TypeOK'
      BY <1>3
      DEF SetupQueryString, CallNext, Stop, chainUnchanged, Links, IInv, TypeOK, LoopInv
    <2>2. LoopInv'
      BY <1>3
      DEF SetupQueryString, CallNext, Stop, chainUnchanged, Links, IInv, TypeOK, LoopInv
    <2>3. OpenInv'
      BY <1>3
      DEF SetupQueryString, CallNext, Stop, chainUnchanged, Links, IInv, TypeOK, LoopInv,
          OpenInv
    <2>4. ChainInv' /\ SharedInv'
      BY <1>3
      DEF SetupQueryString, CallNext, Stop, chainUnchanged, Links, IInv, TypeOK, ChainInv,
          SharedInv
    <2>5. FailFastIsSilent' /\ ContentIsResent' /\ BasicSentOnce'
      BY <1>3
      DEF SetupQueryString, CallNext, Stop, chainUnchanged, Links, IInv, ChainInv,
          SharedInv, FailFastIsSilent,
                    ContentIsResent, BasicSentOnce
    <2> QED BY <2>1, <2>2, <2>3, <2>4, <2>5 DEF IInv
  <1>4. CASE ProcessAuth
    <2>1. TypeOK'
      BY <1>4, OptionsTyped
      DEF ProcessAuth, CallNext, Stop, chainUnchanged, Authenticate, Links, IInv, TypeOK,
          LoopInv
    <2>2. LoopInv'
      BY <1>4
      DEF ProcessAuth, CallNext, Stop, chainUnchanged, Authenticate, Links, IInv, TypeOK,
          LoopInv
    <2>3. OpenInv'
      BY <1>4
      DEF ProcessAuth, CallNext, Stop, chainUnchanged, Authenticate, Links, IInv, TypeOK,
          LoopInv, OpenInv
    <2>4. ChainInv' /\ SharedInv'
      BY <1>4
      DEF ProcessAuth, CallNext, Stop, chainUnchanged, Authenticate, Links, IInv, TypeOK,
          ChainInv, SharedInv
    <2>5. FailFastIsSilent' /\ ContentIsResent' /\ BasicSentOnce'
      BY <1>4
      DEF ProcessAuth, CallNext, Stop, chainUnchanged, Authenticate, Links, IInv, ChainInv,
          SharedInv, FailFastIsSilent,
                    ContentIsResent, BasicSentOnce
    <2> QED BY <2>1, <2>2, <2>3, <2>4, <2>5 DEF IInv
  <1>5. CASE UserMiddleware
    <2>1. TypeOK'
      BY <1>5
      DEF UserMiddleware, CallNext, Stop, chainUnchanged, Links, IInv, TypeOK, LoopInv
    <2>2. LoopInv'
      BY <1>5
      DEF UserMiddleware, CallNext, Stop, chainUnchanged, Links, IInv, TypeOK, LoopInv
    <2>3. OpenInv'
      BY <1>5
      DEF UserMiddleware, CallNext, Stop, chainUnchanged, Links, IInv, TypeOK, LoopInv,
          OpenInv
    <2>4. ChainInv' /\ SharedInv'
      BY <1>5
      DEF UserMiddleware, CallNext, Stop, chainUnchanged, Links, IInv, TypeOK, ChainInv,
          SharedInv
    <2>5. FailFastIsSilent' /\ ContentIsResent' /\ BasicSentOnce'
      BY <1>5
      DEF UserMiddleware, CallNext, Stop, chainUnchanged, Links, IInv, ChainInv, SharedInv,
          FailFastIsSilent,
                    ContentIsResent, BasicSentOnce
    <2> QED BY <2>1, <2>2, <2>3, <2>4, <2>5 DEF IInv
  <1> QED BY <1>1, <1>2, <1>3, <1>4, <1>5

\* The exchange with the server.
LEMMA ExchangeKeeps ==
  ASSUME IInv, Send \/ SendFails \/ RedirectPanics \/ Redirect \/ UseLastResponse \/ Respond
  PROVE  IInv'
  <1> USE BoundsAssumption, ViaAssumption
  <1> USE DEF clientVars, requestVars, replyVars, resultVars, Goto, Return
  <1>1. CASE Send
    <2>1. TypeOK'
      BY <1>1 DEF Send, IInv, TypeOK, LoopInv
    <2>2. LoopInv'
      BY <1>1 DEF Send, IInv, TypeOK, LoopInv
    <2>3. OpenInv'
      BY <1>1 DEF Send, IInv, TypeOK, LoopInv, OpenInv
    <2>4. ChainInv' /\ SharedInv'
      BY <1>1 DEF Send, IInv, TypeOK, ChainInv, SharedInv
    <2>5. FailFastIsSilent' /\ ContentIsResent' /\ BasicSentOnce'
      BY <1>1 DEF Send, IInv, ChainInv, SharedInv, FailFastIsSilent,
                    ContentIsResent, BasicSentOnce
    <2> QED BY <2>1, <2>2, <2>3, <2>4, <2>5 DEF IInv
  <1>2. CASE SendFails
    <2>1. TypeOK'
      BY <1>2 DEF SendFails, IInv, TypeOK, LoopInv
    <2>2. LoopInv'
      BY <1>2 DEF SendFails, IInv, TypeOK, LoopInv
    <2>3. OpenInv'
      BY <1>2 DEF SendFails, IInv, TypeOK, LoopInv, OpenInv
    <2>4. ChainInv' /\ SharedInv'
      BY <1>2 DEF SendFails, IInv, TypeOK, ChainInv, SharedInv
    <2>5. FailFastIsSilent' /\ ContentIsResent' /\ BasicSentOnce'
      BY <1>2 DEF SendFails, IInv, ChainInv, SharedInv, FailFastIsSilent,
                    ContentIsResent, BasicSentOnce
    <2> QED BY <2>1, <2>2, <2>3, <2>4, <2>5 DEF IInv
  <1>3. CASE RedirectPanics
    <2>1. TypeOK'
      BY <1>3 DEF RedirectPanics, replyUnchanged, IInv, TypeOK, LoopInv
    <2>2. LoopInv'
      BY <1>3 DEF RedirectPanics, replyUnchanged, IInv, TypeOK, LoopInv
    <2>3. OpenInv'
      BY <1>3 DEF RedirectPanics, replyUnchanged, IInv, TypeOK, LoopInv, OpenInv
    <2>4. ChainInv' /\ SharedInv'
      BY <1>3 DEF RedirectPanics, replyUnchanged, IInv, TypeOK, ChainInv, SharedInv
    <2>5. FailFastIsSilent' /\ ContentIsResent' /\ BasicSentOnce'
      BY <1>3
      DEF RedirectPanics, replyUnchanged, IInv, ChainInv, SharedInv, FailFastIsSilent,
                    ContentIsResent, BasicSentOnce
    <2> QED BY <2>1, <2>2, <2>3, <2>4, <2>5 DEF IInv
  <1>4. CASE Redirect
    <2>1. TypeOK'
      BY <1>4 DEF Redirect, replyUnchanged, IInv, TypeOK, LoopInv
    <2>2. LoopInv'
      BY <1>4 DEF Redirect, replyUnchanged, IInv, TypeOK, LoopInv
    <2>3. OpenInv'
      BY <1>4 DEF Redirect, replyUnchanged, IInv, TypeOK, LoopInv, OpenInv
    <2>4. ChainInv' /\ SharedInv'
      BY <1>4 DEF Redirect, replyUnchanged, IInv, TypeOK, ChainInv, SharedInv
    <2>5. FailFastIsSilent' /\ ContentIsResent' /\ BasicSentOnce'
      BY <1>4 DEF Redirect, replyUnchanged, IInv, ChainInv, SharedInv, FailFastIsSilent,
                    ContentIsResent, BasicSentOnce
    <2> QED BY <2>1, <2>2, <2>3, <2>4, <2>5 DEF IInv
  <1>5. CASE UseLastResponse
    <2>1. TypeOK'
      BY <1>5 DEF UseLastResponse, replyUnchanged, Resources, IInv, TypeOK, LoopInv
    <2>2. LoopInv'
      BY <1>5 DEF UseLastResponse, replyUnchanged, Resources, IInv, TypeOK, LoopInv
    <2>3. OpenInv'
      BY <1>5 DEF UseLastResponse, replyUnchanged, Resources, IInv, TypeOK, LoopInv, OpenInv
    <2>4. ChainInv' /\ SharedInv'
      BY <1>5
      DEF UseLastResponse, replyUnchanged, Resources, IInv, TypeOK, ChainInv, SharedInv
    <2>5. FailFastIsSilent' /\ ContentIsResent' /\ BasicSentOnce'
      BY <1>5
      DEF UseLastResponse, replyUnchanged, Resources, IInv, ChainInv, SharedInv,
          FailFastIsSilent,
                    ContentIsResent, BasicSentOnce
    <2> QED BY <2>1, <2>2, <2>3, <2>4, <2>5 DEF IInv
  <1>6. CASE Respond
    <2>1. TypeOK'
      BY <1>6 DEF Respond, replyUnchanged, Resources, IInv, TypeOK, LoopInv
    <2>2. LoopInv'
      BY <1>6 DEF Respond, replyUnchanged, Resources, IInv, TypeOK, LoopInv
    <2>3. OpenInv'
      BY <1>6 DEF Respond, replyUnchanged, Resources, IInv, TypeOK, LoopInv, OpenInv
    <2>4. ChainInv' /\ SharedInv'
      BY <1>6 DEF Respond, replyUnchanged, Resources, IInv, TypeOK, ChainInv, SharedInv
    <2>5. FailFastIsSilent' /\ ContentIsResent' /\ BasicSentOnce'
      BY <1>6
      DEF Respond, replyUnchanged, Resources, IInv, ChainInv, SharedInv, FailFastIsSilent,
                    ContentIsResent, BasicSentOnce
    <2> QED BY <2>1, <2>2, <2>3, <2>4, <2>5 DEF IInv
  <1> QED BY <1>1, <1>2, <1>3, <1>4, <1>5, <1>6

\* The download of the response.
LEMMA DownloadKeeps ==
  ASSUME IInv, FailFast \/ OpenDownload \/ CopyHeaders \/ CopyTo \/ Close
  PROVE  IInv'
  <1> USE BoundsAssumption, ViaAssumption
  <1> USE DEF clientVars, requestVars, replyVars, resultVars, Goto, Return
  <1>1. CASE FailFast
    <2>1. TypeOK'
      BY <1>1 DEF FailFast, downloadUnchanged, IInv, TypeOK, LoopInv
    <2>2. LoopInv'
      BY <1>1 DEF FailFast, downloadUnchanged, IInv, TypeOK, LoopInv
    <2>3. OpenInv'
      BY <1>1 DEF FailFast, downloadUnchanged, IInv, TypeOK, LoopInv, OpenInv
    <2>4. ChainInv' /\ SharedInv'
      BY <1>1 DEF FailFast, downloadUnchanged, IInv, TypeOK, ChainInv, SharedInv
    <2>5. FailFastIsSilent' /\ ContentIsResent' /\ BasicSentOnce'
      BY <1>1 DEF FailFast, downloadUnchanged, IInv, ChainInv, SharedInv, FailFastIsSilent,
                    ContentIsResent, BasicSentOnce
    <2> QED BY <2>1, <2>2, <2>3, <2>4, <2>5 DEF IInv
  <1>2. CASE OpenDownload
    <2>1. TypeOK'
      BY <1>2 DEF OpenDownload, downloadUnchanged, Resources, IInv, TypeOK, LoopInv
    <2>2. LoopInv'
      BY <1>2 DEF OpenDownload, downloadUnchanged, Resources, IInv, TypeOK, LoopInv
    <2>3. OpenInv'
      BY <1>2 DEF OpenDownload, downloadUnchanged, Resources, IInv, TypeOK, LoopInv, OpenInv
    <2>4. ChainInv' /\ SharedInv'
      BY <1>2
      DEF OpenDownload, downloadUnchanged, Resources, IInv, TypeOK, ChainInv, SharedInv
    <2>5. FailFastIsSilent' /\ ContentIsResent' /\ BasicSentOnce'
      BY <1>2
      DEF OpenDownload, downloadUnchanged, Resources, IInv, ChainInv, SharedInv,
          FailFastIsSilent,
                    ContentIsResent, BasicSentOnce
    <2> QED BY <2>1, <2>2, <2>3, <2>4, <2>5 DEF IInv
  <1>3. CASE CopyHeaders
    <2>1. TypeOK'
      BY <1>3 DEF CopyHeaders, downloadUnchanged, IInv, TypeOK, LoopInv
    <2>2. LoopInv'
      BY <1>3 DEF CopyHeaders, downloadUnchanged, IInv, TypeOK, LoopInv
    <2>3. OpenInv'
      BY <1>3 DEF CopyHeaders, downloadUnchanged, IInv, TypeOK, LoopInv, OpenInv
    <2>4. ChainInv' /\ SharedInv'
      BY <1>3 DEF CopyHeaders, downloadUnchanged, IInv, TypeOK, ChainInv, SharedInv
    <2>5. FailFastIsSilent' /\ ContentIsResent' /\ BasicSentOnce'
      BY <1>3
      DEF CopyHeaders, downloadUnchanged, IInv, ChainInv, SharedInv, FailFastIsSilent,
                    ContentIsResent, BasicSentOnce
    <2> QED BY <2>1, <2>2, <2>3, <2>4, <2>5 DEF IInv
  <1>4. CASE CopyTo
    <2>1. TypeOK'
      BY <1>4 DEF CopyTo, downloadUnchanged, IInv, TypeOK, LoopInv
    <2>2. LoopInv'
      BY <1>4 DEF CopyTo, downloadUnchanged, IInv, TypeOK, LoopInv
    <2>3. OpenInv'
      BY <1>4 DEF CopyTo, downloadUnchanged, IInv, TypeOK, LoopInv, OpenInv
    <2>4. ChainInv' /\ SharedInv'
      BY <1>4 DEF CopyTo, downloadUnchanged, IInv, TypeOK, ChainInv, SharedInv
    <2>5. FailFastIsSilent' /\ ContentIsResent' /\ BasicSentOnce'
      BY <1>4 DEF CopyTo, downloadUnchanged, IInv, ChainInv, SharedInv, FailFastIsSilent,
                    ContentIsResent, BasicSentOnce
    <2> QED BY <2>1, <2>2, <2>3, <2>4, <2>5 DEF IInv
  <1>5. CASE Close
    <2>1. \/ /\ responses' = Append(responses, loc) /\ loc' = loc + 1
             /\ pc' = "next" /\ err' = err
             /\ open' = open \ {<<"output", loc>>}
          \/ /\ responses' = responses /\ loc' = loc
             /\ pc' = "idle" /\ err' = "close"
             /\ open' \subseteq open
      BY <1>5 DEF Close, AppendResponse
    <2>2. /\ responses \in Seq(1..MaxLocations) /\ loc \in 1..count /\ loc \in 1..MaxLocations
          /\ count \in Nat /\ Len(responses) = loc - 1 /\ err = "none"
          /\ \A i \in 1..Len(responses) : responses[i] = i
      BY <1>5 DEF Close, IInv, TypeOK, LoopInv
    <2>3. /\ Append(responses, loc) \in Seq(1..MaxLocations)
          /\ Len(Append(responses, loc)) = loc
          /\ \A i \in 1..loc : Append(responses, loc)[i] = i
      BY <2>2, AppendProperties
    <2>4. count' = count /\ calls' = calls
      BY <1>5 DEF Close, downloadUnchanged
    <2>5. TypeOK'
      <3>1. /\ responses' \in Seq(1..MaxLocations) /\ loc' \in 0..MaxLocations + 1
            /\ pc' \in {"next", "idle"} /\ err' \in {"none", "close"}
        BY <2>1, <2>2, <2>3
      <3>2. open' \subseteq Resources
        BY <2>1, <1>5 DEF IInv, TypeOK
      <3>3. UNCHANGED <<opts, calls, count, ran, via, transport, built, logger, header,
                        body, sent, success>>
        BY <1>5 DEF Close, downloadUnchanged
      <3> QED BY <3>1, <3>2, <3>3 DEF IInv, TypeOK
    <2>6. LoopInv'
      <3>1. CASE /\ responses' = Append(responses, loc) /\ loc' = loc + 1
                 /\ pc' = "next" /\ err' = err
        BY <3>1, <2>2, <2>3, <2>4 DEF LoopInv
      <3>2. CASE responses' = responses /\ loc' = loc /\ pc' = "idle" /\ err' = "close"
        BY <3>2, <2>2, <2>4 DEF LoopInv
      <3> QED BY <2>1, <3>1, <3>2
    <2>7. OpenInv'
      BY <1>5 DEF Close, downloadUnchanged, AppendResponse, IInv, TypeOK, LoopInv, OpenInv
    <2>8. ChainInv' /\ SharedInv'
      BY <1>5
      DEF Close, downloadUnchanged, AppendResponse, IInv, TypeOK, ChainInv, SharedInv
    <2>9. FailFastIsSilent' /\ ContentIsResent' /\ BasicSentOnce'
      BY <1>5
      DEF Close, downloadUnchanged, AppendResponse, IInv, ChainInv, SharedInv,
          FailFastIsSilent,
                    ContentIsResent, BasicSentOnce
    <2> QED BY <2>5, <2>6, <2>7, <2>8, <2>9 DEF IInv
  <1> QED BY <1>1, <1>2, <1>3, <1>4, <1>5

\* Every step keeps the invariant.
THEOREM Inductive == IInv /\ [Next]_vars => IInv'
  <1> SUFFICES ASSUME IInv, [Next]_vars PROVE IInv'
    OBVIOUS
  <1>1. ASSUME UNCHANGED vars PROVE IInv'
    <2>1. TypeOK'
      BY <1>1 DEF vars, IInv, TypeOK
    <2>2. LoopInv' /\ OpenInv'
      BY <1>1 DEF vars, IInv, LoopInv, OpenInv
    <2>3. ChainInv' /\ SharedInv'
      BY <1>1 DEF vars, IInv, ChainInv, SharedInv
    <2>4. FailFastIsSilent' /\ ContentIsResent' /\ BasicSentOnce'
      BY <1>1 DEF vars, IInv, FailFastIsSilent, ContentIsResent, BasicSentOnce
    <2> QED BY <2>1, <2>2, <2>3, <2>4 DEF IInv
  <1> QED
    BY <1>1, LoopKeeps, ChainKeeps, ExchangeKeeps, DownloadKeeps DEF Next, DoOne

\* Every state of a client is in the invariant.
THEOREM Invariance == Spec => []IInv
  BY InitInv, Inductive, PTL DEF Spec

\* Every variable holds a value of its type: no location is asked twice or
\* beyond those that were resolved, no redirect beyond the limit.
THEOREM TypeCorrect == Spec => []TypeOK
  <1>1. IInv => TypeOK BY DEF IInv
  <1> QED BY <1>1, Invariance, PTL

\* However many locations and calls there are, and wherever doOne fails: Do
\* returns the responses before the failure, asks nothing after it, writes
\* nothing under FailFast, and leaves nothing open of other locations.
THEOREM FailuresStay == Spec => []FailureContained
  <1>1. IInv => FailureContained
    BY DEF IInv, LoopInv, OpenInv, FailureContained, ResponsesArePrefix, OnlyFailureLeaks
  <1> QED BY <1>1, Invariance, PTL

\* However many locations share the one http.Request: each is sent the content
\* from its beginning and one value of basic credentials, by one transport.
THEOREM RequestsAreAlike == Spec => []RequestsAlike
  <1>1. IInv => RequestsAlike
    BY DEF IInv, SharedInv, RequestsAlike, FactoryCalledOnce
  <1> QED BY <1>1, Invariance, PTL
=============================================================================
