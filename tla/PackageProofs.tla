---------------------------- MODULE PackageProofs ----------------------------
(***************************************************************************)
(* Proofs about packages and where they come from: the resolver, the lock  *)
(* and packages/ (Packages), what is published and fetched (Registry), the *)
(* requests (Transport), the user's files (UserFiles) and plugins          *)
(* (Plugins), for any catalogs, publications, settings and commands.       *)
(***************************************************************************)
EXTENDS Packages, FiniteSetTheorems, SequenceTheorems, NaturalsInduction, WellFoundedInduction, TLAPS

(* A record of these fields: what an EXCEPT of it is can be computed.      *)
Fields(t, names) == t = [f \in names |-> t[f]]

(* A set of positions has a first one.                                     *)
LEMMA LeastPosition ==
  ASSUME NEW S \in SUBSET Nat, S # {}
  PROVE  \E v \in S : \A w \in S : v <= w
<1>1. PICK v \in S : \A w \in S : ~(<<w, v>> \in OpToRel(<, Nat))
  BY NatLessThanWellFounded, WFMin
<1>2. ASSUME NEW w \in S, w < v PROVE FALSE
  <2>1. <<w, v>> \in Nat \X Nat /\ <<w, v>>[1] < <<w, v>>[2]
    BY <1>2
  <2>2. <<w, v>> \in OpToRel(<, Nat)
    BY <2>1, Zenon DEF OpToRel
  <2> QED BY <1>1, <2>2
<1> QED BY <1>2

LEMMA MinIsIn ==
  ASSUME NEW S \in SUBSET Nat, S # {}
  PROVE  Min(S) \in S /\ \A w \in S : Min(S) <= w
<1>1. \E v \in S : \A w \in S : v <= w
  BY LeastPosition
<1> QED BY <1>1 DEF Min

LEMMA SeqFacts ==
  ASSUME NEW S, NEW s \in Seq(S)
  PROVE  /\ Len(s) \in Nat /\ DOMAIN s = 1 .. Len(s) /\ \A i \in 1 .. Len(s) : s[i] \in S
BY ElementOfSeq

(* What is left of a list that is worked off from the front.               *)
LEMMA TailFacts ==
  ASSUME NEW S, NEW s \in Seq(S), s # <<>>
  PROVE  /\ Tail(s) \in Seq(S) /\ Head(s) \in S /\ Head(s) = s[1] /\ 1 \in DOMAIN s
         /\ DOMAIN Tail(s) = 1 .. Len(s) - 1 /\ \A i \in DOMAIN Tail(s) : i + 1 \in DOMAIN s /\ Tail(s)[i] = s[i + 1]
         /\ ToSet(s) = ToSet(Tail(s)) \cup {Head(s)}
<1>1. /\ Len(s) \in Nat \ {0} /\ DOMAIN s = 1 .. Len(s) /\ Tail(s) \in Seq(S) /\ Len(Tail(s)) = Len(s) - 1
      /\ \A i \in 1 .. Len(s) - 1 : Tail(s)[i] = s[i + 1]
  BY HeadTailProperties, EmptySeq, SeqFacts
<1>2. DOMAIN Tail(s) = 1 .. Len(s) - 1 /\ Head(s) = s[1] /\ Head(s) \in S
  BY <1>1, SeqFacts
<1>3. \A i \in 2 .. Len(s) : i - 1 \in DOMAIN Tail(s) /\ Tail(s)[i - 1] = s[i]
  BY <1>1, <1>2
<1>4. ToSet(s) = ToSet(Tail(s)) \cup {Head(s)}
  <2>1. ASSUME NEW x \in ToSet(s) PROVE x \in ToSet(Tail(s)) \cup {Head(s)}
    <3>1. PICK i \in 1 .. Len(s) : x = s[i]
      BY <1>1 DEF ToSet
    <3>2. CASE i = 1
      BY <1>2, <3>1, <3>2
    <3>3. CASE i \in 2 .. Len(s)
      BY <1>3, <3>1, <3>3 DEF ToSet
    <3> QED BY <1>1, <3>2, <3>3
  <2>2. ASSUME NEW x \in ToSet(Tail(s)) PROVE x \in ToSet(s)
    <3>1. PICK i \in 1 .. Len(s) - 1 : x = Tail(s)[i]
      BY <1>2 DEF ToSet
    <3> QED BY <1>1, <3>1 DEF ToSet
  <2>3. Head(s) \in ToSet(s)
    BY <1>1, <1>2 DEF ToSet
  <2> QED BY <2>1, <2>2, <2>3
<1> QED BY <1>1, <1>2, <1>4

(* A list that grows at its end, or loses its end.                         *)
LEMMA AppendFacts ==
  ASSUME NEW S, NEW s \in Seq(S), NEW x \in S
  PROVE  /\ Append(s, x) \in Seq(S) /\ Len(Append(s, x)) = Len(s) + 1 /\ Len(s) \in Nat
         /\ DOMAIN Append(s, x) = 1 .. Len(s) + 1 /\ DOMAIN s = 1 .. Len(s)
         /\ Append(s, x)[Len(s) + 1] = x /\ \A i \in 1 .. Len(s) : Append(s, x)[i] = s[i]
BY AppendProperties, SeqFacts

LEMMA FrontFacts ==
  ASSUME NEW S, NEW s \in Seq(S), s # <<>>
  PROVE  /\ Front(s) \in Seq(S) /\ Len(Front(s)) = Len(s) - 1
         /\ \A i \in 1 .. Len(s) - 1 : Front(s)[i] = s[i]
         /\ Last(s) \in S /\ Last(s) = s[Len(s)] /\ Len(s) \in Nat \ {0}
<1>1. Len(s) \in Nat \ {0}
  BY EmptySeq
<1>2. /\ 1 \in Int /\ Len(s) - 1 \in Int /\ Len(s) \in 1 .. Len(s)
      /\ \A i \in 1 .. Len(s) - 1 : i \in 1 .. Len(s) /\ s[1 + i - 1] = s[i]
  BY <1>1
<1>3. Last(s) \in S
  BY <1>2, ElementOfSeq DEF Last
<1>4. /\ Front(s) \in Seq(S) /\ Len(Front(s)) = Len(s) - 1
      /\ \A i \in 1 .. Len(s) - 1 : Front(s)[i] = s[i]
  <2>1. \A i \in 1 .. Len(s) - 1 : s[i] \in S
    BY <1>2, ElementOfSeq
  <2>2. /\ Front(s) \in Seq(S)
        /\ Len(Front(s)) = IF 1 <= Len(s) - 1 THEN (Len(s) - 1) - 1 + 1 ELSE 0
        /\ \A i \in 1 .. (Len(s) - 1) - 1 + 1 : Front(s)[i] = s[1 + i - 1]
    BY <1>2, <2>1, SubSeqProperties DEF Front
  <2>3. (IF 1 <= Len(s) - 1 THEN (Len(s) - 1) - 1 + 1 ELSE 0) = Len(s) - 1 /\ (Len(s) - 1) - 1 + 1 = Len(s) - 1
    BY <1>1
  <2> QED BY <1>2, <2>2, <2>3
<1> QED BY <1>1, <1>3, <1>4 DEF Last

-----------------------------------------------------------------------------
(* Requests.                                                               *)

RequestFields == {"kind", "pc", "settings", "url", "client", "use", "body", "policy", "header", "at", "hop",
                  "carries", "tries"}
Outcomes == {"200", "201", "400", "500", "lost", "blocked"}
RequestShape == /\ Fields(task, RequestFields) /\ task.kind = "request" /\ task.hop \in Nat
                /\ task.settings.repos \in Seq(Range(task.settings.repos))
                /\ task.pc \in {"client", "send", "ok", "error"}
(* ClientForURL: what the policy allows, a repository of the URL was told. *)
PolicyKept ==
    task.policy.pass \/ task.policy.all =>
        \E r \in ToSet(task.settings.repos) : /\ UrlUnderRepo(task.url, r.url)
                                              /\ r.pass = task.policy.pass /\ r.all = task.policy.all
(* injectHeaders: the header is the stored one, sent where it may be.      *)
HeaderKept ==
    task.header # NoHeader => /\ Private(task.settings, task.url) /\ task.client # "flags"
                              /\ task.header = GetForHost(task.settings, task.url.host)
(* redirectPolicy: as far as the policy goes.                              *)
CarriesKept ==
    /\ task.pc = "client" => task.at = task.url
    /\ task.carries # NoHeader =>
          /\ task.carries = task.header /\ Private(task.settings, task.at)
          /\ task.at.host # task.url.host => task.policy.all \/ (task.policy.pass /\ task.hop = 1)
(* Do: while a request is at work, all its attempts failed on the way.     *)
TriesKept ==
    /\ task.tries \in Seq(Outcomes) /\ Len(task.tries) <= 3
    /\ task.pc = "client" => task.tries = <<>>
    /\ \A i \in 1 .. Len(task.tries) - 1 : task.tries[i] \in {"500", "lost", "blocked"}
    /\ task.pc \in {"client", "send"} => Len(task.tries) < 3 /\ \A i \in 1 .. Len(task.tries) : task.tries[i] \in {"500", "lost", "blocked"}
    /\ (task.pc = "error" /\ task.tries # <<>> /\ Last(task.tries) \in {"500", "lost", "blocked"} /\ task.body # "spent")
          => Len(task.tries) = 3
RequestInv == RequestShape /\ PolicyKept /\ HeaderKept /\ CarriesKept /\ TriesKept

LEMMA BeginRequest ==
  ASSUME NEW settings, NEW url, NEW client, NEW use, NEW body,
         settings.repos \in Seq(Range(settings.repos)), task = RequestTask(settings, url, client, use, body)
  PROVE  RequestInv
<1>1. RequestShape /\ PolicyKept /\ HeaderKept /\ CarriesKept
  BY DEF RequestTask, RequestShape, Fields, RequestFields, NoPolicy, PolicyKept, HeaderKept, CarriesKept
<1>2. task.tries = <<>> /\ task.pc = "client"
  BY DEF RequestTask
<1>3. TriesKept
  BY <1>2 DEF TriesKept
<1> QED BY <1>1, <1>3 DEF RequestInv

(* ClientForURL gives the policy of a repository the URL lies under.       *)
LEMMA PolicyOfRepository ==
  ASSUME NEW s, NEW url, s.repos \in Seq(Range(s.repos)), PolicyFor(s, url).pass \/ PolicyFor(s, url).all
  PROVE  \E r \in ToSet(s.repos) : /\ UrlUnderRepo(url, r.url)
                                   /\ r.pass = PolicyFor(s, url).pass /\ r.all = PolicyFor(s, url).all
<1> DEFINE under == {i \in DOMAIN s.repos : UrlUnderRepo(url, s.repos[i].url)}
<1>1. under \in SUBSET Nat
  BY SeqFacts
<1>2. CASE under = {}
  BY <1>2 DEF PolicyFor, NoPolicy
<1>3. CASE under # {}
  <2>1. Min(under) \in under
    BY <1>1, <1>3, MinIsIn
  <2>2. PolicyFor(s, url) = [pass |-> s.repos[Min(under)].pass, all |-> s.repos[Min(under)].all]
    BY <1>3 DEF PolicyFor
  <2>3. s.repos[Min(under)] \in ToSet(s.repos) /\ UrlUnderRepo(url, s.repos[Min(under)].url)
    BY <2>1 DEF ToSet
  <2> HIDE DEF under
  <2> QED BY <2>2, <2>3
<1> QED BY <1>2, <1>3

LEMMA ClientMade ==
  ASSUME RequestInv, MakeClient
  PROVE  RequestInv'
<1> DEFINE s == task.settings
           header == Injected(s, task.url, task.client # "flags" /\ s.readable)
           policy == IF task.client = "url" THEN PolicyFor(s, task.url) ELSE NoPolicy
<1>1. CASE task' = [task EXCEPT !.pc = "error"]
  <2>1. /\ Fields(task', RequestFields) /\ task'.pc = "error"
        /\ \A f \in RequestFields \ {"pc"} : task'[f] = task[f]
    BY <1>1 DEF RequestInv, RequestShape, Fields, RequestFields
  <2>2. task.pc = "client"
    BY DEF MakeClient
  <2>3. /\ task'.settings = task.settings /\ task'.url = task.url /\ task'.client = task.client /\ task'.policy = task.policy
        /\ task'.header = task.header /\ task'.at = task.at /\ task'.hop = task.hop /\ task'.carries = task.carries
        /\ task'.tries = task.tries /\ task'.kind = task.kind /\ task'.body = task.body
    BY <2>1 DEF RequestFields
  <2>4. TriesKept'
    <3>1. task.tries = <<>>
      BY <2>2 DEF RequestInv, TriesKept
    <3> QED BY <2>1, <2>3, <3>1 DEF TriesKept
  <2> QED BY <2>1, <2>3, <2>4 DEF RequestInv, RequestShape, PolicyKept, HeaderKept, CarriesKept, Private
<1>2. CASE task' = [task EXCEPT !.pc = "send", !.header = header, !.carries = header, !.policy = policy]
  <2> HIDE DEF header, policy
  <2>1. /\ Fields(task', RequestFields) /\ task'.pc = "send" /\ task'.header = header /\ task'.carries = header
        /\ task'.policy = policy
        /\ task'.settings = task.settings /\ task'.url = task.url /\ task'.client = task.client
        /\ task'.at = task.at /\ task'.hop = task.hop
        /\ task'.tries = task.tries /\ task'.kind = task.kind /\ task'.body = task.body
    BY <1>2 DEF RequestInv, RequestShape, Fields, RequestFields
  <2>2. task.pc = "client"
    BY DEF MakeClient
  <2>3. policy.pass \/ policy.all =>
            \E r \in ToSet(task.settings.repos) : /\ UrlUnderRepo(task.url, r.url)
                                                  /\ r.pass = policy.pass /\ r.all = policy.all
    <3>1. CASE task.client = "url"
      BY <3>1, PolicyOfRepository DEF policy, RequestInv, RequestShape
    <3>2. CASE task.client # "url"
      BY <3>2 DEF policy, NoPolicy
    <3> QED BY <3>1, <3>2
  <2>4. header # NoHeader => /\ Private(task.settings, task.url) /\ task.client # "flags"
                             /\ header = GetForHost(task.settings, task.url.host)
    BY DEF header, Injected
  <2>5. RequestShape' /\ PolicyKept' /\ HeaderKept'
    BY <2>1, <2>3, <2>4 DEF RequestInv, RequestShape, PolicyKept, HeaderKept
  <2>6. CarriesKept'
    BY <2>1, <2>2, <2>4 DEF RequestInv, CarriesKept
  <2>7. TriesKept'
    BY <2>1, <2>2 DEF RequestInv, TriesKept
  <2> QED BY <2>5, <2>6, <2>7 DEF RequestInv
<1> QED BY <1>1, <1>2 DEF MakeClient

(* Do: an attempt ends; nothing but its outcome is remembered.             *)
LEMMA AttemptEnds ==
  ASSUME RequestInv, task.pc = "send", NEW outcome \in Outcomes, task' = Ends(outcome)
  PROVE  RequestInv'
<1> DEFINE tries == Append(task.tries, outcome)
<1>1. /\ tries \in Seq(Outcomes) /\ Len(tries) = Len(task.tries) + 1 /\ tries[Len(tries)] = outcome
      /\ \A i \in 1 .. Len(tries) - 1 : tries[i] \in {"500", "lost", "blocked"}
      /\ Len(task.tries) \in Nat /\ Len(task.tries) < 3 /\ tries # <<>>
  BY AppendFacts DEF RequestInv, TriesKept
<1> HIDE DEF tries
<1>2. \/ /\ Len(tries) = 3 \/ task.body = "spent" \/ outcome \notin {"500", "lost", "blocked"}
         /\ task' \in {[[task EXCEPT !.tries = tries] EXCEPT !.pc = "ok"], [[task EXCEPT !.tries = tries] EXCEPT !.pc = "error"]}
      \/ /\ Len(tries) < 3 /\ outcome \in {"500", "lost", "blocked"}
         /\ task' = [[task EXCEPT !.tries = tries] EXCEPT !.at = task.url, !.hop = 0, !.carries = task.header]
  <2> DEFINE t == [task EXCEPT !.tries = tries]
  <2>1. t.tries = tries
    BY DEF RequestInv, RequestShape, Fields, RequestFields
  <2> HIDE DEF t
  <2>2. \/ outcome \notin {"500", "lost", "blocked"} /\ task' \in {[t EXCEPT !.pc = "ok"], [t EXCEPT !.pc = "error"]}
        \/ /\ outcome \in {"500", "lost", "blocked"} /\ (Len(tries) = 3 \/ task.body = "spent")
           /\ task' = [t EXCEPT !.pc = "error"]
        \/ /\ outcome \in {"500", "lost", "blocked"} /\ Len(tries) # 3
           /\ task' = [t EXCEPT !.at = task.url, !.hop = 0, !.carries = task.header]
    BY <2>1 DEF Ends, Retried, maxRetries, t, tries
  <2> QED BY <1>1, <2>2 DEF t
<1>3. CASE task' \in {[[task EXCEPT !.tries = tries] EXCEPT !.pc = "ok"], [[task EXCEPT !.tries = tries] EXCEPT !.pc = "error"]}
  <2>1. /\ Fields(task', RequestFields) /\ task'.pc \in {"ok", "error"} /\ task'.tries = tries
        /\ task'.settings = task.settings /\ task'.url = task.url /\ task'.client = task.client /\ task'.policy = task.policy
        /\ task'.header = task.header /\ task'.at = task.at /\ task'.hop = task.hop /\ task'.carries = task.carries
        /\ task'.kind = task.kind /\ task'.body = task.body
    BY <1>3 DEF RequestInv, RequestShape, Fields, RequestFields
  <2>2. RequestShape' /\ PolicyKept' /\ HeaderKept' /\ CarriesKept'
    BY <2>1 DEF RequestInv, RequestShape, PolicyKept, HeaderKept, CarriesKept
  <2>3. Len(tries) = 3 \/ task.body = "spent" \/ outcome \notin {"500", "lost", "blocked"}
    <3>1. CASE Len(tries) < 3 /\ task' = [[task EXCEPT !.tries = tries] EXCEPT !.at = task.url, !.hop = 0, !.carries = task.header]
      <4>1. task'.pc = task.pc
        BY <3>1 DEF RequestInv, RequestShape, Fields, RequestFields
      <4> QED BY <2>1, <4>1
    <3> QED BY <1>2, <3>1
  <2>4. TriesKept'
    <3>1. Last(tries) = outcome
      BY <1>1 DEF Last
    <3>2. task'.pc \notin {"client", "send"} /\ Len(tries) <= 3
      BY <1>1, <2>1
    <3> QED BY <1>1, <2>1, <2>3, <3>1, <3>2 DEF TriesKept
  <2> QED BY <2>2, <2>4 DEF RequestInv
<1>4. CASE /\ Len(tries) < 3 /\ outcome \in {"500", "lost", "blocked"}
           /\ task' = [[task EXCEPT !.tries = tries] EXCEPT !.at = task.url, !.hop = 0, !.carries = task.header]
  <2>1. /\ Fields(task', RequestFields) /\ task'.pc = "send" /\ task'.tries = tries
        /\ task'.settings = task.settings /\ task'.url = task.url /\ task'.client = task.client /\ task'.policy = task.policy
        /\ task'.header = task.header /\ task'.at = task.url /\ task'.hop = 0 /\ task'.carries = task.header
        /\ task'.kind = task.kind /\ task'.body = task.body
    BY <1>4 DEF RequestInv, RequestShape, Fields, RequestFields
  <2>2. RequestShape'
    BY <2>1 DEF RequestInv, RequestShape
  <2>5. PolicyKept' /\ HeaderKept'
    BY <2>1 DEF RequestInv, PolicyKept, HeaderKept
  <2>6. CarriesKept'
    BY <2>1 DEF RequestInv, HeaderKept, CarriesKept
  <2>3. \A i \in 1 .. Len(tries) : tries[i] \in {"500", "lost", "blocked"}
    BY <1>1, <1>4
  <2>4. TriesKept'
    BY <1>1, <1>4, <2>1, <2>3 DEF TriesKept
  <2> QED BY <2>2, <2>4, <2>5, <2>6 DEF RequestInv
<1> QED BY <1>2, <1>3, <1>4

(* redirectPolicy: what becomes of the request.                            *)
Follows(next, carries) ==
  /\ Fields(task', RequestFields) /\ task'.pc = task.pc /\ task'.tries = task.tries
  /\ task'.settings = task.settings /\ task'.url = task.url /\ task'.client = task.client /\ task'.policy = task.policy
  /\ task'.header = task.header /\ task'.at = next /\ task'.hop = task.hop + 1 /\ task'.carries = carries
  /\ task'.kind = task.kind /\ task'.body = task.body
LEMMA RedirectedFields ==
  ASSUME Fields(task, RequestFields), NEW next, NEW carries,
         task' = [task EXCEPT !.at = next, !.hop = @ + 1, !.carries = carries]
  PROVE  Follows(next, carries)
BY DEF Follows, Fields, RequestFields

(* redirectPolicy: the header stays on the request only where the policy   *)
(* lets it go and the way is private.                                      *)
LEMMA Redirected ==
  ASSUME RequestInv, task.pc = "send", NEW next, NEW carries, carries \in {NoHeader, task.header}, Follows(next, carries),
         carries # NoHeader => /\ task.policy.all \/ (task.policy.pass /\ task.hop = 0) \/ next.host = task.url.host
                               /\ next.scheme = "https" \/ task.settings.plain
  PROVE  RequestInv'
<1>1. /\ Fields(task', RequestFields) /\ task'.pc = "send" /\ task'.tries = task.tries
      /\ task'.settings = task.settings /\ task'.url = task.url /\ task'.client = task.client /\ task'.policy = task.policy
      /\ task'.header = task.header /\ task'.at = next /\ task'.hop = task.hop + 1 /\ task'.carries = carries
      /\ task'.kind = task.kind /\ task'.body = task.body
  BY DEF Follows
<1>2. RequestShape'
  BY <1>1 DEF RequestInv, RequestShape
<1>3. PolicyKept' /\ HeaderKept'
  BY <1>1 DEF RequestInv, PolicyKept, HeaderKept
<1>4. CarriesKept'
  <2>1. task.hop = 0 => task.hop + 1 = 1
    OBVIOUS
  <2>2. (task.pc = "client" => task.at = task.url)'
    BY <1>1
  <2>3. (task.carries # NoHeader => task.carries = task.header /\ Private(task.settings, task.at))'
    BY <1>1 DEF Private
  <2>4. (task.carries # NoHeader /\ task.at.host # task.url.host => task.policy.all \/ (task.policy.pass /\ task.hop = 1))'
    <3>1. ASSUME task'.carries # NoHeader, task'.at.host # task'.url.host
          PROVE  task'.policy.all \/ (task'.policy.pass /\ task'.hop = 1)
      <4>1. task.policy.all \/ (task.policy.pass /\ task.hop = 0)
        <5>1. carries # NoHeader /\ next.host # task.url.host
          BY <1>1, <3>1
        <5> QED BY <5>1, Zenon
      <4>2. task'.policy = task.policy /\ (task.hop = 0 => task'.hop = 1)
        BY <1>1, <2>1
      <4> QED BY <4>1, <4>2, Zenon
    <3> QED BY <3>1, Zenon
  <2> QED BY <2>2, <2>3, <2>4 DEF CarriesKept
<1>5. TriesKept'
  BY <1>1 DEF RequestInv, TriesKept
<1> QED BY <1>2, <1>3, <1>4, <1>5 DEF RequestInv

LEMMA StepRequest ==
  ASSUME NEW hosts, RequestInv, [TransportStep(hosts)]_taskVars
  PROVE  RequestInv'
<1>1. CASE MakeClient
  BY <1>1, ClientMade
<1>2. CASE Exchange(hosts)
  <2>1. ASSUME NEW answer \in {"200", "201", "400", "500", "lost"}, task' = Ends(answer)
        PROVE  RequestInv'
    BY <1>2, <2>1, AttemptEnds DEF Exchange, Outcomes
  <2>2. ASSUME NEW next, task' = IF Blocked(next) THEN Ends("blocked")
                                 ELSE [task EXCEPT !.at = next, !.hop = @ + 1, !.carries = IF Forwards(next) THEN task.header ELSE NoHeader]
        PROVE  RequestInv'
    <3>1. CASE Blocked(next)
      BY <1>2, <2>2, <3>1, AttemptEnds DEF Exchange, Outcomes
    <3>2. CASE ~Blocked(next)
      <4> DEFINE carries == IF Forwards(next) THEN task.header ELSE NoHeader
      <4>1. task' = [task EXCEPT !.at = next, !.hop = @ + 1, !.carries = carries] /\ task.pc = "send"
        BY <1>2, <2>2, <3>2 DEF Exchange
      <4>2. carries \in {NoHeader, task.header}
        BY Zenon
      <4>4. carries # NoHeader => /\ task.policy.all \/ (task.policy.pass /\ task.hop = 0) \/ next.host = task.url.host
                                  /\ next.scheme = "https" \/ task.settings.plain
        BY DEF Forwards, CrossHost, Private
      <4>3. Fields(task, RequestFields)
        BY DEF RequestInv, RequestShape
      <4> HIDE DEF carries
      <4> QED BY <4>1, <4>2, <4>3, <4>4, RedirectedFields, Redirected
    <3> QED BY <3>1, <3>2
  <2> QED BY <1>2, <2>1, <2>2 DEF Exchange
<1>3. CASE UNCHANGED taskVars
  BY <1>3 DEF taskVars, RequestInv, RequestShape, PolicyKept, HeaderKept, CarriesKept, TriesKept, Private, Fields
<1> QED BY <1>1, <1>2, <1>3 DEF TransportStep

(* redirectPolicy, injectHeaders, ClientForURL, Do: credentials travel     *)
(* only where the user said, and only what failed on the way is asked      *)
(* again.                                                                  *)
THEOREM RequestsKept ==
  ASSUME NEW hosts
  PROVE  TransportSpec(hosts) => [](task.kind = "request" /\ RequestsBehave)
<1>1. TransportSpec(hosts) => []RequestInv
  <2>1. ASSUME TransportSpec(hosts) PROVE RequestInv
    BY <2>1, BeginRequest DEF TransportSpec
  <2>2. RequestInv /\ [TransportStep(hosts)]_taskVars => RequestInv'
    BY StepRequest
  <2> QED BY <2>1, <2>2, PTL DEF TransportSpec
<1>2. RequestInv => task.kind = "request" /\ RequestsBehave
  <2> SUFFICES ASSUME RequestInv PROVE task.kind = "request" /\ RequestsBehave
    OBVIOUS
  <2>1. CredentialsAuthorised
    <3>1. ASSUME task.carries # NoHeader, task.at.host # task.url.host
          PROVE  \E r \in ToSet(task.settings.repos) : /\ r.url.host = task.url.host /\ IsPrefix(r.url.path, task.url.path)
                                                       /\ r.all \/ (r.pass /\ task.hop = 1)
      BY <3>1 DEF RequestInv, CarriesKept, PolicyKept, UrlUnderRepo
    <3>2. task.carries # NoHeader => /\ Private(task.settings, task.url) /\ Private(task.settings, task.at)
                                     /\ task.client # "flags" /\ task.carries = GetForHost(task.settings, task.url.host)
      BY DEF RequestInv, CarriesKept, HeaderKept
    <3> QED BY <3>1, <3>2 DEF CredentialsAuthorised, Private
  <2>2. AnswersAreFinal
    BY DEF RequestInv, TriesKept, AnswersAreFinal
  <2> QED BY <2>1, <2>2 DEF RequestsBehave, RequestInv, RequestShape
<1> QED BY <1>1, <1>2, PTL

-----------------------------------------------------------------------------
(* The user's files.                                                       *)

FileFields == {"kind", "pc", "script", "at", "legacy", "repos", "torn", "stored", "saved", "out"}
IsList(s) == \E S : s \in Seq(S)
NamedOnce(repos) == \A i, j \in DOMAIN repos : repos[i].name = repos[j].name => i = j
Have(repos, hosts) == \A i \in DOMAIN repos : repos[i].secret => repos[i].host \in hosts
CredentialsRead == "credentials" \notin task.torn
FilesShape == Fields(task, FileFields) /\ task.kind = "files" /\ IsList(task.repos) /\ NamedOnce(task.repos)
(* newRepoAddCommand: the host's credentials are there before the list is  *)
(* written; LoadCredentialStore: the legacy file counts until one is saved. *)
StoreKept ==
    /\ ~task.saved => task.stored = {}
    /\ CredentialsRead => Have(task.repos, task.stored \cup task.out) /\ Loaded \cap task.out = {}
    /\ task.at = "idle" \/ (task.at = "stored" /\ task.script # <<>> /\ Command.cmd = "add" /\ Command.host \in task.stored)
FilesInv == FilesShape /\ StoreKept

(* A list with one element taken out.                                      *)
LEMMA RemoveAtFacts ==
  ASSUME NEW S, NEW s \in Seq(S), NEW i \in 1 .. Len(s)
  PROVE  /\ RemoveAt(s, i) \in Seq(S) /\ Len(RemoveAt(s, i)) = Len(s) - 1
         /\ \A j \in 1 .. Len(s) - 1 : RemoveAt(s, i)[j] = IF j < i THEN s[j] ELSE s[j + 1]
<1> DEFINE before == SubSeq(s, 1, i - 1)
           after == SubSeq(s, i + 1, Len(s))
<1>1. Len(s) \in Nat /\ \A j \in 1 .. Len(s) : s[j] \in S
  BY SeqFacts
<1>2. /\ before \in Seq(S) /\ Len(before) = i - 1
      /\ \A j \in 1 .. i - 1 : before[j] = s[j]
  <2>1. /\ before \in Seq(S) /\ Len(before) = IF 1 <= i - 1 THEN (i - 1) - 1 + 1 ELSE 0
        /\ \A j \in 1 .. (i - 1) - 1 + 1 : before[j] = s[1 + j - 1]
    <3>1. 1 \in Int /\ i - 1 \in Int /\ \A j \in 1 .. i - 1 : s[j] \in S
      BY <1>1
    <3> QED BY <3>1, SubSeqProperties
  <2>2. (IF 1 <= i - 1 THEN (i - 1) - 1 + 1 ELSE 0) = i - 1 /\ (i - 1) - 1 + 1 = i - 1
    BY <1>1
  <2>3. \A j \in 1 .. i - 1 : 1 + j - 1 = j
    BY <1>1
  <2> HIDE DEF before
  <2> QED BY <2>1, <2>2, <2>3
<1>3. /\ after \in Seq(S) /\ Len(after) = Len(s) - i
      /\ \A j \in 1 .. Len(s) - i : after[j] = s[i + j]
  <2>1. /\ after \in Seq(S) /\ Len(after) = IF i + 1 <= Len(s) THEN Len(s) - (i + 1) + 1 ELSE 0
        /\ \A j \in 1 .. Len(s) - (i + 1) + 1 : after[j] = s[(i + 1) + j - 1]
    <3>1. i + 1 \in Int /\ Len(s) \in Int /\ \A j \in i + 1 .. Len(s) : s[j] \in S
      BY <1>1
    <3> QED BY <3>1, SubSeqProperties
  <2>2. (IF i + 1 <= Len(s) THEN Len(s) - (i + 1) + 1 ELSE 0) = Len(s) - i /\ Len(s) - (i + 1) + 1 = Len(s) - i
    BY <1>1
  <2>3. \A j \in 1 .. Len(s) - i : (i + 1) + j - 1 = i + j
    BY <1>1
  <2> HIDE DEF after
  <2> QED BY <2>1, <2>2, <2>3
<1>4. RemoveAt(s, i) = before \o after
  BY DEF RemoveAt
<1> HIDE DEF before, after
<1>5. /\ before \o after \in Seq(S) /\ Len(before \o after) = Len(before) + Len(after)
      /\ \A j \in 1 .. Len(before) + Len(after) :
            (before \o after)[j] = IF j <= Len(before) THEN before[j] ELSE after[j - Len(before)]
  BY <1>2, <1>3, ConcatProperties
<1>6. Len(before) + Len(after) = Len(s) - 1
  BY <1>1, <1>2, <1>3
<1>7. ASSUME NEW j \in 1 .. Len(s) - 1
      PROVE  (before \o after)[j] = IF j < i THEN s[j] ELSE s[j + 1]
  <2>1. CASE j < i
    BY <1>1, <1>2, <1>5, <1>6, <2>1
  <2>2. CASE ~(j < i)
    <3>1. j - (i - 1) \in 1 .. Len(s) - i /\ i + (j - (i - 1)) = j + 1 /\ ~(j <= i - 1)
      BY <1>1, <2>2
    <3>2. (before \o after)[j] = after[j - (i - 1)]
      BY <1>2, <1>5, <1>6, <3>1
    <3> QED BY <1>3, <2>2, <3>1, <3>2
  <2> QED BY <2>1, <2>2
<1> QED BY <1>4, <1>5, <1>6, <1>7

(* RepoFile.Remove: no name twice before, none of that name after.         *)
LEMMA UnlistedFacts ==
  ASSUME IsList(task.repos), NamedOnce(task.repos), NEW name
  PROVE  /\ IsList(Unlisted(name)) /\ NamedOnce(Unlisted(name))
         /\ \A i \in DOMAIN Unlisted(name) : Unlisted(name)[i].name # name
         /\ \A hosts : Have(task.repos, hosts) => Have(Unlisted(name), hosts)
<1> DEFINE s == task.repos
<1>1. PICK S : s \in Seq(S)
  BY DEF IsList
<1>2. Len(s) \in Nat /\ DOMAIN s = 1 .. Len(s)
  BY <1>1, SeqFacts
<1>3. CASE Named(name) = {}
  BY <1>3 DEF Named, Unlisted
<1>4. CASE Named(name) # {}
  <2> DEFINE i == Min(Named(name))
  <2>1. Named(name) \in SUBSET Nat /\ Named(name) \subseteq DOMAIN s
    BY <1>2 DEF Named
  <2>2. i \in Named(name)
    BY <1>4, <2>1, MinIsIn
  <2>3. Unlisted(name) = RemoveAt(s, i)
    BY <1>4 DEF Unlisted
  <2>4. i \in 1 .. Len(s) /\ s[i].name = name
    BY <1>2, <2>2 DEF Named
  <2> HIDE DEF i, s
  <2> DEFINE r == RemoveAt(s, i)
  <2>5. /\ r \in Seq(S) /\ Len(r) = Len(s) - 1
        /\ \A j \in 1 .. Len(s) - 1 : r[j] = IF j < i THEN s[j] ELSE s[j + 1]
    BY <1>1, <2>4, RemoveAtFacts
  <2> HIDE DEF r
  <2>6. DOMAIN r = 1 .. Len(s) - 1
    BY <2>5, SeqFacts
  <2> DEFINE at(j) == IF j < i THEN j ELSE j + 1
  <2>7. \A j \in DOMAIN r : at(j) \in DOMAIN s /\ at(j) # i /\ r[j] = s[at(j)]
    BY <1>2, <2>4, <2>5, <2>6
  <2>8. \A j, k \in DOMAIN r : at(j) = at(k) => j = k
    BY <1>2, <2>4, <2>6
  <2> HIDE DEF at
  <2>9. \A j, k \in DOMAIN s : s[j].name = s[k].name => j = k
    BY DEF NamedOnce, s
  <2>10. NamedOnce(r) /\ \A j \in DOMAIN r : r[j].name # name
    BY <1>2, <2>4, <2>7, <2>8, <2>9 DEF NamedOnce
  <2>11. ASSUME NEW hosts, Have(s, hosts) PROVE Have(r, hosts)
    BY <2>7, <2>11 DEF Have
  <2> QED BY <2>3, <2>5, <2>10, <2>11 DEF IsList, r, s
<1> QED BY <1>3, <1>4

(* RepoFile.Add                                                            *)
LEMMA RelistedFacts ==
  ASSUME IsList(task.repos), NamedOnce(task.repos), NEW op
  PROVE  /\ IsList(Relisted(op)) /\ NamedOnce(Relisted(op))
         /\ \A hosts : Have(task.repos, hosts) /\ (op.secret => op.host \in hosts) => Have(Relisted(op), hosts)
<1> DEFINE s == Unlisted(op.name)
           e == [name |-> op.name, host |-> op.host, secret |-> op.secret]
<1>1. /\ IsList(s) /\ NamedOnce(s) /\ \A i \in DOMAIN s : s[i].name # op.name
      /\ \A hosts : Have(task.repos, hosts) => Have(s, hosts)
  BY UnlistedFacts
<1>2. Relisted(op) = Append(s, e)
  BY DEF Relisted
<1>3. e.name = op.name /\ e.host = op.host /\ (e.secret => op.secret)
  OBVIOUS
<1> HIDE DEF s, e
<1>4. PICK S : s \in Seq(S)
  BY <1>1 DEF IsList
<1>5. s \in Seq(S \cup {e}) /\ e \in S \cup {e}
  <2>1. \A i \in 1 .. Len(s) : s[i] \in S
    BY <1>4, SeqFacts
  <2>2. Len(s) \in Nat /\ s = [i \in 1 .. Len(s) |-> s[i]]
    BY <1>4
  <2> QED BY <2>1, <2>2
<1>6. /\ Append(s, e) \in Seq(S \cup {e}) /\ Len(s) \in Nat
      /\ DOMAIN Append(s, e) = 1 .. Len(s) + 1 /\ DOMAIN s = 1 .. Len(s)
      /\ Append(s, e)[Len(s) + 1] = e /\ \A i \in 1 .. Len(s) : Append(s, e)[i] = s[i]
  BY <1>5, AppendFacts
<1>7. NamedOnce(Append(s, e))
  <2> SUFFICES ASSUME NEW i \in 1 .. Len(s) + 1, NEW j \in 1 .. Len(s) + 1, Append(s, e)[i].name = Append(s, e)[j].name
               PROVE  i = j
    BY <1>6 DEF NamedOnce
  <2>1. CASE i \in 1 .. Len(s) /\ j \in 1 .. Len(s)
    BY <1>1, <1>6, <2>1 DEF NamedOnce
  <2>2. CASE i = Len(s) + 1 /\ j \in 1 .. Len(s)
    BY <1>1, <1>3, <1>6, <2>2
  <2>3. CASE i \in 1 .. Len(s) /\ j = Len(s) + 1
    BY <1>1, <1>3, <1>6, <2>3
  <2> QED BY <1>6, <2>1, <2>2, <2>3
<1>8. ASSUME NEW hosts, Have(task.repos, hosts), op.secret => op.host \in hosts PROVE Have(Append(s, e), hosts)
  <2> SUFFICES ASSUME NEW i \in 1 .. Len(s) + 1, Append(s, e)[i].secret PROVE Append(s, e)[i].host \in hosts
    BY <1>6 DEF Have
  <2>1. CASE i \in 1 .. Len(s)
    BY <1>1, <1>6, <1>8, <2>1 DEF Have
  <2>2. CASE i = Len(s) + 1
    BY <1>3, <1>6, <1>8, <2>2
  <2> QED BY <1>6, <2>1, <2>2
<1> QED BY <1>2, <1>6, <1>7, <1>8 DEF IsList

(* What a command leaves.                                                  *)
Leaves(at, repos, torn, stored, saved, out) ==
    /\ Fields(task', FileFields) /\ task'.kind = "files" /\ task'.legacy = task.legacy
    /\ task'.at = at /\ task'.repos = repos /\ task'.torn = torn /\ task'.stored = stored /\ task'.saved = saved
    /\ task'.out = out

LEMMA FilesReached ==
  ASSUME FilesInv, NEW repos, NEW torn, NEW stored, NEW saved, NEW out, Leaves("idle", repos, torn, stored, saved, out),
         IsList(repos), NamedOnce(repos), saved \/ stored = {},
         "credentials" \notin torn => Have(repos, stored \cup out) /\ (IF saved THEN stored ELSE task.legacy) \cap out = {}
  PROVE  FilesInv'
<1>1. /\ Fields(task', FileFields) /\ task'.kind = "files" /\ task'.legacy = task.legacy /\ task'.at = "idle"
      /\ task'.repos = repos /\ task'.torn = torn /\ task'.stored = stored /\ task'.saved = saved /\ task'.out = out
  BY DEF Leaves
<1>2. FilesShape'
  BY <1>1 DEF FilesShape, IsList, NamedOnce
<1>3. StoreKept'
  BY <1>1 DEF StoreKept, CredentialsRead, Have, Loaded
<1> QED BY <1>2, <1>3 DEF FilesInv

(* A command that changes nothing.                                         *)
LEMMA FilesUnchanged ==
  ASSUME FilesInv, task' = Done(task)
  PROVE  FilesInv'
<1>1. Leaves("idle", task.repos, task.torn, task.stored, task.saved, task.out)
  BY DEF Leaves, Done, FilesInv, FilesShape, Fields, FileFields
<1>2. /\ IsList(task.repos) /\ NamedOnce(task.repos) /\ (task.saved \/ task.stored = {})
      /\ "credentials" \notin task.torn => /\ Have(task.repos, task.stored \cup task.out)
                                           /\ (IF task.saved THEN task.stored ELSE task.legacy) \cap task.out = {}
  BY DEF FilesInv, FilesShape, StoreKept, CredentialsRead, Loaded
<1> QED BY <1>1, <1>2, FilesReached

(* RepoFile.Save                                                           *)
LEMMA ListSaved ==
  ASSUME FilesInv, NEW repos, ReposSaved(repos), IsList(repos), NamedOnce(repos),
         CredentialsRead => Have(repos, task.stored \cup task.out)
  PROVE  FilesInv'
<1>1. CASE task' = Done(task)
  BY <1>1, FilesUnchanged
<1>2. /\ task.saved \/ task.stored = {}
      /\ "credentials" \notin task.torn => (IF task.saved THEN task.stored ELSE task.legacy) \cap task.out = {}
      /\ IsList(task.repos) /\ NamedOnce(task.repos)
  BY DEF FilesInv, FilesShape, StoreKept, CredentialsRead, Loaded
<1>3. CASE task' = [Done(task) EXCEPT !.repos = repos]
  <2>1. Leaves("idle", repos, task.torn, task.stored, task.saved, task.out)
    BY <1>3 DEF Leaves, Done, FilesInv, FilesShape, Fields, FileFields
  <2> QED BY <1>2, <2>1, FilesReached DEF CredentialsRead
<1>4. CASE task' = [Done(task) EXCEPT !.torn = @ \cup {"repositories"}]
  <2>1. Leaves("idle", task.repos, task.torn \cup {"repositories"}, task.stored, task.saved, task.out)
    BY <1>4 DEF Leaves, Done, FilesInv, FilesShape, Fields, FileFields
  <2>2. "credentials" \notin task.torn => Have(task.repos, task.stored \cup task.out)
    BY DEF FilesInv, StoreKept, CredentialsRead
  <2> QED BY <1>2, <2>1, <2>2, FilesReached
<1> QED BY <1>1, <1>3, <1>4 DEF ReposSaved

(* CredentialStore.Save that fails leaves the file as it was, or torn.     *)
LEMMA StoreNotSaved ==
  ASSUME FilesInv, \/ task' = Done(task)
                   \/ task' = [Done(task) EXCEPT !.torn = @ \cup {"credentials"}, !.saved = TRUE]
  PROVE  FilesInv'
<1>1. CASE task' = Done(task)
  BY <1>1, FilesUnchanged
<1>2. CASE task' = [Done(task) EXCEPT !.torn = @ \cup {"credentials"}, !.saved = TRUE]
  <2>1. Leaves("idle", task.repos, task.torn \cup {"credentials"}, task.stored, TRUE, task.out)
    BY <1>2 DEF Leaves, Done, FilesInv, FilesShape, Fields, FileFields
  <2>2. IsList(task.repos) /\ NamedOnce(task.repos) /\ "credentials" \in task.torn \cup {"credentials"}
    BY DEF FilesInv, FilesShape
  <2> QED BY <2>1, <2>2, FilesReached
<1> QED BY <1>1, <1>2

(* newLoginCommand, newRepoAddCommand: with what was loaded and the host.  *)
LEMMA StoreHas ==
  ASSUME FilesInv, CredentialsRead
  PROVE  /\ task.stored \subseteq Loaded /\ Have(task.repos, task.stored \cup task.out) /\ Loaded \cap task.out = {}
         /\ IsList(task.repos) /\ NamedOnce(task.repos)
BY DEF FilesInv, FilesShape, StoreKept, Loaded

LEMMA AddStep ==
  ASSUME FilesInv, RepoAdd
  PROVE  FilesInv'
<1>1. CASE task' = Done(task)
  BY <1>1, FilesUnchanged
<1>2. CASE ~CredentialsFirst /\ task.at = "idle" /\ Readable("credentials")
           /\ StoreSaved(Loaded \cup {Command.host}, [task EXCEPT !.at = "stored", !.out = @ \ {Command.host}])
  <2>1. CASE task' = [[task EXCEPT !.at = "stored", !.out = @ \ {Command.host}]
                        EXCEPT !.stored = Loaded \cup {Command.host}, !.saved = TRUE]
    <3> DEFINE host == Command.host
               stored == Loaded \cup {host}
    <3>1. Command.cmd = "add" /\ task.script # <<>>
      BY DEF RepoAdd, Typed, Command
    <3>2. /\ Leaves("stored", task.repos, task.torn, stored, TRUE, task.out \ {host})
          /\ task'.script = task.script
      <4> HIDE DEF host, stored
      <4>1. task' = [[task EXCEPT !.at = "stored", !.out = @ \ {host}] EXCEPT !.stored = stored, !.saved = TRUE]
        BY <2>1 DEF host, stored
      <4> QED BY <4>1 DEF Leaves, FilesInv, FilesShape, Fields, FileFields
    <3> HIDE DEF host, stored
    <3>3. /\ Fields(task', FileFields) /\ task'.kind = "files" /\ task'.at = "stored" /\ task'.saved = TRUE
          /\ task'.repos = task.repos /\ task'.torn = task.torn /\ task'.stored = stored /\ task'.out = task.out \ {host}
          /\ task'.script = task.script
      BY <3>2 DEF Leaves
    <3>4. /\ task.stored \subseteq Loaded /\ Have(task.repos, task.stored \cup task.out) /\ Loaded \cap task.out = {}
      BY <1>2, StoreHas DEF Readable, CredentialsRead
    <3>5. Have(task.repos, stored \cup (task.out \ {host})) /\ stored \cap (task.out \ {host}) = {}
      BY <3>4 DEF Have, stored
    <3>6. FilesShape'
      BY <3>3 DEF FilesInv, FilesShape, IsList, NamedOnce
    <3>7. Command' = Command /\ host \in stored /\ host = Command.host
      BY <3>3 DEF Command, stored, host
    <3>8. StoreKept'
      BY <3>1, <3>3, <3>5, <3>7 DEF StoreKept, CredentialsRead, Loaded, Have
    <3> QED BY <3>6, <3>8 DEF FilesInv
  <2> QED BY <1>2, <2>1, StoreNotSaved DEF StoreSaved
<1>3. CASE CredentialsFirst /\ ReposSaved(Relisted(Command))
  <2>1. CredentialsRead => (Command.secret => Command.host \in task.stored \cup task.out)
    BY <1>3 DEF CredentialsFirst, FilesInv, StoreKept
  <2>2. IsList(task.repos) /\ NamedOnce(task.repos) /\ (CredentialsRead => Have(task.repos, task.stored \cup task.out))
    BY DEF FilesInv, FilesShape, StoreKept
  <2>3. /\ IsList(Relisted(Command)) /\ NamedOnce(Relisted(Command))
        /\ CredentialsRead => Have(Relisted(Command), task.stored \cup task.out)
    BY <2>1, <2>2, RelistedFacts
  <2> QED BY <1>3, <2>3, ListSaved
<1> QED BY <1>1, <1>2, <1>3 DEF RepoAdd, FailsNow

LEMMA LogInStep ==
  ASSUME FilesInv, LogIn
  PROVE  FilesInv'
<1>1. CASE task' = Done(task)
  BY <1>1, FilesUnchanged
<1> DEFINE host == Command.host
           stored == Loaded \cup {host}
<1>2. CASE Readable("credentials") /\ task' = [Done([task EXCEPT !.out = @ \ {host}]) EXCEPT !.stored = stored, !.saved = TRUE]
  <2> HIDE DEF host, stored
  <2>1. Leaves("idle", task.repos, task.torn, stored, TRUE, task.out \ {host})
    BY <1>2 DEF Leaves, Done, FilesInv, FilesShape, Fields, FileFields
  <2>2. /\ task.stored \subseteq Loaded /\ Have(task.repos, task.stored \cup task.out) /\ Loaded \cap task.out = {}
        /\ IsList(task.repos) /\ NamedOnce(task.repos)
    BY <1>2, StoreHas DEF Readable, CredentialsRead
  <2>3. Have(task.repos, stored \cup (task.out \ {host})) /\ stored \cap (task.out \ {host}) = {}
    BY <2>2 DEF Have, stored
  <2> QED BY <2>1, <2>2, <2>3, FilesReached
<1> QED BY <1>1, <1>2, StoreNotSaved DEF LogIn, FailsNow, StoreSaved

LEMMA LogOutStep ==
  ASSUME FilesInv, LogOut
  PROVE  FilesInv'
<1>1. CASE task' = Done(task)
  BY <1>1, FilesUnchanged
<1> DEFINE host == Command.host
<1>2. CASE Readable("credentials") /\ task' = [Done(task) EXCEPT !.stored = Loaded, !.saved = @ \/ task.legacy # {}]
  <2> DEFINE saved == task.saved \/ task.legacy # {}
  <2>1. Leaves("idle", task.repos, task.torn, Loaded, saved, task.out)
    BY <1>2 DEF Leaves, Done, FilesInv, FilesShape, Fields, FileFields
  <2>2. /\ task.stored \subseteq Loaded /\ Have(task.repos, task.stored \cup task.out) /\ Loaded \cap task.out = {}
        /\ IsList(task.repos) /\ NamedOnce(task.repos)
    BY <1>2, StoreHas DEF Readable, CredentialsRead
  <2>3. saved \/ Loaded = {}
    BY DEF Loaded
  <2>4. (IF saved THEN Loaded ELSE task.legacy) = Loaded
    BY DEF Loaded
  <2>5. Have(task.repos, Loaded \cup task.out)
    BY <2>2 DEF Have
  <2> HIDE DEF saved
  <2> QED BY <2>1, <2>2, <2>3, <2>4, <2>5, FilesReached
<1>3. CASE Readable("credentials") /\ task' = [Done([task EXCEPT !.out = @ \cup {host}]) EXCEPT !.stored = Loaded \ {host}, !.saved = TRUE]
  <2> HIDE DEF host
  <2>1. Leaves("idle", task.repos, task.torn, Loaded \ {host}, TRUE, task.out \cup {host})
    BY <1>3 DEF Leaves, Done, FilesInv, FilesShape, Fields, FileFields
  <2>2. /\ task.stored \subseteq Loaded /\ Have(task.repos, task.stored \cup task.out) /\ Loaded \cap task.out = {}
        /\ IsList(task.repos) /\ NamedOnce(task.repos)
    BY <1>3, StoreHas DEF Readable, CredentialsRead
  <2>3. /\ Have(task.repos, (Loaded \ {host}) \cup (task.out \cup {host}))
        /\ (Loaded \ {host}) \cap (task.out \cup {host}) = {}
    BY <2>2 DEF Have
  <2> QED BY <2>1, <2>2, <2>3, FilesReached
<1> QED BY <1>1, <1>2, <1>3, StoreNotSaved DEF LogOut, FailsNow, StoreSaved

(* repo add, repo remove, login, logout: the list and the credentials      *)
(* agree, however often one of the writes failed.                          *)
THEOREM FilesKept == UserFilesSpec => [](task.kind = "files" /\ FilesAgree)
<1>1. ASSUME UserFilesSpec PROVE FilesInv
  <2>1. PICK script, legacy : task = UserFilesTask(script, legacy)
    BY <1>1 DEF UserFilesSpec
  <2>2. /\ Fields(task, FileFields) /\ task.kind = "files" /\ task.repos = <<>> /\ task.stored = {} /\ task.saved = FALSE
        /\ task.out = {} /\ task.at = "idle"
    BY <2>1 DEF UserFilesTask, Fields, FileFields
  <2>3. <<>> \in Seq({}) /\ DOMAIN <<>> = {}
    OBVIOUS
  <2>4. IsList(task.repos) /\ NamedOnce(task.repos)
    BY <2>2, <2>3 DEF IsList, NamedOnce
  <2>5. Have(task.repos, task.stored \cup task.out) /\ Loaded \cap task.out = {}
    BY <2>2, <2>3 DEF Have
  <2> QED BY <2>2, <2>4, <2>5 DEF FilesInv, FilesShape, StoreKept
<1>2. ASSUME FilesInv, [UserFilesStep]_taskVars PROVE FilesInv'
  <2>1. CASE RepoAdd
    BY <1>2, <2>1, AddStep
  <2>2. CASE RepoRemove
    <3>1. /\ IsList(Unlisted(Command.name)) /\ NamedOnce(Unlisted(Command.name))
          /\ CredentialsRead => Have(Unlisted(Command.name), task.stored \cup task.out)
      BY <1>2, UnlistedFacts DEF FilesInv, FilesShape, StoreKept
    <3> QED BY <1>2, <2>2, <3>1, FilesUnchanged, ListSaved DEF RepoRemove, FailsNow
  <2>3. CASE LogIn
    BY <1>2, <2>3, LogInStep
  <2>4. CASE LogOut
    BY <1>2, <2>4, LogOutStep
  <2>5. CASE FilesStop
    <3>1. /\ Fields(task', FileFields) /\ task'.kind = task.kind /\ task'.repos = task.repos /\ task'.stored = task.stored
          /\ task'.saved = task.saved /\ task'.out = task.out /\ task'.at = task.at /\ task'.torn = task.torn
          /\ task'.script = task.script /\ task'.legacy = task.legacy
      BY <1>2, <2>5 DEF FilesStop, FilesInv, FilesShape, Fields, FileFields
    <3> QED BY <1>2, <3>1 DEF FilesInv, FilesShape, StoreKept, CredentialsRead, Have, Loaded, IsList, NamedOnce, Command
  <2>6. CASE UNCHANGED taskVars
    <3>1. task' = task
      BY <2>6 DEF taskVars
    <3> QED BY <1>2, <3>1 DEF FilesInv, FilesShape, StoreKept, CredentialsRead, Have, Loaded, IsList, NamedOnce, Command, Fields
  <2> QED BY <1>2, <2>1, <2>2, <2>3, <2>4, <2>5, <2>6 DEF UserFilesStep
<1>3. FilesInv => task.kind = "files" /\ FilesAgree
  <2> SUFFICES ASSUME FilesInv PROVE task.kind = "files" /\ FilesAgree
    OBVIOUS
  <2>1. /\ Readable("credentials") => Have(task.repos, task.stored \cup task.out) /\ Loaded \cap task.out = {}
        /\ NamedOnce(task.repos) /\ task.kind = "files"
    BY DEF FilesInv, FilesShape, StoreKept, CredentialsRead, Readable
  <2> QED BY <2>1 DEF FilesAgree, Have, NamedOnce
<1>4. UserFilesSpec => []FilesInv
  <2>1. UserFilesSpec => FilesInv
    BY <1>1
  <2>2. FilesInv /\ [UserFilesStep]_taskVars => FilesInv'
    BY <1>2
  <2> QED BY <2>1, <2>2, PTL DEF UserFilesSpec
<1> QED BY <1>3, <1>4, PTL

-----------------------------------------------------------------------------
(* Plugins.                                                                *)

PluginFields == {"kind", "pc", "at", "script", "order", "dirs", "good", "ran", "lost"}
PluginShape ==
    /\ Fields(task, PluginFields) /\ task.kind = "plugins" /\ task.at \in {"idle", "check"}
    /\ task.order \in Seq(Range(task.order)) /\ IsList(task.script)
    /\ task.dirs = [d \in DOMAIN task.dirs |-> task.dirs[d]] /\ DOMAIN task.dirs = Range(task.order)
    /\ \A i \in DOMAIN task.script : task.script[i].cmd = "install" => task.script[i].dir \in DOMAIN task.dirs
    /\ task.at = "check" => task.script # <<>> /\ Head(task.script).cmd = "install"
(* Install: only the directory that is being installed may hold what was   *)
(* not accepted.                                                           *)
WholeBut(dirs, good, lost, all) == \A d \in all : dirs[d].parts # "none" => d \in good \cup lost
PluginsKept ==
    /\ WholeBut(task.dirs, task.good, task.lost,
                IF task.at = "check" THEN DOMAIN task.dirs \ {PluginAsk.dir} ELSE DOMAIN task.dirs)
    /\ ~task.ran.shared => task.ran.in = task.ran.found
PluginInv == PluginShape /\ PluginsKept

(* resolvePluginDir finds a directory that is there.                       *)
LEMMA ResolvedIsThere ==
  ASSUME PluginShape, NEW query
  PROVE  LET d == Resolved(task, query)
         IN  \/ d = "none"
             \/ d \in GoBy(query)
<1> DEFINE Declared == {i \in DOMAIN task.order : Loads(task, task.order[i]) /\ task.dirs[task.order[i]].name = query}
<1>1. CASE query \in DOMAIN task.dirs /\ task.dirs[query].parts # "none"
  BY <1>1 DEF Resolved, GoBy
<1>2. CASE ~(query \in DOMAIN task.dirs /\ task.dirs[query].parts # "none") /\ Declared = {}
  BY <1>2 DEF Resolved
<1>3. CASE ~(query \in DOMAIN task.dirs /\ task.dirs[query].parts # "none") /\ Declared # {}
  <2> DEFINE c == CHOOSE i \in Declared : \A j \in Declared : i <= j
  <2>1. Declared \in SUBSET Nat
    BY SeqFacts DEF PluginShape
  <2>2. \E i \in Declared : \A j \in Declared : i <= j
    BY <1>3, <2>1, LeastPosition
  <2>3. c \in Declared
    BY <2>2
  <2>4. Resolved(task, query) = task.order[c]
    BY <1>3 DEF Resolved
  <2> HIDE DEF c
  <2>5. task.order[c] \in DOMAIN task.dirs
    BY <2>3 DEF PluginShape, Range
  <2>6. Loads(task, task.order[c]) /\ task.dirs[task.order[c]].name = query
    BY <2>3
  <2>7. task.dirs[task.order[c]].parts # "none"
    BY <2>6 DEF Loads
  <2> QED BY <2>4, <2>5, <2>6, <2>7 DEF GoBy
<1> QED BY <1>1, <1>2, <1>3

(* Run: where no other directory goes by the name, the plugin runs where   *)
(* it was found.                                                           *)
LEMMA RunsWhereFound ==
  ASSUME PluginShape, NEW d, NEW name, GoBy(name) = {d}
  PROVE  Resolved(task, name) = d
<1>1. d \in DOMAIN task.dirs /\ task.dirs[d].parts # "none" /\ (d = name \/ (Loads(task, d) /\ task.dirs[d].name = name))
  BY DEF GoBy
<1>2. CASE d = name
  BY <1>1, <1>2 DEF Resolved
<1>3. CASE d # name
  <2> DEFINE Declared == {i \in DOMAIN task.order : Loads(task, task.order[i]) /\ task.dirs[task.order[i]].name = name}
  <2>1. CASE name \in DOMAIN task.dirs /\ task.dirs[name].parts # "none"
    <3>1. name \in GoBy(name)
      BY <2>1 DEF GoBy
    <3> QED BY <1>3, <3>1
  <2>2. CASE ~(name \in DOMAIN task.dirs /\ task.dirs[name].parts # "none")
    <3>1. PICK k \in DOMAIN task.order : task.order[k] = d
      BY <1>1 DEF PluginShape, Range
    <3>2. Declared # {}
      BY <1>1, <1>3, <3>1
    <3> DEFINE c == CHOOSE i \in Declared : \A j \in Declared : i <= j
    <3>3. Declared \in SUBSET Nat
      BY SeqFacts DEF PluginShape
    <3>4. \E i \in Declared : \A j \in Declared : i <= j
      BY <3>2, <3>3, LeastPosition
    <3>5. c \in Declared
      BY <3>4
    <3>6. Resolved(task, name) = task.order[c]
      BY <2>2, <3>2 DEF Resolved
    <3> HIDE DEF c
    <3>7. task.order[c] \in DOMAIN task.dirs
      BY <3>5 DEF PluginShape, Range
    <3>8. task.dirs[task.order[c]].parts # "none" /\ Loads(task, task.order[c]) /\ task.dirs[task.order[c]].name = name
      BY <3>5 DEF Loads
    <3>9. task.order[c] \in GoBy(name)
      BY <3>7, <3>8 DEF GoBy
    <3> QED BY <3>6, <3>9
  <2> QED BY <2>1, <2>2
<1> QED BY <1>2, <1>3

(* What a step leaves: at most the directory d is another.                 *)
Changes(at, script, d, files, good, ran, lost) ==
    /\ Fields(task', PluginFields) /\ task'.kind = "plugins" /\ task'.at = at /\ task'.order = task.order
    /\ task'.script = script /\ task'.dirs = [task.dirs EXCEPT ![d] = files]
    /\ task'.good = good /\ task'.ran = ran /\ task'.lost = lost
LEMMA ShapeChanges ==
  ASSUME PluginShape, NEW d, NEW files, task.script # <<>>,
         Fields(task', PluginFields), task'.kind = "plugins", task'.order = task.order,
         task'.dirs = [task.dirs EXCEPT ![d] = files],
         \/ task'.at = "idle" /\ task'.script = Tail(task.script)
         \/ task'.at = "check" /\ task'.script = task.script /\ PluginAsk.cmd = "install"
  PROVE  /\ PluginShape' /\ DOMAIN task'.dirs = DOMAIN task.dirs
         /\ \A e \in DOMAIN task.dirs : task'.dirs[e] = IF e = d THEN files ELSE task.dirs[e]
<1> DEFINE script == task'.script
<1>1. /\ Fields(task', PluginFields) /\ task'.kind = "plugins" /\ task'.order = task.order
      /\ task'.at \in {"idle", "check"} /\ task'.script = script /\ task'.dirs = [task.dirs EXCEPT ![d] = files]
      /\ task'.at = "check" => script = task.script /\ PluginAsk.cmd = "install"
  OBVIOUS
<1>2. /\ task'.dirs = [e \in DOMAIN task'.dirs |-> task'.dirs[e]] /\ DOMAIN task'.dirs = DOMAIN task.dirs
      /\ \A e \in DOMAIN task.dirs : task'.dirs[e] = IF e = d THEN files ELSE task.dirs[e]
  BY <1>1 DEF PluginShape
<1>0. script = task.script \/ script = Tail(task.script)
  OBVIOUS
<1> HIDE DEF script
<1>3. IsList(script) /\ \A i \in DOMAIN script : script[i].cmd = "install" => script[i].dir \in DOMAIN task.dirs
  <2>1. CASE script = task.script
    BY <2>1 DEF PluginShape
  <2>2. CASE script = Tail(task.script)
    <3>1. PICK S : task.script \in Seq(S)
      BY DEF PluginShape, IsList
    <3>2. /\ Tail(task.script) \in Seq(S)
          /\ \A i \in DOMAIN Tail(task.script) : i + 1 \in DOMAIN task.script /\ Tail(task.script)[i] = task.script[i + 1]
      BY <3>1, TailFacts
    <3> QED BY <2>2, <3>2 DEF PluginShape, IsList
  <2> QED BY <1>0, <2>1, <2>2
<1>4. task'.order \in Seq(Range(task'.order)) /\ DOMAIN task'.dirs = Range(task'.order)
  BY <1>1, <1>2 DEF PluginShape
<1>5. IsList(task'.script) /\ \A i \in DOMAIN task'.script : task'.script[i].cmd = "install" => task'.script[i].dir \in DOMAIN task'.dirs
  BY <1>1, <1>2, <1>3
<1>6. task'.at = "check" => task'.script # <<>> /\ Head(task'.script).cmd = "install"
  BY <1>1 DEF PluginAsk
<1>7. PluginShape'
  BY <1>1, <1>2, <1>4, <1>5, <1>6 DEF PluginShape, IsList
<1> QED BY <1>2, <1>7

(* A command ends: the directory d holds nothing that is not accounted for. *)
LEMMA PluginAnswered ==
  ASSUME PluginInv, NEW d, NEW files, NEW good, NEW ran, NEW lost, task.script # <<>>,
         Changes("idle", Tail(task.script), d, files, good, ran, lost),
         task.good \cup task.lost \subseteq good \cup lost \cup {d},
         d \in DOMAIN task.dirs => files.parts = "none" \/ d \in good \cup lost,
         task.at = "check" => d = PluginAsk.dir,
         ~ran.shared => ran.in = ran.found
  PROVE  PluginInv'
<1>1. /\ PluginShape' /\ DOMAIN task'.dirs = DOMAIN task.dirs
      /\ \A e \in DOMAIN task.dirs : task'.dirs[e] = IF e = d THEN files ELSE task.dirs[e]
  <2>1. PluginShape
    BY DEF PluginInv
  <2>2. /\ Fields(task', PluginFields) /\ task'.kind = "plugins" /\ task'.order = task.order
        /\ task'.dirs = [task.dirs EXCEPT ![d] = files] /\ task'.at = "idle" /\ task'.script = Tail(task.script)
    BY DEF Changes
  <2> QED BY <2>1, <2>2, ShapeChanges
<1>2. task'.at = "idle" /\ task'.good = good /\ task'.lost = lost /\ task'.ran = ran
  BY DEF Changes
<1>3. \A e \in DOMAIN task.dirs : e # d /\ task.dirs[e].parts # "none" => e \in task.good \cup task.lost
  BY DEF PluginInv, PluginsKept, WholeBut
<1>4. ASSUME NEW e \in DOMAIN task'.dirs, task'.dirs[e].parts # "none" PROVE e \in good \cup lost
  <2>1. CASE e = d
    BY <1>1, <1>4, <2>1
  <2>2. CASE e # d
    BY <1>1, <1>3, <1>4, <2>2
  <2> QED BY <2>1, <2>2
<1>5. PluginsKept'
  BY <1>2, <1>4 DEF PluginsKept, WholeBut
<1> QED BY <1>1, <1>5 DEF PluginInv

LEMMA PluginStays ==
  ASSUME PluginInv, task.at = "idle", task.script # <<>>, task' = Answered(task)
  PROVE  PluginInv'
<1> DEFINE none == CHOOSE d : d \notin DOMAIN task.dirs
<1>1. none \notin DOMAIN task.dirs
  BY NoSetContainsEverything
<1> HIDE DEF none
<1>2. Changes("idle", Tail(task.script), none, NotThere, task.good, task.ran, task.lost)
  BY <1>1 DEF Changes, Answered, PluginInv, PluginShape, Fields, PluginFields
<1>3. ~task.ran.shared => task.ran.in = task.ran.found
  BY DEF PluginInv, PluginsKept
<1> QED BY <1>1, <1>2, <1>3, PluginAnswered

(* copyDir, os.RemoveAll, git pull: of one directory.                      *)
LEMMA PluginChanged ==
  ASSUME PluginInv, task.script # <<>>, NEW d \in DOMAIN task.dirs, NEW files, NEW good, NEW lost,
         task' = Answered([task EXCEPT !.dirs[d] = files, !.good = good, !.lost = lost]),
         task.good \cup task.lost \subseteq good \cup lost \cup {d},
         files.parts = "none" \/ d \in good \cup lost, task.at = "check" => d = PluginAsk.dir
  PROVE  PluginInv'
<1>1. Changes("idle", Tail(task.script), d, files, good, task.ran, lost)
  BY DEF Changes, Answered, PluginInv, PluginShape, Fields, PluginFields
<1>2. ~task.ran.shared => task.ran.in = task.ran.found
  BY DEF PluginInv, PluginsKept
<1> QED BY <1>1, <1>2, PluginAnswered

(* The same of what the steps say of the fields they name.                 *)
LEMMA PluginUpdates ==
  ASSUME PluginShape, NEW d, NEW files
  PROVE  /\ Answered([task EXCEPT !.dirs[d] = files]) = Answered([task EXCEPT !.dirs[d] = files, !.good = task.good, !.lost = task.lost])
         /\ \A lost : Answered([task EXCEPT !.dirs[d] = files, !.lost = lost]) = Answered([task EXCEPT !.dirs[d] = files, !.good = task.good, !.lost = lost])
         /\ \A good : Answered([task EXCEPT !.dirs[d] = files, !.good = good]) = Answered([task EXCEPT !.dirs[d] = files, !.good = good, !.lost = task.lost])
         /\ \A p, lost : Answered([task EXCEPT !.dirs[d].parts = p, !.lost = lost])
                           = Answered([task EXCEPT !.dirs[d] = [task.dirs[d] EXCEPT !.parts = p], !.good = task.good, !.lost = lost])
<1> DEFINE with(x, good, lost) == Answered([task EXCEPT !.dirs[d] = x, !.good = good, !.lost = lost])
<1>1. Answered([task EXCEPT !.dirs[d] = files]) = with(files, task.good, task.lost)
  BY DEF Answered, PluginShape, Fields, PluginFields
<1>2. ASSUME NEW lost
      PROVE  Answered([task EXCEPT !.dirs[d] = files, !.lost = lost]) = with(files, task.good, lost)
  BY DEF Answered, PluginShape, Fields, PluginFields
<1>3. ASSUME NEW good
      PROVE  Answered([task EXCEPT !.dirs[d] = files, !.good = good]) = with(files, good, task.lost)
  BY DEF Answered, PluginShape, Fields, PluginFields
<1>4. ASSUME NEW p, NEW lost
      PROVE  Answered([task EXCEPT !.dirs[d].parts = p, !.lost = lost])
               = with([task.dirs[d] EXCEPT !.parts = p], task.good, lost)
  BY DEF Answered, PluginShape, Fields, PluginFields
<1> QED BY <1>1, <1>2, <1>3, <1>4

LEMMA AskIsThere ==
  ASSUME PluginInv, task.script # <<>>, Head(task.script).cmd = "install"
  PROVE  PluginAsk.dir \in DOMAIN task.dirs
<1>1. PICK S : task.script \in Seq(S)
  BY DEF PluginInv, PluginShape, IsList
<1>2. 1 \in DOMAIN task.script /\ Head(task.script) = task.script[1]
  BY <1>1, TailFacts
<1> QED BY <1>2 DEF PluginAsk, PluginInv, PluginShape

(* Install, the copy.                                                      *)
LEMMA FetchStep ==
  ASSUME PluginInv, PluginFetch
  PROVE  PluginInv'
<1> DEFINE d == PluginAsk.dir
<1>1. task.script # <<>> /\ Head(task.script).cmd = "install" /\ task.at = "idle"
  BY DEF PluginFetch, Asks
<1>2. d \in DOMAIN task.dirs
  BY <1>1, AskIsThere
<1>3. CASE task' = Answered(task)
  BY <1>1, <1>3, PluginStays
<1>4. CASE task' = [task EXCEPT !.dirs[d] = Fetched(PluginAsk.files), !.at = "check"]
  <2> DEFINE files == Fetched(PluginAsk.files)
  <2>1. task' = [task EXCEPT !.dirs[d] = files, !.at = "check"] /\ d = PluginAsk.dir
    BY <1>4
  <2>2. PluginShape
    BY DEF PluginInv
  <2> HIDE DEF files, d
  <2>3. Changes("check", task.script, d, files, task.good, task.ran, task.lost)
    BY <2>1, <2>2 DEF Changes, PluginShape, Fields, PluginFields
  <2>4. PluginAsk.cmd = "install"
    BY <1>1 DEF PluginAsk
  <2>5. /\ PluginShape' /\ DOMAIN task'.dirs = DOMAIN task.dirs
        /\ \A e \in DOMAIN task.dirs : task'.dirs[e] = IF e = d THEN files ELSE task.dirs[e]
    <3>1. /\ Fields(task', PluginFields) /\ task'.kind = "plugins" /\ task'.order = task.order
          /\ task'.dirs = [task.dirs EXCEPT ![d] = files] /\ task'.at = "check" /\ task'.script = task.script
      BY <2>3 DEF Changes
    <3>2. task.script # <<>>
      BY <1>1
    <3>3. task'.at = "check" /\ task'.script = task.script /\ PluginAsk.cmd = "install"
      BY <2>4, <3>1
    <3> HIDE <1>1, <1>2, <1>4, <2>1, <2>3, <2>4
    <3> QED BY <2>2, <3>1, <3>2, <3>3, ShapeChanges
  <2>6. /\ task'.at = "check" /\ task'.good = task.good /\ task'.lost = task.lost /\ task'.ran = task.ran
        /\ task'.script = task.script
    BY <2>3 DEF Changes
  <2>7. PluginAsk' = d
        \/ (PluginAsk.dir)' = d
    BY <2>1, <2>6 DEF PluginAsk
  <2>8. \A e \in DOMAIN task'.dirs \ {d} : task'.dirs[e].parts # "none" => e \in task'.good \cup task'.lost
    BY <1>1, <2>5, <2>6 DEF PluginInv, PluginsKept, WholeBut
  <2>9. (PluginAsk.dir)' = d
    BY <2>1, <2>6 DEF PluginAsk
  <2>10. PluginsKept'
    BY <2>6, <2>8, <2>9 DEF PluginInv, PluginsKept, WholeBut
  <2> QED BY <2>5, <2>10 DEF PluginInv
<1>5. ASSUME NEW left, task' = Answered([task EXCEPT !.dirs[d] = left, !.lost = task.lost \cup {d}]) PROVE PluginInv'
  <2> DEFINE lost == task.lost \cup {d}
  <2>1. task' = Answered([task EXCEPT !.dirs[d] = left, !.lost = lost]) /\ d = PluginAsk.dir
    BY <1>5
  <2>2. task.good \cup task.lost \subseteq task.good \cup lost \cup {d} /\ d \in task.good \cup lost
    OBVIOUS
  <2> HIDE DEF d, lost
  <2>3. task' = Answered([task EXCEPT !.dirs[d] = left, !.good = task.good, !.lost = lost])
    BY <2>1, PluginUpdates DEF PluginInv
  <2>4. task.script # <<>> /\ d \in DOMAIN task.dirs
    BY <1>1, <1>2
  <2> QED BY <2>1, <2>2, <2>3, <2>4, PluginChanged
<1> QED BY <1>3, <1>4, <1>5 DEF PluginFetch

(* os.RemoveAll                                                            *)
LEMMA DroppedStep ==
  ASSUME PluginInv, task.script # <<>>, NEW d \in DOMAIN task.dirs, task.at = "check" => d = PluginAsk.dir,
         Dropped(d) \/ task' = Answered([task EXCEPT !.dirs[d] = NotThere])
  PROVE  PluginInv'
<1>1. CASE task' = Answered([task EXCEPT !.dirs[d] = NotThere])
  <2>1. task' = Answered([task EXCEPT !.dirs[d] = NotThere, !.good = task.good, !.lost = task.lost])
    BY <1>1, PluginUpdates DEF PluginInv
  <2>2. NotThere.parts = "none"
    BY DEF NotThere
  <2> QED BY <2>1, <2>2, PluginChanged
<1>2. CASE task' = Answered([task EXCEPT !.lost = @ \cup {d}])
  <2> DEFINE lost == task.lost \cup {d}
             files == task.dirs[d]
  <2>1. task' = Answered([task EXCEPT !.lost = lost]) /\ files = task.dirs[d]
    BY <1>2
  <2>2. task.good \cup task.lost \subseteq task.good \cup lost \cup {d} /\ d \in task.good \cup lost
    OBVIOUS
  <2> HIDE DEF lost, files
  <2>3. task' = Answered([task EXCEPT !.dirs[d] = files, !.good = task.good, !.lost = lost])
    <3>1. task.dirs = [task.dirs EXCEPT ![d] = files] /\ Fields(task, PluginFields)
      BY <2>1 DEF PluginInv, PluginShape
    <3> QED BY <2>1, <3>1 DEF Answered, Fields, PluginFields
  <2> QED BY <2>2, <2>3, PluginChanged
<1> QED BY <1>1, <1>2 DEF Dropped

(* Install, after the copy.                                                *)
LEMMA AcceptStep ==
  ASSUME PluginInv, PluginAccept
  PROVE  PluginInv'
<1> DEFINE d == PluginAsk.dir
<1>1. task.script # <<>> /\ Head(task.script).cmd = "install" /\ task.at = "check"
  BY DEF PluginAccept, Asks
<1>2. d \in DOMAIN task.dirs
  BY <1>1, AskIsThere
<1>3. CASE task' = Answered([task EXCEPT !.good = @ \cup {d}])
  <2> DEFINE good == task.good \cup {d}
             files == task.dirs[d]
  <2>1. task' = Answered([task EXCEPT !.good = good]) /\ files = task.dirs[d]
    BY <1>3
  <2>4. d = PluginAsk.dir
    OBVIOUS
  <2>2. task.good \cup task.lost \subseteq good \cup task.lost \cup {d} /\ d \in good \cup task.lost
    OBVIOUS
  <2> HIDE DEF d, good, files
  <2>3. task' = Answered([task EXCEPT !.dirs[d] = files, !.good = good, !.lost = task.lost])
    <3>1. task.dirs = [task.dirs EXCEPT ![d] = files] /\ Fields(task, PluginFields)
      BY <2>1 DEF PluginInv, PluginShape
    <3> QED BY <2>1, <3>1 DEF Answered, Fields, PluginFields
  <2> QED BY <1>1, <1>2, <2>2, <2>3, <2>4, PluginChanged
<1>4. CASE Dropped(d) \/ task' = Answered([task EXCEPT !.dirs[d] = NotThere])
  BY <1>1, <1>2, <1>4, DroppedStep
<1> QED BY <1>3, <1>4 DEF PluginAccept, Refused

(* Between commands, what resolvePluginDir finds was accepted.             *)
LEMMA FoundWasAccepted ==
  ASSUME PluginInv, task.at # "check", NEW query, Resolved(task, query) # "none"
  PROVE  Resolved(task, query) \in DOMAIN task.dirs /\ Resolved(task, query) \in task.good \cup task.lost
<1>1. Resolved(task, query) \in GoBy(query)
  BY ResolvedIsThere DEF PluginInv
<1>2. Resolved(task, query) \in DOMAIN task.dirs /\ task.dirs[Resolved(task, query)].parts # "none"
  BY <1>1 DEF GoBy
<1> QED BY <1>2 DEF PluginInv, PluginsKept, WholeBut

(* Only an install leaves something to check.                              *)
LEMMA OtherCommandsIdle ==
  ASSUME PluginInv, NEW cmd, Asks(cmd), cmd # "install"
  PROVE  task.at = "idle" /\ task.script # <<>>
BY DEF PluginInv, PluginShape, Asks

LEMMA UpdateStep ==
  ASSUME PluginInv, PluginUpdate
  PROVE  PluginInv'
<1> DEFINE d == Resolved(task, PluginAsk.query)
<1>1. task.at = "idle" /\ task.script # <<>>
  BY OtherCommandsIdle DEF PluginUpdate
<1>2. CASE task' = Answered(task)
  BY <1>1, <1>2, PluginStays
<1>3. ASSUME d # "none", NEW files, task' = Answered([task EXCEPT !.dirs[d] = files]) PROVE PluginInv'
  <2>1. d \in DOMAIN task.dirs /\ d \in task.good \cup task.lost
    BY <1>1, <1>3, FoundWasAccepted
  <2> HIDE DEF d
  <2>2. task' = Answered([task EXCEPT !.dirs[d] = files, !.good = task.good, !.lost = task.lost])
    BY <1>3, PluginUpdates DEF PluginInv
  <2> QED BY <1>1, <2>1, <2>2, PluginChanged
<1> QED BY <1>2, <1>3 DEF PluginUpdate

LEMMA RemoveStep ==
  ASSUME PluginInv, PluginRemove
  PROVE  PluginInv'
<1> DEFINE d == Resolved(task, PluginAsk.query)
<1>1. task.at = "idle" /\ task.script # <<>>
  BY OtherCommandsIdle DEF PluginRemove
<1>2. CASE task' = Answered(task)
  BY <1>1, <1>2, PluginStays
<1>3. CASE d # "none" /\ task' = Answered([task EXCEPT !.dirs[d] = NotThere, !.good = @ \ {d}])
  <2> DEFINE good == task.good \ {d}
  <2>1. d \in DOMAIN task.dirs /\ task' = Answered([task EXCEPT !.dirs[d] = NotThere, !.good = good])
    BY <1>1, <1>3, FoundWasAccepted
  <2>2. /\ task.good \cup task.lost \subseteq good \cup task.lost \cup {d} /\ task.at # "check"
        /\ NotThere.parts = "none" \/ d \in good \cup task.lost
    BY <1>1 DEF NotThere
  <2> HIDE DEF d, good
  <2>3. task' = Answered([task EXCEPT !.dirs[d] = NotThere, !.good = good, !.lost = task.lost])
    BY <2>1, PluginUpdates DEF PluginInv
  <2> QED BY <1>1, <2>1, <2>2, <2>3, PluginChanged
<1>4. ASSUME d # "none", NEW p, task' = Answered([task EXCEPT !.dirs[d].parts = p, !.lost = @ \cup {d}]) PROVE PluginInv'
  <2> DEFINE lost == task.lost \cup {d}
             files == [task.dirs[d] EXCEPT !.parts = p]
  <2>1. d \in DOMAIN task.dirs /\ task' = Answered([task EXCEPT !.dirs[d].parts = p, !.lost = lost])
    BY <1>1, <1>4, FoundWasAccepted
  <2>2. task.good \cup task.lost \subseteq task.good \cup lost \cup {d} /\ d \in task.good \cup lost /\ task.at # "check"
    BY <1>1
  <2> HIDE DEF d, lost
  <2>3. task' = Answered([task EXCEPT !.dirs[d] = files, !.good = task.good, !.lost = lost])
    BY <2>1, PluginUpdates DEF PluginInv
  <2> HIDE DEF files
  <2> QED BY <1>1, <2>1, <2>2, <2>3, PluginChanged
<1> QED BY <1>2, <1>3, <1>4 DEF PluginRemove

LEMMA RanStep ==
  ASSUME PluginInv, task.at = "idle", task.script # <<>>, NEW d, task' = Ran(d)
  PROVE  PluginInv'
<1> DEFINE name == task.dirs[d].name
           ran == [found |-> d, in |-> Resolved(task, name), shared |-> GoBy(name) # {d}]
           none == CHOOSE e : e \notin DOMAIN task.dirs
<1>1. none \notin DOMAIN task.dirs
  BY NoSetContainsEverything
<1>2. ~ran.shared => ran.in = ran.found
  BY RunsWhereFound DEF PluginInv
<1>3. task' = Answered([task EXCEPT !.ran = ran])
  BY DEF Ran
<1> HIDE DEF none, ran
<1>4. Changes("idle", Tail(task.script), none, NotThere, task.good, ran, task.lost)
  <2>1. Fields(task, PluginFields) /\ task.kind = "plugins" /\ task.dirs = [e \in DOMAIN task.dirs |-> task.dirs[e]]
    BY DEF PluginInv, PluginShape
  <2>2. /\ Fields(task', PluginFields) /\ task'.kind = "plugins" /\ task'.at = "idle" /\ task'.order = task.order
        /\ task'.script = Tail(task.script) /\ task'.dirs = task.dirs
        /\ task'.good = task.good /\ task'.ran = ran /\ task'.lost = task.lost
    BY <1>3, <2>1 DEF Answered, Fields, PluginFields
  <2>3. [task.dirs EXCEPT ![none] = NotThere] = task.dirs
    BY <1>1, <2>1
  <2> QED BY <2>2, <2>3 DEF Changes
<1> QED BY <1>1, <1>2, <1>4, PluginAnswered

(* Install, Update, Remove, Run, RunDownloader: what stays in the plugins' *)
(* directory was accepted, and a plugin runs in the directory it was found *)
(* in.                                                                     *)
THEOREM PluginsAreKept == PluginsSpec => [](task.kind = "plugins" /\ PluginsComeWhole)
<1>1. ASSUME PluginsSpec PROVE PluginInv
  <2>1. PICK names, script : PluginInputs(names, script) /\ task = PluginsTask(names, script)
    BY <1>1 DEF PluginsSpec
  <2>2. /\ Fields(task, PluginFields) /\ task.kind = "plugins" /\ task.at = "idle" /\ task.order = names
        /\ task.script = script /\ task.dirs = [d \in Range(names) |-> NotThere] /\ task.good = {} /\ task.lost = {}
        /\ task.ran.in = task.ran.found
    BY <2>1 DEF PluginsTask, Fields, PluginFields
  <2>3. NotThere.parts = "none"
    BY DEF NotThere
  <2>4. IsList(script)
    BY <2>1 DEF PluginInputs, IsList
  <2>5. PluginShape
    BY <2>1, <2>2, <2>4 DEF PluginShape, PluginInputs
  <2>6. PluginsKept
    BY <2>2, <2>3 DEF PluginsKept, WholeBut
  <2> QED BY <2>5, <2>6 DEF PluginInv
<1>2. ASSUME PluginInv, [PluginStep]_taskVars PROVE PluginInv'
  <2>1. CASE PluginFetch
    BY <1>2, <2>1, FetchStep
  <2>2. CASE PluginAccept
    BY <1>2, <2>2, AcceptStep
  <2>3. CASE PluginUpdate
    BY <1>2, <2>3, UpdateStep
  <2>4. CASE PluginRemove
    BY <1>2, <2>4, RemoveStep
  <2>5. CASE PluginRun
    <3>1. Asks("run") /\ \/ task' = Answered(task)
                         \/ \E d : task' = Ran(d)
      BY <2>5 DEF PluginRun
    <3>2. task.at = "idle" /\ task.script # <<>>
      BY <1>2, <3>1, OtherCommandsIdle
    <3> QED BY <1>2, <3>1, <3>2, PluginStays, RanStep
  <2>6. CASE PluginDownload
    <3>1. Asks("download") /\ \/ task' = Answered(task)
                              \/ \E d : task' = Ran(d)
      BY <2>6 DEF PluginDownload
    <3>2. task.at = "idle" /\ task.script # <<>>
      BY <1>2, <3>1, OtherCommandsIdle
    <3> QED BY <1>2, <3>1, <3>2, PluginStays, RanStep
  <2>7. CASE PluginsStop
    <3>1. /\ Fields(task', PluginFields) /\ task'.kind = task.kind /\ task'.at = task.at /\ task'.order = task.order
          /\ task'.script = task.script /\ task'.dirs = task.dirs /\ task'.good = task.good /\ task'.lost = task.lost
          /\ task'.ran = task.ran
      BY <1>2, <2>7 DEF PluginsStop, PluginInv, PluginShape, Fields, PluginFields
    <3> QED BY <1>2, <3>1 DEF PluginInv, PluginShape, PluginsKept, WholeBut, IsList, PluginAsk
  <2>8. CASE UNCHANGED taskVars
    <3>1. task' = task
      BY <2>8 DEF taskVars
    <3> QED BY <1>2, <3>1 DEF PluginInv, PluginShape, PluginsKept, WholeBut, IsList, PluginAsk, Fields
  <2> QED BY <1>2, <2>1, <2>2, <2>3, <2>4, <2>5, <2>6, <2>7, <2>8 DEF PluginStep
<1>3. PluginInv => task.kind = "plugins" /\ PluginsComeWhole
  BY DEF PluginInv, PluginShape, PluginsKept, WholeBut, PluginsComeWhole
<1>4. PluginsSpec => []PluginInv
  <2>1. PluginsSpec => PluginInv
    BY <1>1
  <2>2. PluginInv /\ [PluginStep]_taskVars => PluginInv'
    BY <1>2
  <2> QED BY <2>1, <2>2, PTL DEF PluginsSpec
<1> QED BY <1>3, <1>4, PTL

-----------------------------------------------------------------------------
(* A package in a repository.                                              *)

RegistryFields == {"kind", "pc", "plan", "script", "keyring", "dir", "doing", "merged", "left", "fresh", "declared", "signed",
                   "home", "cmd", "at", "want", "seen", "got", "last"}
DirFields == {"archives", "provs", "index"}
HomeFields == {"cache", "pulled", "unpacked", "kept", "provs", "lock"}
EntrySet(B) == [version : Nat \ {0}, digest : B]
(* buildIndexEntry, of every archive.                                      *)
Listing(archives) == {Entry(v, archives[v]) : v \in DOMAIN archives}
OneOfEach(entries) == \A i, j \in DOMAIN entries : entries[i].version = entries[j].version => i = j
PlanIs(B, plan) ==
    /\ IsList(plan)
    /\ \A i \in DOMAIN plan : plan[i].op = "package" => plan[i].v \in Nat \ {0} /\ plan[i].body \in B
(* B are the digests there are, that of an archive cut short among them.   *)
RegistryShape(B) ==
    /\ Fields(task, RegistryFields) /\ task.kind = "registry" /\ PlanIs(B, task.plan)
    /\ Fields(task.dir, DirFields) /\ Fields(task.home, HomeFields) /\ NoDigest \notin B /\ "torn" \in B

ArchivesAre(B, archives) ==
    /\ IsFiniteSet(DOMAIN archives)
    /\ \A v \in DOMAIN archives : v \in Nat \ {0} /\ archives[v] \in B
(* The index that is served was declared.                                  *)
IndexIs(B, index, declared) ==
    index = NoIndex \/ (index \in Seq(EntrySet(B)) /\ OneOfEach(index) /\ ToSet(index) \subseteq declared)
(* MergeIndex: what is listed is merged already or still to come.          *)
Merging(B, archives, merged, left) ==
    /\ merged \in Seq(EntrySet(B)) /\ left \in Seq(EntrySet(B)) /\ OneOfEach(merged)
    /\ ToSet(left) \subseteq Listing(archives) /\ Listing(archives) \subseteq ToSet(merged) \cup ToSet(left)
ProvsAre(provs, signed) == \A v \in DOMAIN provs : <<provs[v].of, provs[v].key>> \in signed
PublisherKept(B) ==
    /\ ArchivesAre(B, task.dir.archives) /\ task.declared \subseteq EntrySet(B) /\ IndexIs(B, task.dir.index, task.declared)
    /\ ProvsAre(task.dir.provs, task.signed)
    /\ task.doing = "merging" => /\ task.plan # <<>> /\ Head(task.plan).op = "index"
                                 /\ Merging(B, task.dir.archives, task.merged, task.left)
    /\ task.fresh => OneOfEach(task.dir.index) /\ Listing(task.dir.archives) \subseteq ToSet(task.dir.index)

(* A list whose elements are all different, as many as the set has, has    *)
(* them all.                                                               *)
LEMMA SetToSeqsFacts ==
  ASSUME NEW S, IsFiniteSet(S), NEW s \in SetToSeqs(S)
  PROVE  s \in Seq(S) /\ ToSet(s) = S /\ \A i, j \in DOMAIN s : s[i] = s[j] => i = j
<1> DEFINE n == Cardinality(S)
<1>1. n \in Nat
  BY FS_CardinalityType
<1>2. s \in [1 .. n -> S] /\ \A i, j \in 1 .. n : i # j => s[i] # s[j]
  BY DEF SetToSeqs
<1> HIDE DEF n
<1>3. IsFiniteSet(1 .. n) /\ Cardinality(1 .. n) = n
  <2>1. Cardinality(1 .. n) = IF 1 > n THEN 0 ELSE n - 1 + 1
    BY <1>1, FS_Interval
  <2>2. IsFiniteSet(1 .. n)
    BY <1>1, FS_Interval
  <2> QED BY <1>1, <2>1, <2>2
<1>4. s \in Injection(1 .. n, S)
  BY <1>2 DEF Injection, IsInjective
<1>5. Cardinality(1 .. n) = Cardinality(S)
  BY <1>3 DEF n
<1>6. s \in Surjection(1 .. n, S)
  BY <1>4, <1>5, FS_Injection
<1>7. ToSet(s) = S
  BY <1>2, <1>6 DEF Surjection, ToSet
<1>8. s \in Seq(S)
  BY <1>1, <1>2
<1> QED BY <1>2, <1>7, <1>8

LEMMA EntryFacts ==
  ASSUME NEW B, NEW v, NEW body
  PROVE  /\ Entry(v, body).version = v /\ Entry(v, body).digest = body
         /\ v \in Nat \ {0} /\ body \in B => Entry(v, body) \in EntrySet(B)
BY DEF Entry, EntrySet

(* An entry is its version and its digest.                                 *)
LEMMA EntryIs ==
  ASSUME NEW B, NEW e \in EntrySet(B)
  PROVE  e = Entry(e.version, e.digest) /\ e.version \in Nat \ {0} /\ e.digest \in B
BY DEF Entry, EntrySet

(* GenerateIndex: an entry of each archive, no version twice.              *)
LEMMA GeneratedFacts ==
  ASSUME NEW B, NEW archives, ArchivesAre(B, archives), NEW s \in Generated(archives)
  PROVE  s \in Seq(EntrySet(B)) /\ ToSet(s) = Listing(archives) /\ OneOfEach(s)
<1> DEFINE S == Listing(archives)
<1>1. IsFiniteSet(S)
  <2> DEFINE f == [v \in DOMAIN archives |-> Entry(v, archives[v])]
  <2>1. f \in Surjection(DOMAIN archives, S)
    BY DEF Surjection, Listing
  <2> HIDE DEF f, S
  <2> QED BY <2>1, FS_Surjection DEF ArchivesAre
<1>2. s \in SetToSeqs(S)
  BY DEF Generated, Listing
<1>3. s \in Seq(S) /\ ToSet(s) = S /\ \A i, j \in DOMAIN s : s[i] = s[j] => i = j
  BY <1>1, <1>2, SetToSeqsFacts
<1>4. S \subseteq EntrySet(B)
  BY EntryFacts DEF Listing, ArchivesAre
<1>5. \A x, y \in S : x.version = y.version => x = y
  BY EntryFacts DEF Listing
<1> HIDE DEF S
<1>6. \A i \in DOMAIN s : s[i] \in S
  BY <1>3, SeqFacts
<1>7. OneOfEach(s)
  BY <1>3, <1>5, <1>6 DEF OneOfEach
<1>8. s \in Seq(EntrySet(B))
  <2>1. Len(s) \in Nat /\ s = [i \in 1 .. Len(s) |-> s[i]] /\ \A i \in 1 .. Len(s) : s[i] \in EntrySet(B)
    BY <1>3, <1>4, <1>6
  <2> QED BY <2>1
<1> QED BY <1>3, <1>7, <1>8 DEF S

(* MergeIndex, of one entry: it is there then, alone of its version, and   *)
(* nothing of another version is gone.                                     *)
LEMMA MergeEntryFacts ==
  ASSUME NEW B, NEW entries \in Seq(EntrySet(B)), OneOfEach(entries), NEW e \in EntrySet(B)
  PROVE  LET result == MergeEntry(entries, e)
         IN  /\ result \in Seq(EntrySet(B)) /\ OneOfEach(result) /\ e \in ToSet(result)
             /\ \A x \in ToSet(entries) : x \in ToSet(result) \/ x.version = e.version
<1>1. /\ Append(entries, e) \in Seq(EntrySet(B)) /\ Len(entries) \in Nat
      /\ DOMAIN Append(entries, e) = 1 .. Len(entries) + 1 /\ DOMAIN entries = 1 .. Len(entries)
      /\ Append(entries, e)[Len(entries) + 1] = e /\ \A i \in 1 .. Len(entries) : Append(entries, e)[i] = entries[i]
  BY AppendFacts
<1>2. CASE SameVersion(entries, e) = {}
  <2> DEFINE result == Append(entries, e)
             n == Len(entries)
  <2>1. MergeEntry(entries, e) = result
    BY <1>2 DEF MergeEntry
  <2>2. \A i \in 1 .. n : entries[i].version # e.version
    BY <1>1, <1>2 DEF SameVersion
  <2>3. /\ result \in Seq(EntrySet(B)) /\ n \in Nat /\ DOMAIN result = 1 .. n + 1 /\ result[n + 1] = e
        /\ \A i \in 1 .. n : result[i] = entries[i] /\ i \in 1 .. n + 1
    BY <1>1
  <2>4. \A i, j \in 1 .. n : entries[i].version = entries[j].version => i = j
    BY <1>1 DEF OneOfEach
  <2> HIDE DEF result, n
  <2>5. OneOfEach(result)
    <3> SUFFICES ASSUME NEW i \in 1 .. n + 1, NEW j \in 1 .. n + 1, result[i].version = result[j].version
                 PROVE  i = j
      BY <2>3 DEF OneOfEach
    <3>1. CASE i \in 1 .. n /\ j \in 1 .. n
      BY <2>3, <2>4, <3>1
    <3>2. CASE i = n + 1 /\ j \in 1 .. n
      BY <2>2, <2>3, <3>2
    <3>3. CASE i \in 1 .. n /\ j = n + 1
      BY <2>2, <2>3, <3>3
    <3> QED BY <2>3, <3>1, <3>2, <3>3
  <2>6. e \in ToSet(result)
    <3>1. n + 1 \in DOMAIN result
      BY <2>3
    <3> QED BY <2>3, <3>1 DEF ToSet
  <2>7. \A x \in ToSet(entries) : x \in ToSet(result)
    BY <1>1, <2>3 DEF ToSet, n
  <2> QED BY <2>1, <2>3, <2>5, <2>6, <2>7
<1>3. CASE SameVersion(entries, e) # {}
  <2> DEFINE k == Min(SameVersion(entries, e))
             result == [entries EXCEPT ![k] = e]
  <2>1. MergeEntry(entries, e) = result
    BY <1>3 DEF MergeEntry
  <2>2. k \in DOMAIN entries /\ entries[k].version = e.version
    <3>1. SameVersion(entries, e) \in SUBSET Nat
      BY <1>1 DEF SameVersion
    <3>2. Min(SameVersion(entries, e)) \in SameVersion(entries, e)
      BY <1>3, <3>1, MinIsIn
    <3> QED BY <3>2 DEF SameVersion
  <2> HIDE DEF k
  <2>3. \A i \in DOMAIN entries : entries[i] \in EntrySet(B)
    BY <1>1, SeqFacts
  <2>4. /\ result = [i \in DOMAIN entries |-> IF i = k THEN e ELSE entries[i]] /\ DOMAIN result = DOMAIN entries
        /\ \A i \in DOMAIN entries : result[i] = IF i = k THEN e ELSE entries[i]
    OBVIOUS
  <2> HIDE DEF result
  <2>5. result \in Seq(EntrySet(B))
    <3>1. \A i \in 1 .. Len(entries) : (IF i = k THEN e ELSE entries[i]) \in EntrySet(B)
      BY <1>1, <2>3
    <3>2. result \in [1 .. Len(entries) -> EntrySet(B)]
      BY <1>1, <2>4, <3>1
    <3> QED BY <1>1, <3>2
  <2>6. OneOfEach(result)
    BY <2>2, <2>4 DEF OneOfEach
  <2>7. e \in ToSet(result) /\ \A x \in ToSet(entries) : x \in ToSet(result) \/ x.version = e.version
    BY <2>2, <2>4 DEF ToSet
  <2> QED BY <2>1, <2>5, <2>6, <2>7
<1> QED BY <1>2, <1>3

(* What the user reads and holds: every archive that was read is the one   *)
(* declared, every provenance that was kept was made by signing.           *)
SignedBy(body) == \E key \in task.keyring : <<body, key>> \in task.signed
CacheIs(cache, declared) == \A v \in DOMAIN cache : Entry(v, cache[v]) \in declared \/ cache[v] = "part"
HomeKept == CacheIs(task.home.cache, task.declared) /\ ProvsAre(task.home.provs, task.signed)
AtKept ==
    /\ task.at \in {"entry", "archive"} => task.cmd.cmd \in {"pull", "source", "update"}
    /\ task.at = "extract" => task.cmd.cmd \in {"source", "update"}
    /\ task.at = "prov" => task.cmd.cmd \in {"pull", "update"}
    /\ task.at = "place" => task.cmd.cmd = "pull"
    /\ task.at \in {"idle", "resolve", "verify", "entry", "archive", "extract", "prov", "place"}
(* resolveRegistryVersion, findHighestCompatible: what is wanted.          *)
WantKept ==
    task.at \in {"entry", "archive", "extract", "prov"} /\ task.cmd.cmd \in {"source", "update"} =>
        /\ task.want.version \in task.cmd.allowed /\ task.want.version # 0
        /\ task.cmd.cmd = "update" => task.want \in task.declared
(* DownloadPackageResolvedWith: the entry that was found is of that version. *)
SeenKept ==
    task.at \in {"archive", "extract", "prov", "place"} =>
        task.seen \in task.declared /\ (task.cmd.cmd \in {"source", "update"} => task.seen.version = task.want.version)
(* VerifyDigest, VerifyArchive                                             *)
GotKept ==
    /\ task.at = "extract" \/ (task.at = "prov" /\ task.cmd.cmd = "update") =>
          task.got = task.seen.digest /\ (task.want.digest = NoDigest \/ task.want.digest = task.got)
    /\ task.at = "prov" /\ task.cmd.cmd = "update" => task.home.unpacked = task.got
    /\ task.at = "place" /\ task.cmd.verify => SignedBy(task.got)
LastKept == /\ task.at # "idle" => task.last.cmd = "none"
            /\ FetchedAsDeclared /\ VerifiedWasSigned
UserKept == HomeKept /\ AtKept /\ WantKept /\ SeenKept /\ GotKept /\ LastKept
RegistryInv(B) == RegistryShape(B) /\ PublisherKept(B) /\ UserKept

(* The publisher does not touch what is the user's, and takes nothing back *)
(* that was declared or signed.                                            *)
UserSame ==
    /\ task'.home = task.home /\ task'.cmd = task.cmd /\ task'.at = task.at /\ task'.want = task.want /\ task'.seen = task.seen
    /\ task'.got = task.got /\ task'.last = task.last /\ task'.keyring = task.keyring /\ task'.kind = task.kind
    /\ task.declared \subseteq task'.declared /\ task.signed \subseteq task'.signed
LEMMA UserStays ==
  ASSUME UserKept, UserSame
  PROVE  UserKept'
<1>1. HomeKept'
  BY DEF UserKept, UserSame, HomeKept, CacheIs, ProvsAre
<1>2. AtKept'
  BY DEF UserKept, UserSame, AtKept
<1>3. WantKept' /\ SeenKept'
  BY DEF UserKept, UserSame, WantKept, SeenKept
<1>4. \A body : SignedBy(body) => (\E key \in task'.keyring : <<body, key>> \in task'.signed)
  BY DEF UserSame, SignedBy
<1>5. GotKept'
  <2>1. /\ task'.home = task.home /\ task'.cmd = task.cmd /\ task'.at = task.at /\ task'.want = task.want /\ task'.seen = task.seen
        /\ task'.got = task.got
    BY DEF UserSame
  <2>2. (task.at = "place" /\ task.cmd.verify => SignedBy(task.got))'
    <3>1. task.at = "place" /\ task.cmd.verify => \E key \in task'.keyring : <<task.got, key>> \in task'.signed
      BY <1>4 DEF UserKept, GotKept
    <3> QED BY <2>1, <3>1 DEF SignedBy
  <2>3. (/\ task.at = "extract" \/ (task.at = "prov" /\ task.cmd.cmd = "update") =>
               task.got = task.seen.digest /\ (task.want.digest = NoDigest \/ task.want.digest = task.got)
         /\ task.at = "prov" /\ task.cmd.cmd = "update" => task.home.unpacked = task.got)'
    BY <2>1 DEF UserKept, GotKept
  <2> QED BY <2>2, <2>3 DEF GotKept
<1>6. LastKept'
  <2>1. FetchedAsDeclared'
    BY DEF UserKept, LastKept, UserSame, FetchedAsDeclared, Finished
  <2>2. VerifiedWasSigned'
    BY DEF UserKept, LastKept, UserSame, VerifiedWasSigned, Finished
  <2> QED BY <2>1, <2>2 DEF UserKept, LastKept, UserSame
<1> QED BY <1>1, <1>2, <1>3, <1>5, <1>6 DEF UserKept

(* A plan that is worked off.                                              *)
LEMMA PlanTail ==
  ASSUME NEW B, PlanIs(B, task.plan), task.plan # <<>>
  PROVE  /\ PlanIs(B, Tail(task.plan))
         /\ Head(task.plan).op = "package" => Head(task.plan).v \in Nat \ {0} /\ Head(task.plan).body \in B
<1>1. PICK S : task.plan \in Seq(S)
  BY DEF PlanIs, IsList
<1>2. /\ Tail(task.plan) \in Seq(S) /\ Head(task.plan) = task.plan[1] /\ 1 \in DOMAIN task.plan
      /\ \A i \in DOMAIN Tail(task.plan) : i + 1 \in DOMAIN task.plan /\ Tail(task.plan)[i] = task.plan[i + 1]
  BY <1>1, TailFacts
<1> QED BY <1>2 DEF PlanIs, IsList

(* What the publisher's step leaves.                                       *)
Publishing(dir, doing, merged, left, fresh, declared, signed, plan) ==
    /\ Fields(task', RegistryFields) /\ task'.kind = "registry" /\ task'.dir = dir /\ task'.doing = doing
    /\ task'.merged = merged /\ task'.left = left /\ task'.fresh = fresh /\ task'.declared = declared /\ task'.signed = signed
    /\ task'.plan = plan
    /\ task'.home = task.home /\ task'.cmd = task.cmd /\ task'.at = task.at /\ task'.want = task.want /\ task'.seen = task.seen
    /\ task'.got = task.got /\ task'.last = task.last /\ task'.keyring = task.keyring
Dir(archives, provs, index) == [archives |-> archives, provs |-> provs, index |-> index]
LEMMA PublisherReached ==
  ASSUME NEW B, RegistryInv(B), NEW archives, NEW provs, NEW index, NEW doing, NEW merged, NEW left, NEW fresh, NEW declared, NEW signed, NEW plan,
         Publishing(Dir(archives, provs, index), doing, merged, left, fresh, declared, signed, plan), PlanIs(B, plan),
         ArchivesAre(B, archives), declared \subseteq EntrySet(B), IndexIs(B, index, declared), ProvsAre(provs, signed),
         task.declared \subseteq declared, task.signed \subseteq signed,
         doing = "merging" => plan # <<>> /\ Head(plan).op = "index" /\ Merging(B, archives, merged, left),
         fresh => OneOfEach(index) /\ Listing(archives) \subseteq ToSet(index)
  PROVE  RegistryInv(B)'
<1>1. /\ Fields(task', RegistryFields) /\ task'.kind = "registry" /\ task'.dir = Dir(archives, provs, index) /\ task'.doing = doing
      /\ task'.merged = merged /\ task'.left = left /\ task'.fresh = fresh /\ task'.declared = declared /\ task'.signed = signed
      /\ task'.plan = plan
      /\ task'.home = task.home /\ task'.cmd = task.cmd /\ task'.at = task.at /\ task'.want = task.want /\ task'.seen = task.seen
      /\ task'.got = task.got /\ task'.last = task.last /\ task'.keyring = task.keyring
  BY DEF Publishing
<1>2. /\ Fields(Dir(archives, provs, index), DirFields) /\ Dir(archives, provs, index).archives = archives
      /\ Dir(archives, provs, index).provs = provs /\ Dir(archives, provs, index).index = index
  BY DEF Dir, Fields, DirFields
<1>3. RegistryShape(B)'
  BY <1>1, <1>2 DEF RegistryInv, RegistryShape, Fields, PlanIs, IsList
<1>4. task'.dir.archives = archives /\ task'.dir.provs = provs /\ task'.dir.index = index
  BY <1>1, <1>2
<1>5. PublisherKept(B)'
  <2>2. (ArchivesAre(B, task.dir.archives))' /\ (task.declared \subseteq EntrySet(B))'
    BY <1>1, <1>4 DEF ArchivesAre
  <2>3. IndexIs(B, task.dir.index, task.declared)' /\ ProvsAre(task.dir.provs, task.signed)'
    BY <1>1, <1>4 DEF IndexIs, ProvsAre, OneOfEach
  <2>4. (task.doing = "merging" => /\ task.plan # <<>> /\ Head(task.plan).op = "index"
                                   /\ Merging(B, task.dir.archives, task.merged, task.left))'
    BY <1>1, <1>4 DEF Merging, OneOfEach, Listing
  <2>5. (task.fresh => OneOfEach(task.dir.index) /\ Listing(task.dir.archives) \subseteq ToSet(task.dir.index))'
    BY <1>1, <1>4 DEF OneOfEach, Listing
  <2> QED BY <2>2, <2>3, <2>4, <2>5 DEF PublisherKept
<1>6. UserKept'
  <2>1. UserSame
    BY <1>1 DEF UserSame, RegistryInv, RegistryShape
  <2> QED BY <2>1, UserStays DEF RegistryInv
<1> QED BY <1>3, <1>5, <1>6 DEF RegistryInv

LEMMA ArchiveSet ==
  ASSUME NEW B, NEW archives, ArchivesAre(B, archives), NEW v \in Nat \ {0}, NEW body \in B
  PROVE  ArchivesAre(B, SetAt(archives, v, body))
<1>1. IsFiniteSet(DOMAIN archives \cup {v})
  BY FS_AddElement DEF ArchivesAre
<1>2. DOMAIN SetAt(archives, v, body) = DOMAIN archives \cup {v}
  BY DEF SetAt
<1>3. \A w \in DOMAIN archives \cup {v} : SetAt(archives, v, body)[w] = IF w = v THEN body ELSE archives[w]
  BY DEF SetAt
<1> QED BY <1>1, <1>2, <1>3 DEF ArchivesAre

LEMMA ArchiveDropped ==
  ASSUME NEW B, NEW archives, ArchivesAre(B, archives), NEW v
  PROVE  ArchivesAre(B, Drop(archives, v))
<1>1. IsFiniteSet(DOMAIN archives \ {v})
  BY FS_RemoveElement DEF ArchivesAre
<1> QED BY <1>1 DEF ArchivesAre, Drop

(* What holds of the publisher's side, taken apart.                        *)
LEMMA PublisherFacts ==
  ASSUME NEW B, RegistryInv(B)
  PROVE  /\ Fields(task, RegistryFields) /\ Fields(task.dir, DirFields) /\ task.kind = "registry" /\ PlanIs(B, task.plan)
         /\ ArchivesAre(B, task.dir.archives) /\ task.declared \subseteq EntrySet(B) /\ IndexIs(B, task.dir.index, task.declared)
         /\ ProvsAre(task.dir.provs, task.signed)
         /\ task.dir = Dir(task.dir.archives, task.dir.provs, task.dir.index)
<1>1. task.dir = Dir(task.dir.archives, task.dir.provs, task.dir.index)
  BY DEF RegistryInv, RegistryShape, Dir, Fields, DirFields
<1> QED BY <1>1 DEF RegistryInv, RegistryShape, PublisherKept

LEMMA PackageStep ==
  ASSUME NEW B, RegistryInv(B), PackageArchive
  PROVE  RegistryInv(B)'
<1> DEFINE op == Head(task.plan)
<1>1. task.plan # <<>> /\ op.op = "package"
  BY DEF PackageArchive, Publishes
<1>2. PlanIs(B, task.plan) /\ PlanIs(B, Tail(task.plan)) /\ op.v \in Nat \ {0} /\ op.body \in B
  BY <1>1, PlanTail, PublisherFacts
<1>3. PICK body \in B, sign \in BOOLEAN :
         task' = [task EXCEPT !.dir.archives = SetAt(@, op.v, body), !.fresh = FALSE,
                              !.doing = IF sign THEN "signing" ELSE "idle", !.plan = IF sign THEN @ ELSE Tail(@)]
  <2> DEFINE done(body, sign) == [task EXCEPT !.dir.archives = SetAt(@, op.v, body), !.fresh = FALSE,
                                              !.doing = IF sign THEN "signing" ELSE "idle", !.plan = IF sign THEN @ ELSE Tail(@)]
             signs == op.key # ""
  <2>1. task' = done(op.body, signs) \/ task' = done("torn", FALSE)
    BY Zenon DEF PackageArchive
  <2>2. signs \in BOOLEAN /\ FALSE \in BOOLEAN
    BY Zenon
  <2> HIDE DEF done, signs
  <2>3. \E body \in B, sign \in BOOLEAN : task' = done(body, sign)
    BY <1>2, <2>1, <2>2 DEF RegistryInv, RegistryShape
  <2> QED BY <2>3 DEF done
<1> DEFINE plan == IF sign THEN task.plan ELSE Tail(task.plan)
           doing == IF sign THEN "signing" ELSE "idle"
           archives == SetAt(task.dir.archives, op.v, body)
<1>4. PlanIs(B, plan) /\ doing # "merging"
  BY <1>2
<1>5. ArchivesAre(B, archives)
  BY <1>2, PublisherFacts, ArchiveSet
<1> HIDE DEF plan, doing, op
<1>6. task' = [task EXCEPT !.dir = [task.dir EXCEPT !.archives = archives], !.fresh = FALSE, !.doing = doing, !.plan = plan]
  BY <1>3 DEF plan, doing
<1> HIDE DEF archives
<1>7. [task.dir EXCEPT !.archives = archives] = Dir(archives, task.dir.provs, task.dir.index)
  BY PublisherFacts DEF Dir, Fields, DirFields
<1>8. Publishing(Dir(archives, task.dir.provs, task.dir.index), doing, task.merged, task.left, FALSE, task.declared, task.signed, plan)
  BY <1>6, <1>7, PublisherFacts DEF Publishing, Fields, RegistryFields
<1> QED BY <1>4, <1>5, <1>8, PublisherFacts, PublisherReached

LEMMA SignStep ==
  ASSUME NEW B, RegistryInv(B), SignPackage
  PROVE  RegistryInv(B)'
<1> DEFINE op == Head(task.plan)
           body == task.dir.archives[op.v]
           prov == [of |-> body, key |-> op.key]
           provs == SetAt(task.dir.provs, op.v, prov)
           signed == task.signed \cup {<<body, op.key>>}
<1>1. task.plan # <<>> /\ PlanIs(B, Tail(task.plan)) /\ (task.fresh => OneOfEach(task.dir.index) /\ Listing(task.dir.archives) \subseteq ToSet(task.dir.index))
  BY PlanTail, PublisherFacts DEF SignPackage, Publishes, RegistryInv, PublisherKept
<1>2. CASE task' = [task EXCEPT !.doing = "idle", !.plan = Tail(@), !.signed = @ \cup {<<body, op.key>>}, !.dir.provs = SetAt(@, op.v, prov)]
  <2>1. ProvsAre(provs, signed) /\ task.signed \subseteq signed
    <3>1. prov.of = body /\ prov.key = op.key
      OBVIOUS
    <3> HIDE DEF prov, body, op
    <3>2. DOMAIN provs = DOMAIN task.dir.provs \cup {op.v}
      BY DEF SetAt
    <3>3. \A v \in DOMAIN provs : provs[v] = IF v = op.v THEN prov ELSE task.dir.provs[v]
      BY DEF SetAt
    <3> HIDE DEF provs
    <3> QED BY <3>1, <3>2, <3>3, PublisherFacts DEF ProvsAre
  <2>2. task' = [task EXCEPT !.doing = "idle", !.plan = Tail(@), !.signed = signed, !.dir = [task.dir EXCEPT !.provs = provs]]
    BY <1>2
  <2> HIDE DEF signed, provs, op
  <2>3. [task.dir EXCEPT !.provs = provs] = Dir(task.dir.archives, provs, task.dir.index)
    BY PublisherFacts DEF Dir, Fields, DirFields
  <2>4. Publishing(Dir(task.dir.archives, provs, task.dir.index), "idle", task.merged, task.left, task.fresh, task.declared, signed, Tail(task.plan))
    BY <2>2, <2>3, PublisherFacts DEF Publishing, Fields, RegistryFields
  <2> QED BY <1>1, <2>1, <2>4, PublisherFacts, PublisherReached
<1>3. CASE task' = [task EXCEPT !.doing = "idle", !.plan = Tail(@)]
  <2>1. Publishing(Dir(task.dir.archives, task.dir.provs, task.dir.index), "idle", task.merged, task.left, task.fresh,
                   task.declared, task.signed, Tail(task.plan))
    BY <1>3, PublisherFacts DEF Publishing, Fields, RegistryFields
  <2> QED BY <1>1, <2>1, PublisherFacts, PublisherReached
<1> QED BY <1>2, <1>3 DEF SignPackage

LEMMA WithdrawStep ==
  ASSUME NEW B, RegistryInv(B), WithdrawArchive
  PROVE  RegistryInv(B)'
<1> DEFINE archives == Drop(task.dir.archives, Head(task.plan).v)
<1>1. task.plan # <<>> /\ PlanIs(B, Tail(task.plan)) /\ task.doing # "merging"
  BY PlanTail, PublisherFacts DEF WithdrawArchive, Publishes, RegistryInv, PublisherKept
<1>2. ArchivesAre(B, archives)
  BY PublisherFacts, ArchiveDropped
<1>3. task' = [task EXCEPT !.plan = Tail(@), !.dir = [task.dir EXCEPT !.archives = archives], !.fresh = FALSE]
  BY DEF WithdrawArchive
<1> HIDE DEF archives
<1>4. [task.dir EXCEPT !.archives = archives] = Dir(archives, task.dir.provs, task.dir.index)
  BY PublisherFacts DEF Dir, Fields, DirFields
<1>5. Publishing(Dir(archives, task.dir.provs, task.dir.index), task.doing, task.merged, task.left, FALSE, task.declared, task.signed, Tail(task.plan))
  BY <1>3, <1>4, PublisherFacts DEF Publishing, Fields, RegistryFields
<1> QED BY <1>1, <1>2, <1>5, PublisherFacts, PublisherReached

(* GenerateIndex: the merge begins with what is listed already, or with    *)
(* nothing left to merge.                                                  *)
LEMMA GenerateStep ==
  ASSUME NEW B, RegistryInv(B), GenerateIndex
  PROVE  RegistryInv(B)'
<1> DEFINE archives == task.dir.archives
           existing == IF task.dir.index = NoIndex THEN <<>> ELSE task.dir.index
           fresh == task.fresh => OneOfEach(task.dir.index) /\ Listing(archives) \subseteq ToSet(task.dir.index)
<1>1. task.plan # <<>> /\ Head(task.plan).op = "index" /\ PlanIs(B, task.plan) /\ PlanIs(B, Tail(task.plan)) /\ task.doing = "idle" /\ fresh
  BY PlanTail, PublisherFacts DEF GenerateIndex, Publishes, RegistryInv, PublisherKept
<1>2. CASE task' = [task EXCEPT !.plan = Tail(@)]
  <2>1. Publishing(Dir(archives, task.dir.provs, task.dir.index), task.doing, task.merged, task.left, task.fresh, task.declared, task.signed, Tail(task.plan))
    BY <1>2, PublisherFacts DEF Publishing, Fields, RegistryFields
  <2> QED BY <1>1, <2>1, PublisherFacts, PublisherReached
<1>3. ASSUME NEW s \in Generated(archives),
             task' = [task EXCEPT !.doing = "merging", !.merged = IF Head(task.plan).merge THEN existing ELSE s,
                                  !.left = IF Head(task.plan).merge THEN s ELSE <<>>]
      PROVE  RegistryInv(B)'
  <2>1. s \in Seq(EntrySet(B)) /\ ToSet(s) = Listing(archives) /\ OneOfEach(s)
    BY GeneratedFacts, PublisherFacts
  <2>2. existing \in Seq(EntrySet(B)) /\ OneOfEach(existing)
    BY PublisherFacts DEF IndexIs, OneOfEach
  <2>3. ToSet(<<>>) = {} /\ <<>> \in Seq(EntrySet(B))
    BY DEF ToSet
  <2> DEFINE merged == IF Head(task.plan).merge THEN existing ELSE s
             left == IF Head(task.plan).merge THEN s ELSE <<>>
  <2>4. Merging(B, archives, merged, left)
    <3>1. CASE Head(task.plan).merge
      BY <2>1, <2>2, <3>1 DEF Merging
    <3>2. CASE ~Head(task.plan).merge
      BY <2>1, <2>3, <3>2 DEF Merging
    <3> QED BY <3>1, <3>2
  <2>5. task' = [task EXCEPT !.doing = "merging", !.merged = merged, !.left = left]
    BY <1>3
  <2> HIDE DEF merged, left, existing
  <2>6. Publishing(Dir(archives, task.dir.provs, task.dir.index), "merging", merged, left, task.fresh, task.declared, task.signed, task.plan)
    BY <2>5, PublisherFacts DEF Publishing, Fields, RegistryFields
  <2> QED BY <1>1, <2>4, <2>6, PublisherFacts, PublisherReached
<1> QED BY <1>2, <1>3 DEF GenerateIndex

LEMMA MergeStep ==
  ASSUME NEW B, RegistryInv(B), MergeIndex
  PROVE  RegistryInv(B)'
<1> DEFINE archives == task.dir.archives
           e == Head(task.left)
           merged == MergeEntry(task.merged, e)
           left == Tail(task.left)
           fresh == task.fresh => OneOfEach(task.dir.index) /\ Listing(archives) \subseteq ToSet(task.dir.index)
<1>1. /\ task.plan # <<>> /\ Head(task.plan).op = "index" /\ PlanIs(B, task.plan) /\ fresh /\ task.left # <<>>
      /\ Merging(B, archives, task.merged, task.left)
  BY PublisherFacts DEF MergeIndex, Publishes, RegistryInv, PublisherKept
<1>2. left \in Seq(EntrySet(B)) /\ e \in EntrySet(B) /\ ToSet(task.left) = ToSet(left) \cup {e}
  BY <1>1, TailFacts DEF Merging
<1>3. /\ merged \in Seq(EntrySet(B)) /\ OneOfEach(merged) /\ e \in ToSet(merged)
      /\ \A x \in ToSet(task.merged) : x \in ToSet(merged) \/ x.version = e.version
  BY <1>1, <1>2, MergeEntryFacts DEF Merging
<1>4. \A x, y \in Listing(archives) : x.version = y.version => x = y
  BY EntryFacts DEF Listing
<1>5. task' = [task EXCEPT !.merged = merged, !.left = left]
  BY DEF MergeIndex
<1> HIDE DEF e, merged, left
<1>6. Merging(B, archives, merged, left)
  <2>1. e \in Listing(archives) /\ ToSet(left) \subseteq Listing(archives)
    BY <1>1, <1>2 DEF Merging
  <2>2. ASSUME NEW x \in Listing(archives) PROVE x \in ToSet(merged) \cup ToSet(left)
    <3>1. x \in ToSet(task.merged) \/ x \in ToSet(left) \/ x = e
      BY <1>1, <1>2 DEF Merging
    <3> QED BY <1>3, <1>4, <2>1, <3>1
  <2> QED BY <1>2, <1>3, <2>1, <2>2 DEF Merging
<1>7. Publishing(Dir(archives, task.dir.provs, task.dir.index), task.doing, merged, left, task.fresh, task.declared, task.signed, task.plan)
  BY <1>5, PublisherFacts DEF Publishing, Fields, RegistryFields
<1> QED BY <1>1, <1>6, <1>7, PublisherFacts, PublisherReached

LEMMA SaveStep ==
  ASSUME NEW B, RegistryInv(B), SaveIndex
  PROVE  RegistryInv(B)'
<1> DEFINE archives == task.dir.archives
           declared == task.declared \cup ToSet(task.merged)
<1>1. task.plan # <<>> /\ PlanIs(B, Tail(task.plan)) /\ task.left = <<>> /\ Merging(B, archives, task.merged, task.left)
  BY PlanTail, PublisherFacts DEF SaveIndex, Publishes, RegistryInv, PublisherKept
<1>2. ToSet(task.left) = {}
  BY <1>1 DEF ToSet
<1>3. ToSet(task.merged) \subseteq EntrySet(B)
  BY <1>1, SeqFacts DEF Merging, ToSet
<1>4. /\ declared \subseteq EntrySet(B) /\ task.declared \subseteq declared /\ IndexIs(B, task.merged, declared)
      /\ OneOfEach(task.merged) /\ Listing(archives) \subseteq ToSet(task.merged)
  BY <1>1, <1>2, <1>3, PublisherFacts DEF Merging, IndexIs
<1>5. task' = [task EXCEPT !.doing = "idle", !.plan = Tail(@), !.dir = [task.dir EXCEPT !.index = task.merged], !.merged = <<>>,
                           !.fresh = TRUE, !.declared = declared]
  BY DEF SaveIndex
<1> HIDE DEF declared
<1>6. [task.dir EXCEPT !.index = task.merged] = Dir(archives, task.dir.provs, task.merged)
  BY PublisherFacts DEF Dir, Fields, DirFields
<1>7. Publishing(Dir(archives, task.dir.provs, task.merged), "idle", <<>>, task.left, TRUE, declared, task.signed, Tail(task.plan))
  BY <1>5, <1>6, PublisherFacts DEF Publishing, Fields, RegistryFields
<1>8. ArchivesAre(B, archives) /\ ProvsAre(task.dir.provs, task.signed) /\ task.signed \subseteq task.signed
  BY PublisherFacts
<1> HIDE DEF archives
<1> QED BY <1>1, <1>4, <1>7, <1>8, PublisherReached

(* What the user's step leaves.                                            *)
Using(home, cmd, at, want, seen, got, last) ==
    /\ Fields(task', RegistryFields) /\ task'.kind = "registry" /\ task'.dir = task.dir /\ task'.doing = task.doing
    /\ task'.merged = task.merged /\ task'.left = task.left /\ task'.fresh = task.fresh /\ task'.declared = task.declared
    /\ task'.signed = task.signed /\ task'.plan = task.plan /\ task'.keyring = task.keyring
    /\ task'.home = home /\ task'.cmd = cmd /\ task'.at = at /\ task'.want = want /\ task'.seen = seen /\ task'.got = got
    /\ task'.last = last
LEMMA PublisherStays ==
  ASSUME NEW B, RegistryInv(B), NEW home, NEW cmd, NEW at, NEW want, NEW seen, NEW got, NEW last,
         Using(home, cmd, at, want, seen, got, last), Fields(home, HomeFields)
  PROVE  RegistryShape(B)' /\ PublisherKept(B)'
<1>1. /\ Fields(task', RegistryFields) /\ task'.kind = "registry" /\ task'.dir = task.dir /\ task'.doing = task.doing
      /\ task'.merged = task.merged /\ task'.left = task.left /\ task'.fresh = task.fresh /\ task'.declared = task.declared
      /\ task'.signed = task.signed /\ task'.plan = task.plan /\ task'.home = home
  BY DEF Using
<1>2. RegistryShape(B)'
  BY <1>1 DEF RegistryInv, RegistryShape, PlanIs, IsList, Fields
<1>3. PublisherKept(B)'
  <2>1. PublisherKept(B)
    BY DEF RegistryInv
  <2>2. ArchivesAre(B, task.dir.archives)' /\ (task.declared \subseteq EntrySet(B))'
        /\ IndexIs(B, task.dir.index, task.declared)' /\ ProvsAre(task.dir.provs, task.signed)'
    BY <1>1, <2>1 DEF PublisherKept
  <2>3. (task.doing = "merging" => /\ task.plan # <<>> /\ Head(task.plan).op = "index"
                                   /\ Merging(B, task.dir.archives, task.merged, task.left))'
    BY <1>1, <2>1 DEF PublisherKept
  <2>4. (task.fresh => OneOfEach(task.dir.index) /\ Listing(task.dir.archives) \subseteq ToSet(task.dir.index))'
    BY <1>1, <2>1 DEF PublisherKept
  <2> QED BY <2>2, <2>3, <2>4 DEF PublisherKept
<1> QED BY <1>2, <1>3

(* How a command ends: what it says is true.                               *)
Truthful(last, home) ==
    /\ last.cmd = "source" => /\ Entry(last.version, last.got) \in task.declared \/ last.got = "part"
                              /\ last.version \in last.asked.allowed
    /\ last.cmd = "update" => /\ home.lock \in task.declared /\ home.unpacked = home.lock.digest
                              /\ home.lock.version \in last.asked.allowed
    /\ last.cmd = "pull" /\ last.asked.verify => SignedBy(last.got)
    /\ last.cmd = "verify" /\ home.lock # NoEntry => SignedBy(home.lock.digest)
LEMMA UserEnds ==
  ASSUME NEW B, RegistryInv(B), NEW home, NEW cmd, NEW want, NEW seen, NEW got, NEW last,
         Using(home, cmd, "idle", want, seen, got, last), Fields(home, HomeFields),
         CacheIs(home.cache, task.declared), ProvsAre(home.provs, task.signed), Truthful(last, home)
  PROVE  RegistryInv(B)'
<1>1. /\ task'.kind = "registry" /\ task'.declared = task.declared /\ task'.signed = task.signed /\ task'.keyring = task.keyring
      /\ task'.home = home /\ task'.cmd = cmd /\ task'.at = "idle" /\ task'.last = last
  BY DEF Using
<1>2. HomeKept'
  BY <1>1 DEF HomeKept, CacheIs, ProvsAre
<1>3. AtKept' /\ WantKept' /\ SeenKept' /\ GotKept'
  BY <1>1 DEF AtKept, WantKept, SeenKept, GotKept
<1>4. LastKept'
  <2>1. FetchedAsDeclared'
    BY <1>1 DEF FetchedAsDeclared, Truthful, Finished, Entry
  <2>2. VerifiedWasSigned'
    BY <1>1 DEF VerifiedWasSigned, Truthful, Finished, SignedBy
  <2> QED BY <1>1, <2>1, <2>2 DEF LastKept
<1> QED BY <1>2, <1>3, <1>4, PublisherStays DEF RegistryInv, UserKept

(* A command that is not over has said nothing yet.                        *)
LEMMA UserGoesOn ==
  ASSUME NEW B, RegistryInv(B), NEW home, NEW cmd, NEW at, NEW want, NEW seen, NEW got, NEW last,
         Using(home, cmd, at, want, seen, got, last), Fields(home, HomeFields), last.cmd = "none",
         CacheIs(home.cache, task.declared), ProvsAre(home.provs, task.signed),
         AtKept', WantKept', SeenKept', GotKept'
  PROVE  RegistryInv(B)'
<1>1. /\ task'.kind = "registry" /\ task'.declared = task.declared /\ task'.signed = task.signed /\ task'.keyring = task.keyring
      /\ task'.home = home /\ task'.last = last
  BY DEF Using
<1>2. HomeKept'
  BY <1>1 DEF HomeKept, CacheIs, ProvsAre
<1>3. LastKept'
  BY <1>1 DEF LastKept, FetchedAsDeclared, VerifiedWasSigned, Finished
<1> QED BY <1>2, <1>3, PublisherStays DEF RegistryInv, UserKept

LEMMA UserFacts ==
  ASSUME NEW B, RegistryInv(B)
  PROVE  /\ Fields(task, RegistryFields) /\ task.kind = "registry" /\ Fields(task.home, HomeFields) /\ NoDigest \notin B
         /\ CacheIs(task.home.cache, task.declared) /\ ProvsAre(task.home.provs, task.signed)
         /\ ProvsAre(task.dir.provs, task.signed) /\ task.declared \subseteq EntrySet(B)
         /\ task.at # "idle" => task.last.cmd = "none"
BY DEF RegistryInv, RegistryShape, UserKept, HomeKept, LastKept, PublisherKept

(* A command that fails says nothing.                                      *)
LEMMA UserFails ==
  ASSUME NEW B, RegistryInv(B), NEW home, Fails(home), Fields(home, HomeFields), CacheIs(home.cache, task.declared),
         ProvsAre(home.provs, task.signed)
  PROVE  RegistryInv(B)'
<1> DEFINE last == [cmd |-> "failed"]
<1>1. Using(home, NoCmd, "idle", NoEntry, NoEntry, "nothing", last)
  BY UserFacts DEF Fails, Over, Using, Fields, RegistryFields
<1>2. Truthful(last, home)
  BY DEF Truthful
<1> QED BY <1>1, <1>2, UserEnds
LEMMA FailsAsItWas ==
  ASSUME NEW B, RegistryInv(B), Fails(task.home)
  PROVE  RegistryInv(B)'
BY UserFacts, UserFails

(* What the index that is served says of a version was declared.           *)
LEMMA IndexReads ==
  ASSUME NEW B, RegistryInv(B), HasIndex
  PROVE  /\ DOMAIN Entries \subseteq Nat /\ Entries \in Seq(EntrySet(B))
         /\ \A i \in DOMAIN Entries : Entries[i] \in task.declared /\ Entries[i] \in EntrySet(B)
<1>1. Entries \in Seq(EntrySet(B)) /\ ToSet(Entries) \subseteq task.declared /\ task.declared \subseteq EntrySet(B)
  BY DEF HasIndex, Entries, RegistryInv, PublisherKept, IndexIs
<1>2. DOMAIN Entries \subseteq Nat
  BY <1>1, SeqFacts
<1>3. \A i \in DOMAIN Entries : Entries[i] \in ToSet(Entries)
  BY DEF ToSet
<1> QED BY <1>1, <1>2, <1>3

LEMMA BeginStep ==
  ASSUME NEW B, RegistryInv(B), BeginCommand
  PROVE  RegistryInv(B)'
<1> DEFINE cmd == Head(task.script)
           at == CASE cmd.cmd = "pull" -> "entry" [] cmd.cmd = "verify" -> "verify" [] OTHER -> "resolve"
<1>1. at \in {"entry", "verify", "resolve"} /\ (at = "entry" => cmd.cmd = "pull")
  OBVIOUS
<1>2. task' = [task EXCEPT !.cmd = cmd, !.script = Tail(@), !.last = NoCmd, !.at = at]
  BY DEF BeginCommand
<1> HIDE DEF cmd, at
<1>3. Using(task.home, cmd, at, task.want, task.seen, task.got, NoCmd)
  BY <1>2, UserFacts DEF Using, Fields, RegistryFields
<1>4. task'.at = at /\ task'.cmd = cmd
  BY <1>3 DEF Using
<1>5. AtKept' /\ WantKept' /\ SeenKept' /\ GotKept'
  BY <1>1, <1>4 DEF AtKept, WantKept, SeenKept, GotKept
<1>6. NoCmd.cmd = "none"
  BY DEF NoCmd
<1> QED BY <1>3, <1>5, <1>6, UserFacts, UserGoesOn

(* resolveRegistryVersion: the first entry that is allowed; what is cached *)
(* under its version was declared once.                                    *)
LEMMA ResolveSourceStep ==
  ASSUME NEW B, RegistryInv(B), ResolveSource
  PROVE  RegistryInv(B)'
<1> DEFINE found == {i \in DOMAIN Entries : Entries[i].version \in task.cmd.allowed}
           e == Entries[Min(found)]
           cached == [Over(TRUE, task.home) EXCEPT !.last.version = e.version, !.last.got = task.home.cache[e.version]]
           want == [e EXCEPT !.digest = NoDigest]
<1>1. task.cmd.cmd = "source" /\ task.at = "resolve"
  BY DEF ResolveSource, Doing
<1>2. ASSUME HasIndex, found # {}
      PROVE  e \in task.declared /\ e \in EntrySet(B) /\ e.version \in task.cmd.allowed
  <2>1. found \in SUBSET Nat
    BY <1>2, IndexReads
  <2>2. Min(found) \in found
    BY <1>2, <2>1, MinIsIn
  <2> QED BY <1>2, <2>2, IndexReads
<1>3. CASE HasIndex /\ found # {} /\ e.version \in DOMAIN task.home.cache /\ task' = cached
  <2> DEFINE got == task.home.cache[e.version]
             last == [cmd |-> task.cmd.cmd, asked |-> task.cmd, version |-> e.version, got |-> got]
  <2>1. Entry(e.version, got) \in task.declared \/ got = "part"
    BY <1>3, UserFacts DEF CacheIs
  <2>2. e.version \in task.cmd.allowed
    BY <1>2, <1>3
  <2>3. last.cmd = "source" /\ last.version = e.version /\ last.got = got /\ last.asked = task.cmd
    BY <1>1
  <2>4. Truthful(last, task.home)
    BY <2>1, <2>2, <2>3 DEF Truthful
  <2> DEFINE v == e.version
             last0 == [cmd |-> task.cmd.cmd, asked |-> task.cmd, version |-> task.seen.version, got |-> task.got]
  <2>5. task' = [Over(TRUE, task.home) EXCEPT !.last.version = v, !.last.got = got]
    BY <1>3
  <2>6. last = [cmd |-> task.cmd.cmd, asked |-> task.cmd, version |-> v, got |-> got]
    OBVIOUS
  <2> HIDE DEF v, got, last
  <2>7. Using(task.home, NoCmd, "idle", NoEntry, NoEntry, "nothing", last)
    BY <2>5, <2>6, UserFacts DEF Over, Using, Fields, RegistryFields
  <2> QED BY <2>4, <2>7, UserFacts, UserEnds
<1>4. CASE HasIndex /\ found # {} /\ task' = [task EXCEPT !.want = want, !.at = "entry"]
  <2>1. want.version = e.version /\ e.version \in Nat \ {0}
    BY <1>2, <1>4 DEF EntrySet
  <2>2. e.version \in task.cmd.allowed
    BY <1>2, <1>4
  <2>3. task' = [task EXCEPT !.want = want, !.at = "entry"]
    BY <1>4
  <2> HIDE DEF want, e, found
  <2>4. Using(task.home, task.cmd, "entry", want, task.seen, task.got, task.last)
    BY <2>3, UserFacts DEF Using, Fields, RegistryFields
  <2>5. task'.at = "entry" /\ task'.cmd = task.cmd /\ task'.want = want
    BY <2>4 DEF Using
  <2>6. AtKept' /\ WantKept' /\ SeenKept' /\ GotKept'
    BY <1>1, <2>1, <2>2, <2>5 DEF AtKept, WantKept, SeenKept, GotKept
  <2> QED BY <1>1, <2>4, <2>6, UserFacts, UserGoesOn
<1>5. CASE Fails(task.home)
  BY <1>5, FailsAsItWas
<1> QED BY <1>3, <1>4, <1>5 DEF ResolveSource

(* findHighestCompatible, for the one dependency.                          *)
LEMMA ResolveDependencyStep ==
  ASSUME NEW B, RegistryInv(B), ResolveDependency
  PROVE  RegistryInv(B)'
<1>1. task.cmd.cmd = "update" /\ task.at = "resolve"
  BY DEF ResolveDependency, Doing
<1>2. CASE Fails(task.home)
  BY <1>2, FailsAsItWas
<1>3. ASSUME HasIndex, NEW e \in ToSet(Entries), e.version \in task.cmd.allowed, task' = [task EXCEPT !.want = e, !.at = "entry"]
      PROVE  RegistryInv(B)'
  <2>1. e \in task.declared /\ e.version # 0
    <3>1. e \in task.declared /\ e \in EntrySet(B)
      BY <1>3, IndexReads DEF ToSet
    <3> QED BY <3>1, EntryIs
  <2>2. Using(task.home, task.cmd, "entry", e, task.seen, task.got, task.last)
    BY <1>3, UserFacts DEF Using, Fields, RegistryFields
  <2>3. task'.at = "entry" /\ task'.cmd = task.cmd /\ task'.want = e /\ task'.declared = task.declared
    BY <2>2 DEF Using
  <2>4. AtKept' /\ WantKept' /\ SeenKept' /\ GotKept'
    BY <1>1, <1>3, <2>1, <2>3 DEF AtKept, WantKept, SeenKept, GotKept
  <2> QED BY <1>1, <2>2, <2>4, UserFacts, UserGoesOn
<1> QED BY <1>2, <1>3 DEF ResolveDependency

(* DownloadPackageResolvedWith, pull: the entry of the version asked for.  *)
LEMMA FindEntryStep ==
  ASSUME NEW B, RegistryInv(B), FindEntry
  PROVE  RegistryInv(B)'
<1> DEFINE v == IF task.cmd.cmd = "pull" THEN task.cmd.v ELSE task.want.version
           found == {i \in DOMAIN Entries : v = 0 \/ Entries[i].version = v}
           e == Entries[Min(found)]
<1>1. task.at = "entry" /\ task.cmd.cmd \in {"pull", "source", "update"}
  BY DEF FindEntry, RegistryInv, UserKept, AtKept
<1>2. CASE Fails(task.home)
  BY <1>2, FailsAsItWas
<1>3. CASE HasIndex /\ found # {} /\ task' = [task EXCEPT !.seen = e, !.at = "archive"]
  <2>1. found \in SUBSET Nat
    BY <1>3, IndexReads
  <2>2. Min(found) \in found
    BY <1>3, <2>1, MinIsIn
  <2>3. e \in task.declared /\ (v = 0 \/ e.version = v)
    BY <1>3, <2>2, IndexReads
  <2>4. task.cmd.cmd \in {"source", "update"} =>
            e.version = task.want.version /\ task.want.version \in task.cmd.allowed /\ task.want.version # 0
            /\ (task.cmd.cmd = "update" => task.want \in task.declared)
    BY <1>1, <2>3 DEF RegistryInv, UserKept, WantKept
  <2>5. task' = [task EXCEPT !.seen = e, !.at = "archive"]
    BY <1>3
  <2> HIDE DEF e, found
  <2>6. Using(task.home, task.cmd, "archive", task.want, e, task.got, task.last)
    BY <2>5, UserFacts DEF Using, Fields, RegistryFields
  <2>7. task'.at = "archive" /\ task'.cmd = task.cmd /\ task'.want = task.want /\ task'.seen = e /\ task'.declared = task.declared
    BY <2>6 DEF Using
  <2>8. AtKept' /\ WantKept' /\ SeenKept' /\ GotKept'
    BY <1>1, <2>3, <2>4, <2>7 DEF AtKept, WantKept, SeenKept, GotKept
  <2> QED BY <1>1, <2>6, <2>8, UserFacts, UserGoesOn
<1> QED BY <1>2, <1>3 DEF FindEntry

(* downloadArchive, VerifyDigest                                           *)
LEMMA DownloadStep ==
  ASSUME NEW B, RegistryInv(B), DownloadArchive
  PROVE  RegistryInv(B)'
<1>1. task.at = "archive" /\ task.cmd.cmd \in {"pull", "source", "update"}
  BY DEF DownloadArchive, RegistryInv, UserKept, AtKept
<1>2. CASE Fails(task.home)
  BY <1>2, FailsAsItWas
<1> DEFINE body == task.dir.archives[task.seen.version]
           at == IF task.cmd.cmd # "pull" THEN "extract" ELSE IF task.cmd.verify THEN "prov" ELSE "place"
<1>3. CASE DigestFits(body) /\ task' = [task EXCEPT !.got = body, !.at = at]
  <2>1. task.cmd.cmd # "pull" => body = task.seen.digest /\ (task.want.digest = NoDigest \/ task.want.digest = body)
    BY <1>3 DEF DigestFits
  <2>2. \/ at = "extract" /\ task.cmd.cmd \in {"source", "update"}
        \/ at = "prov" /\ task.cmd.cmd = "pull"
        \/ at = "place" /\ task.cmd.cmd = "pull" /\ ~task.cmd.verify
    BY <1>1
  <2>3. task' = [task EXCEPT !.got = body, !.at = at]
    BY <1>3
  <2> HIDE DEF body, at
  <2>4. Using(task.home, task.cmd, at, task.want, task.seen, body, task.last)
    BY <2>3, UserFacts DEF Using, Fields, RegistryFields
  <2>5. /\ task'.at = at /\ task'.cmd = task.cmd /\ task'.want = task.want /\ task'.seen = task.seen /\ task'.got = body
        /\ task'.declared = task.declared
    BY <2>4 DEF Using
  <2>6. AtKept'
    BY <2>2, <2>5 DEF AtKept
  <2>7. WantKept' /\ SeenKept'
    BY <1>1, <2>5 DEF WantKept, SeenKept, RegistryInv, UserKept
  <2>8. GotKept'
    BY <2>1, <2>2, <2>5 DEF GotKept
  <2> QED BY <1>1, <2>4, <2>6, <2>7, <2>8, UserFacts, UserGoesOn
<1> QED BY <1>2, <1>3 DEF DownloadArchive

(* VerifyArchive: signed with a key of the keyring, of this very archive.  *)
LEMMA SignatureMeans ==
  ASSUME NEW provs, ProvsAre(provs, task.signed), NEW v \in DOMAIN provs, NEW body, SignatureFits(provs[v], body, task.keyring)
  PROVE  SignedBy(body)
BY DEF ProvsAre, SignatureFits, SignedBy
LEMMA VerifyStep ==
  ASSUME NEW B, RegistryInv(B), VerifyArchive
  PROVE  RegistryInv(B)'
<1>1. task.at = "prov" /\ task.cmd.cmd = "pull"
  BY DEF VerifyArchive, Doing
<1>2. CASE Fails(task.home)
  BY <1>2, FailsAsItWas
<1>3. CASE /\ task.seen.version \in DOMAIN task.dir.provs
           /\ SignatureFits(task.dir.provs[task.seen.version], task.got, task.keyring)
           /\ task' = [task EXCEPT !.at = "place"]
  <2>1. SignedBy(task.got)
    BY <1>3, UserFacts, SignatureMeans
  <2>2. Using(task.home, task.cmd, "place", task.want, task.seen, task.got, task.last)
    BY <1>3, UserFacts DEF Using, Fields, RegistryFields
  <2>3. /\ task'.at = "place" /\ task'.cmd = task.cmd /\ task'.want = task.want /\ task'.seen = task.seen /\ task'.got = task.got
        /\ task'.declared = task.declared /\ task'.keyring = task.keyring /\ task'.signed = task.signed
    BY <2>2 DEF Using
  <2>4. AtKept' /\ WantKept' /\ SeenKept'
    BY <1>1, <2>3 DEF AtKept, WantKept, SeenKept, RegistryInv, UserKept
  <2>5. GotKept'
    BY <1>1, <2>1, <2>3 DEF GotKept, SignedBy
  <2> QED BY <1>1, <2>2, <2>4, <2>5, UserFacts, UserGoesOn
<1> QED BY <1>2, <1>3 DEF VerifyArchive

LEMMA PlaceStep ==
  ASSUME NEW B, RegistryInv(B), PlaceArchive
  PROVE  RegistryInv(B)'
<1> DEFINE home == [task.home EXCEPT !.pulled = SetAt(@, task.seen.version, task.got)]
           last == [cmd |-> task.cmd.cmd, asked |-> task.cmd, version |-> task.seen.version, got |-> task.got]
<1>1. task.at = "place" /\ task.cmd.cmd = "pull" /\ task' = Over(TRUE, home)
  BY DEF PlaceArchive, Doing
<1>2. Fields(home, HomeFields) /\ home.cache = task.home.cache /\ home.provs = task.home.provs
  BY UserFacts DEF Fields, HomeFields
<1>3. last.asked.verify => SignedBy(last.got)
  BY <1>1 DEF RegistryInv, UserKept, GotKept
<1>4. Truthful(last, home)
  BY <1>1, <1>3 DEF Truthful
<1> HIDE DEF home
<1>5. Using(home, NoCmd, "idle", NoEntry, NoEntry, "nothing", last)
  BY <1>1, UserFacts DEF Over, Using, Fields, RegistryFields
<1> HIDE DEF last
<1> QED BY <1>2, <1>4, <1>5, UserFacts, UserEnds

(* ExtractArchive into the cache of sources.                               *)
LEMMA ExtractSourceStep ==
  ASSUME NEW B, RegistryInv(B), ExtractSource
  PROVE  RegistryInv(B)'
<1> DEFINE into(x) == [task.home EXCEPT !.cache = SetAt(@, task.seen.version, x)]
           last == [cmd |-> task.cmd.cmd, asked |-> task.cmd, version |-> task.seen.version, got |-> task.got]
<1>1. task.at = "extract" /\ task.cmd.cmd = "source"
  BY DEF ExtractSource, Doing
<1>2. /\ task.seen \in task.declared /\ task.seen.version = task.want.version /\ task.want.version \in task.cmd.allowed
      /\ task.got = task.seen.digest
  BY <1>1 DEF RegistryInv, UserKept, WantKept, SeenKept, GotKept
<1>3. Entry(task.seen.version, task.got) \in task.declared
  <2>1. task.seen \in EntrySet(B)
    BY <1>2, UserFacts
  <2> QED BY <1>2, <2>1, EntryIs
<1>4. ASSUME NEW x, x = "part" \/ x = task.got
      PROVE  Fields(into(x), HomeFields) /\ CacheIs(into(x).cache, task.declared) /\ into(x).provs = task.home.provs
  <2>1. Fields(into(x), HomeFields) /\ into(x).cache = SetAt(task.home.cache, task.seen.version, x) /\ into(x).provs = task.home.provs
    BY UserFacts DEF Fields, HomeFields
  <2>2. CacheIs(SetAt(task.home.cache, task.seen.version, x), task.declared)
    BY <1>3, <1>4, UserFacts DEF CacheIs, SetAt
  <2> QED BY <2>1, <2>2
<1>5. CASE Fails(into("part"))
  <2> DEFINE home == into("part")
  <2>1. Fails(home) /\ Fields(home, HomeFields) /\ CacheIs(home.cache, task.declared) /\ ProvsAre(home.provs, task.signed)
    BY <1>4, <1>5, UserFacts
  <2> HIDE DEF home
  <2> QED BY <2>1, UserFails
<1>6. CASE task' = Over(TRUE, into(task.got))
  <2> DEFINE home == into(task.got)
  <2>1. Fields(home, HomeFields) /\ CacheIs(home.cache, task.declared) /\ ProvsAre(home.provs, task.signed)
    BY <1>4, UserFacts
  <2>2. task' = Over(TRUE, home)
    BY <1>6
  <2>3. Truthful(last, home)
    BY <1>1, <1>2, <1>3 DEF Truthful
  <2> HIDE DEF home
  <2>4. Using(home, NoCmd, "idle", NoEntry, NoEntry, "nothing", last)
    BY <2>2, UserFacts DEF Over, Using, Fields, RegistryFields
  <2> HIDE DEF last
  <2> QED BY <2>1, <2>3, <2>4, UserEnds
<1> QED BY <1>5, <1>6 DEF ExtractSource

(* ExtractArchive into packages/.                                          *)
LEMMA ExtractDependencyStep ==
  ASSUME NEW B, RegistryInv(B), ExtractDependency
  PROVE  RegistryInv(B)'
<1>1. task.at = "extract" /\ task.cmd.cmd = "update"
  BY DEF ExtractDependency, Doing
<1>2. ASSUME NEW x, Fails([task.home EXCEPT !.unpacked = x])
      PROVE  RegistryInv(B)'
  <2> DEFINE home == [task.home EXCEPT !.unpacked = x]
  <2>1. Fields(home, HomeFields) /\ home.cache = task.home.cache /\ home.provs = task.home.provs /\ Fails(home)
    BY <1>2, UserFacts DEF Fields, HomeFields
  <2> HIDE DEF home
  <2> QED BY <2>1, UserFacts, UserFails
<1>3. CASE task' = [task EXCEPT !.home.unpacked = task.got, !.home.kept = SetAt(@, task.seen.version, task.got), !.at = "prov"]
  <2> DEFINE kept == SetAt(task.home.kept, task.seen.version, task.got)
             home == [task.home EXCEPT !.unpacked = task.got, !.kept = kept]
  <2>1. task' = [task EXCEPT !.home = home, !.at = "prov"]
    BY <1>3, UserFacts DEF Fields, RegistryFields
  <2> HIDE DEF kept
  <2>2. /\ Fields(home, HomeFields) /\ home.cache = task.home.cache /\ home.provs = task.home.provs
        /\ home.unpacked = task.got
    BY UserFacts DEF Fields, HomeFields
  <2> HIDE DEF home
  <2>3. Using(home, task.cmd, "prov", task.want, task.seen, task.got, task.last)
    BY <2>1, UserFacts DEF Using, Fields, RegistryFields
  <2>4. /\ task'.at = "prov" /\ task'.cmd = task.cmd /\ task'.want = task.want /\ task'.seen = task.seen /\ task'.got = task.got
        /\ task'.declared = task.declared /\ task'.home = home
    BY <2>3 DEF Using
  <2>5. AtKept' /\ WantKept' /\ SeenKept'
    BY <1>1, <2>4 DEF AtKept, WantKept, SeenKept, RegistryInv, UserKept
  <2>6. GotKept'
    BY <1>1, <2>2, <2>4 DEF GotKept, RegistryInv, UserKept
  <2> QED BY <1>1, <2>2, <2>3, <2>5, <2>6, UserFacts, UserGoesOn
<1> QED BY <1>2, <1>3 DEF ExtractDependency

(* retainForVerification, then the lock: it says what was wanted, which is *)
(* what is unpacked.                                                       *)
LEMMA RetainStep ==
  ASSUME NEW B, RegistryInv(B), RetainProvenance
  PROVE  RegistryInv(B)'
<1> DEFINE lock == [version |-> task.seen.version, digest |-> task.want.digest]
           v == task.seen.version
           last == [cmd |-> task.cmd.cmd, asked |-> task.cmd, version |-> task.seen.version, got |-> task.got]
<1>1. task.at = "prov" /\ task.cmd.cmd = "update"
  BY DEF RetainProvenance, Doing
<1>2. /\ task.want \in task.declared /\ task.seen.version = task.want.version /\ task.want.version \in task.cmd.allowed
      /\ (task.want.digest = NoDigest \/ task.want.digest = task.got) /\ task.home.unpacked = task.got
  BY <1>1 DEF RegistryInv, UserKept, WantKept, SeenKept, GotKept
<1>3. lock = task.want /\ task.home.unpacked = lock.digest /\ lock.version \in task.cmd.allowed
  <2>1. task.want = Entry(task.want.version, task.want.digest) /\ task.want.digest # NoDigest
    BY <1>2, UserFacts, EntryIs
  <2> QED BY <1>2, <2>1 DEF Entry
<1>4. lock \in task.declared
  BY <1>2, <1>3
<1> HIDE DEF lock
<1>5. ASSUME NEW provs, ProvsAre(provs, task.signed), task' = Over(TRUE, [task.home EXCEPT !.provs = provs, !.lock = lock])
      PROVE  RegistryInv(B)'
  <2> DEFINE home == [task.home EXCEPT !.provs = provs, !.lock = lock]
  <2>1. /\ Fields(home, HomeFields) /\ home.cache = task.home.cache /\ home.provs = provs /\ home.lock = lock
        /\ home.unpacked = task.home.unpacked /\ task' = Over(TRUE, home)
    BY <1>5, UserFacts DEF Fields, HomeFields
  <2> HIDE DEF home
  <2>2. Truthful(last, home)
    BY <1>1, <1>3, <1>4, <2>1 DEF Truthful
  <2>3. Using(home, NoCmd, "idle", NoEntry, NoEntry, "nothing", last)
    BY <2>1, UserFacts DEF Over, Using, Fields, RegistryFields
  <2> HIDE DEF last
  <2> QED BY <1>5, <2>1, <2>2, <2>3, UserFacts, UserEnds
<1>6. CASE task' = Over(TRUE, [task.home EXCEPT !.lock = lock])
  <2>1. [task.home EXCEPT !.lock = lock] = [task.home EXCEPT !.provs = task.home.provs, !.lock = lock]
    BY UserFacts DEF Fields, HomeFields
  <2> QED BY <1>5, <1>6, <2>1, UserFacts
<1>7. CASE v \in DOMAIN task.dir.provs /\ task' = Over(TRUE, [task.home EXCEPT !.provs = SetAt(@, v, task.dir.provs[v]), !.lock = lock])
  <2> DEFINE provs == SetAt(task.home.provs, v, task.dir.provs[v])
  <2>1. ProvsAre(provs, task.signed)
    BY <1>7, UserFacts DEF ProvsAre, SetAt
  <2>2. task' = Over(TRUE, [task.home EXCEPT !.provs = provs, !.lock = lock])
    BY <1>7
  <2> HIDE DEF provs
  <2> QED BY <1>5, <2>1, <2>2
<1> QED BY <1>6, <1>7 DEF RetainProvenance, lock

(* verifyInstalledSignatures                                               *)
LEMMA VerifyInstalledStep ==
  ASSUME NEW B, RegistryInv(B), VerifyInstalled
  PROVE  RegistryInv(B)'
<1> DEFINE h == task.home
           v == h.lock.version
<1>1. task.cmd.cmd = "verify" /\ task.at = "verify"
  BY DEF VerifyInstalled, Doing
<1>2. CASE Fails(h)
  BY <1>2, FailsAsItWas
<1>3. CASE Fails([h EXCEPT !.kept = Drop(@, v)])
  <2> DEFINE kept == Drop(h.kept, v)
             home == [h EXCEPT !.kept = kept]
  <2>1. Fails(home)
    BY <1>3
  <2> HIDE DEF kept
  <2>2. Fields(home, HomeFields) /\ home.cache = task.home.cache /\ home.provs = task.home.provs
    BY UserFacts DEF Fields, HomeFields
  <2> HIDE DEF home
  <2> QED BY <2>1, <2>2, UserFacts, UserFails
<1>4. CASE h.lock = NoEntry /\ task' = Over(TRUE, h)
  <2> DEFINE last == [cmd |-> task.cmd.cmd, asked |-> task.cmd, version |-> task.seen.version, got |-> task.got]
  <2>1. Truthful(last, h)
    BY <1>1, <1>4 DEF Truthful
  <2>2. Using(h, NoCmd, "idle", NoEntry, NoEntry, "nothing", last)
    BY <1>4, UserFacts DEF Over, Using, Fields, RegistryFields
  <2> HIDE DEF last
  <2> QED BY <2>1, <2>2, UserFacts, UserEnds
<1>5. CASE /\ h.kept[v] = h.lock.digest /\ v \in DOMAIN h.provs /\ SignatureFits(h.provs[v], h.kept[v], task.keyring)
           /\ task' = [Over(TRUE, h) EXCEPT !.last.version = v, !.last.got = h.kept[v]]
  <2> DEFINE got == h.kept[v]
             last == [cmd |-> task.cmd.cmd, asked |-> task.cmd, version |-> v, got |-> got]
  <2>1. SignedBy(h.lock.digest)
    BY <1>5, UserFacts, SignatureMeans
  <2>2. Truthful(last, h)
    BY <1>1, <2>1 DEF Truthful
  <2>3. task' = [Over(TRUE, h) EXCEPT !.last.version = v, !.last.got = got]
    BY <1>5
  <2>4. last = [cmd |-> task.cmd.cmd, asked |-> task.cmd, version |-> v, got |-> got]
    OBVIOUS
  <2> HIDE DEF v, got, last
  <2>5. Using(h, NoCmd, "idle", NoEntry, NoEntry, "nothing", last)
    BY <2>3, <2>4, UserFacts DEF Over, Using, Fields, RegistryFields
  <2> QED BY <2>2, <2>5, UserFacts, UserEnds
<1> QED BY <1>2, <1>3, <1>4, <1>5 DEF VerifyInstalled

(* Nothing but the end is new.                                             *)
LEMMA RegistryStopStep ==
  ASSUME NEW B, RegistryInv(B), RegistryStop
  PROVE  RegistryInv(B)'
<1>1. task.at = "idle" /\ task' = [task EXCEPT !.pc = "ok"]
  BY DEF RegistryStop
<1>2. Using(task.home, task.cmd, "idle", task.want, task.seen, task.got, task.last)
  BY <1>1, UserFacts DEF Using, Fields, RegistryFields
<1>3. Truthful(task.last, task.home)
  BY UserFacts DEF Truthful, RegistryInv, UserKept, LastKept, FetchedAsDeclared, VerifiedWasSigned, Finished, SignedBy, Entry
<1> QED BY <1>2, <1>3, UserFacts, UserEnds

(* Repositories and users at work: for some digests there are, RegistryInv *)
(* is an invariant.                                                        *)
LEMMA RegistryBegins ==
  ASSUME NEW plan, NEW script, NEW keyring, RegistryInputs(plan, script), task = RegistryTask(plan, script, keyring)
  PROVE  \E B : RegistryInv(B)
<1> DEFINE ops == {i \in DOMAIN plan : plan[i].op = "package"}
           B == {plan[i].body : i \in ops} \cup {"torn"}
<1>1. "torn" # NoDigest
  BY Zenon DEF NoDigest
<1>2. "torn" \in B /\ NoDigest \notin B /\ PlanIs(B, plan)
  BY <1>1 DEF RegistryInputs, PlanIs, IsList
<1> HIDE DEF B
<1>3. /\ task.kind = "registry" /\ task.plan = plan /\ task.doing = "idle" /\ task.fresh = FALSE /\ task.declared = {}
      /\ task.signed = {} /\ task.home = Home0 /\ task.at = "idle" /\ task.last = NoCmd
      /\ task.dir = [archives |-> <<>>, provs |-> <<>>, index |-> NoIndex]
  BY DEF RegistryTask
<1>4. Fields(task, RegistryFields)
  BY DEF RegistryTask, Fields, RegistryFields
<1>5. Fields(task.dir, DirFields) /\ task.dir.archives = <<>> /\ task.dir.provs = <<>> /\ task.dir.index = NoIndex
  BY <1>3 DEF Fields, DirFields
<1>6. Fields(Home0, HomeFields) /\ Home0.cache = <<>> /\ Home0.provs = <<>> /\ Home0.lock = NoEntry
  BY DEF Home0, Fields, HomeFields
<1>7. RegistryShape(B)
  BY <1>2, <1>3, <1>4, <1>5, <1>6 DEF RegistryShape
<1>8. PublisherKept(B)
  <2>1. IsFiniteSet(DOMAIN <<>>)
    BY FS_EmptySet
  <2>2. ArchivesAre(B, <<>>) /\ ProvsAre(<<>>, {})
    BY <2>1 DEF ArchivesAre, ProvsAre
  <2> QED BY <1>3, <1>5, <2>2 DEF PublisherKept, IndexIs
<1>9. UserKept
  <2>1. HomeKept
    BY <1>3, <1>6 DEF HomeKept, CacheIs, ProvsAre
  <2>2. AtKept /\ WantKept /\ SeenKept /\ GotKept
    BY <1>3 DEF AtKept, WantKept, SeenKept, GotKept
  <2>3. LastKept
    BY <1>3 DEF LastKept, FetchedAsDeclared, VerifiedWasSigned, Finished, NoCmd
  <2> QED BY <2>1, <2>2, <2>3 DEF UserKept
<1> QED BY <1>7, <1>8, <1>9 DEF RegistryInv

LEMMA RegistryStepKeeps ==
  ASSUME NEW B, RegistryInv(B), RegistryStep
  PROVE  RegistryInv(B)'
BY PackageStep, SignStep, GenerateStep, MergeStep, SaveStep, WithdrawStep, BeginStep, ResolveSourceStep, ResolveDependencyStep,
   FindEntryStep, DownloadStep, VerifyStep, PlaceStep, ExtractSourceStep, ExtractDependencyStep, RetainStep, VerifyInstalledStep,
   RegistryStopStep
   DEF RegistryStep

LEMMA FaithIsKept ==
  ASSUME NEW B, RegistryInv(B)
  PROVE  task.kind = "registry" /\ RepositoryKeepsFaith
<1>1. task.kind = "registry" /\ FetchedAsDeclared /\ VerifiedWasSigned
  BY DEF RegistryInv, RegistryShape, UserKept, LastKept
<1>2. IndexTellsTruth
  <2>1. task.fresh => OneOfEach(Entries) /\ Listing(task.dir.archives) \subseteq ToSet(Entries)
    BY DEF RegistryInv, PublisherKept, Entries
  <2>2. ASSUME task.fresh, NEW v \in DOMAIN task.dir.archives
        PROVE  \E i \in DOMAIN Entries : Entries[i] = [version |-> v, digest |-> task.dir.archives[v]]
    <3>1. Entry(v, task.dir.archives[v]) \in ToSet(Entries)
      BY <2>1, <2>2 DEF Listing
    <3> QED BY <3>1 DEF ToSet, Entry
  <2> QED BY <2>1, <2>2 DEF IndexTellsTruth, OneOfEach
<1> QED BY <1>1, <1>2 DEF RepositoryKeepsFaith

(* VerifyDigest, VerifyArchive, GenerateIndex: whatever is published,      *)
(* signed, indexed and withdrawn between the steps of a user's commands.   *)
THEOREM FaithKept == RegistrySpec => [](task.kind = "registry" /\ RepositoryKeepsFaith)
<1> DEFINE Inv == \E B : RegistryInv(B)
<1>1. RegistrySpec => Inv
  BY RegistryBegins DEF RegistrySpec
<1>2. Inv /\ [RegistryStep]_taskVars => Inv'
  <2> SUFFICES ASSUME NEW B, RegistryInv(B), [RegistryStep]_taskVars
               PROVE  \E C : RegistryInv(C)'
    OBVIOUS
  <2>1. CASE RegistryStep
    BY <2>1, RegistryStepKeeps
  <2>2. CASE UNCHANGED taskVars
    <3>1. task' = task
      BY <2>2 DEF taskVars
    <3>2. Using(task.home, task.cmd, task.at, task.want, task.seen, task.got, task.last)
      BY <3>1, UserFacts DEF Using
    <3>3. UserSame
      BY <3>1 DEF UserSame
    <3> QED BY <3>2, <3>3, UserFacts, PublisherStays, UserStays DEF RegistryInv
  <2> QED BY <2>1, <2>2
<1>3. Inv => task.kind = "registry" /\ RepositoryKeepsFaith
  BY FaithIsKept
<1> HIDE DEF Inv
<1> QED BY <1>1, <1>2, <1>3, PTL DEF RegistrySpec

-----------------------------------------------------------------------------
(* The resolver.                                                           *)

(* A finite set of numbers has a greatest one: a least set without one, by *)
(* number of elements, would be without one when an element is taken out.  *)
LEMMA MaxIsIn ==
  ASSUME NEW S \in SUBSET Nat, S # {}, IsFiniteSet(S)
  PROVE  Max(S) \in S /\ \A w \in S : w <= Max(S)
<1> DEFINE Top(X, v) == v \in X /\ \A w \in X : w <= v
           Bad(X) == X # {} /\ ~\E v : Top(X, v)
           Sizes == {Cardinality(X) : X \in {Y \in SUBSET S : Bad(Y)}}
<1>1. ~Bad(S)
  <2> SUFFICES ASSUME Bad(S) PROVE FALSE
    OBVIOUS
  <2>1. \A X \in SUBSET S : IsFiniteSet(X) /\ Cardinality(X) \in Nat
    BY FS_Subset, FS_CardinalityType
  <2>2. Sizes \in SUBSET Nat /\ Sizes # {}
    BY <2>1
  <2>3. PICK k \in Sizes : \A j \in Sizes : k <= j
    <3> HIDE DEF Sizes
    <3> QED BY <2>2, LeastPosition
  <2>4. PICK X \in SUBSET S : Bad(X) /\ Cardinality(X) = k
    BY <2>3
  <2>5. PICK x \in X : TRUE
    BY <2>4
  <2> DEFINE Y == X \ {x}
  <2>6. Y \in SUBSET S /\ Cardinality(Y) < Cardinality(X)
    <3>1. IsFiniteSet(X) /\ Cardinality(X) \in Nat
      BY <2>1
    <3>2. Cardinality(Y) = Cardinality(X) - 1
      BY <2>5, <3>1, FS_RemoveElement
    <3> QED BY <3>1, <3>2
  <2>7. CASE Y = {}
    <3>1. Top(X, x)
      BY <2>7
    <3> QED BY <2>4, <3>1
  <2>8. ASSUME NEW v, Top(Y, v) PROVE FALSE
    <3>1. v \in X /\ x \in X /\ v \in Nat /\ x \in Nat
      BY <2>5, <2>8
    <3>2. Top(X, v) \/ Top(X, x)
      BY <2>8, <3>1
    <3> QED BY <2>4, <3>2
  <2>9. CASE Bad(Y)
    <3>1. Cardinality(Y) \in Sizes
      BY <2>6, <2>9
    <3>2. k <= Cardinality(Y) /\ Cardinality(Y) \in Nat /\ k \in Nat
      BY <2>1, <2>3, <2>4, <2>6, <3>1
    <3> HIDE DEF Y
    <3> QED BY <2>4, <2>6, <3>2
  <2> QED BY <2>7, <2>8, <2>9
<1>2. PICK v : Top(S, v)
  BY <1>1
<1> QED BY <1>2 DEF Max

(* What the invariant of the resolver is about: the catalog, the index     *)
(* (only who publishes changes it), the constraints recorded.              *)
TreeFields == {"resolved", "asked", "err", "calls"}
CallFields == {"how", "name", "pick", "deps"}
CatalogIs(cat) ==
    \A n \in DOMAIN cat : /\ DOMAIN cat[n] \subseteq Nat /\ IsFiniteSet(DOMAIN cat[n])
                          /\ \A v \in DOMAIN cat[n] : IsList(cat[n][v])
Sells(cat, ix, n, v) == n \in DOMAIN cat /\ v \in DOMAIN cat[n] /\ <<n, v>> \in DOMAIN ix
Allowed(asked, n, v) == \A q \in asked : q.name = n => v \in q.allowed
(* satisfiesAll, findHighestCompatible: while nothing is published nothing *)
(* higher would do.                                                        *)
Chosen(kind, cat, ix, asked, n, v) ==
    /\ Sells(cat, ix, n, v) /\ Allowed(asked, n, v)
    /\ kind = "resolve" => \A w \in Nat : Sells(cat, ix, n, w) /\ Allowed(asked, n, w) => w <= v
DepsOf(cat, n, v) == ToSet(cat[n][v])

CallIs(cat, c) ==
    /\ c.name \in DOMAIN cat /\ c.pick.version \in DOMAIN cat[c.name]
    /\ ToSet(c.deps) \subseteq DepsOf(cat, c.name, c.pick.version)
CallsAre(cat, calls) ==
    /\ IsList(calls)
    /\ \A i \in DOMAIN calls : /\ Fields(calls[i], CallFields) /\ IsList(calls[i].deps)
                               /\ calls[i].how \in {"tree", "find", "recheck"} /\ (calls[i].how = "tree" <=> i = 1)
                               /\ i # 1 => CallIs(cat, calls[i])
(* resolveTransitive: who is called is a dependency of who calls.          *)
Linked(cat, calls) ==
    \A i \in DOMAIN calls : i > 1 /\ i + 1 \in DOMAIN calls =>
        \E d \in DepsOf(cat, calls[i].name, calls[i].pick.version) : d.name = calls[i + 1].name
ResolvedFit(kind, cat, ix, resolved, asked) ==
    \A n \in DOMAIN resolved : Chosen(kind, cat, ix, asked, n, resolved[n].version)
FindsFit(kind, cat, ix, asked, calls) ==
    \A i \in DOMAIN calls : calls[i].how = "find" => Chosen(kind, cat, ix, asked, calls[i].name, calls[i].pick.version)
DepsSeen(cat, asked, calls) ==
    \A i \in DOMAIN calls : i # 1 => \A d \in DepsOf(cat, calls[i].name, calls[i].pick.version) : d \in asked \/ d \in ToSet(calls[i].deps)
AskedMet(resolved, asked, calls) ==
    \A q \in asked : q.name \in DOMAIN resolved \/ \E i \in DOMAIN calls : calls[i].how = "find" /\ calls[i].name = q.name
Rechecks(c, n, v, d) == c.how = "recheck" /\ c.name = n /\ c.pick.version = v /\ d \in ToSet(c.deps)
DepsAsked(cat, resolved, asked, calls) ==
    \A n \in DOMAIN resolved : \A d \in DepsOf(cat, n, resolved[n].version) :
        d \in asked \/ \E i \in DOMAIN calls : Rechecks(calls[i], n, resolved[n].version, d)
RootsAsked(roots, asked, calls) ==
    \A d \in ToSet(roots) : d \in asked \/ (1 \in DOMAIN calls /\ d \in ToSet(calls[1].deps))
Circle(cat) ==
    \E circle \in (SUBSET DOMAIN cat) \ {{}} :
        \A n \in circle : \E v \in DOMAIN cat[n] : \E d \in ToSet(cat[n][v]) : d.name \in circle
Resolver(kind, cat, ix, roots, resolved, asked, calls) ==
    /\ CallsAre(cat, calls) /\ Linked(cat, calls)
    /\ ResolvedFit(kind, cat, ix, resolved, asked) /\ FindsFit(kind, cat, ix, asked, calls)
    /\ DepsSeen(cat, asked, calls) /\ AskedMet(resolved, asked, calls) /\ DepsAsked(cat, resolved, asked, calls)
    /\ RootsAsked(roots, asked, calls)
TreeInv(kind, cat, ix, roots, tree) ==
    /\ Fields(tree, TreeFields)
    /\ tree.err = "none" => Resolver(kind, cat, ix, roots, tree.resolved, tree.asked, tree.calls)
    /\ tree.err # "none" => tree.calls = <<>>
    /\ tree.err = "cycle" => Circle(cat)

(* One more constraint, which v meets: v stays the one that is chosen.     *)
LEMMA ChosenStays ==
  ASSUME NEW kind, NEW cat, NEW ix, NEW asked, NEW n, NEW v, Chosen(kind, cat, ix, asked, n, v), NEW q, q.name = n => v \in q.allowed
  PROVE  Chosen(kind, cat, ix, asked \cup {q}, n, v)
BY DEF Chosen, Allowed

(* The call at work takes the next dependency.                             *)
TakenOf(calls) == Append(Front(calls), [Last(calls) EXCEPT !.deps = Tail(@)])
LEMMA TakenFacts ==
  ASSUME NEW cat, NEW calls, CallsAre(cat, calls), calls # <<>>, Last(calls).deps # <<>>
  PROVE  /\ CallsAre(cat, TakenOf(calls)) /\ DOMAIN TakenOf(calls) = DOMAIN calls /\ 1 \in DOMAIN calls
         /\ Len(calls) \in DOMAIN calls /\ DOMAIN calls = 1 .. Len(calls) /\ Len(calls) \in Nat /\ Last(calls) = calls[Len(calls)]
         /\ Head(Last(calls).deps) \in ToSet(Last(calls).deps)
         /\ \A i \in DOMAIN calls :
              /\ TakenOf(calls)[i].how = calls[i].how /\ TakenOf(calls)[i].name = calls[i].name
              /\ TakenOf(calls)[i].pick = calls[i].pick
              /\ \A d \in ToSet(calls[i].deps) : d \in ToSet(TakenOf(calls)[i].deps) \/ d = Head(Last(calls).deps)
<1>1. PICK C : calls \in Seq(C)
  BY DEF CallsAre, IsList
<1> DEFINE k == Len(calls)
           last == [Last(calls) EXCEPT !.deps = Tail(@)]
           front == Front(calls)
           taken == Append(front, last)
           w == Head(Last(calls).deps)
<1>2. /\ front \in Seq(C) /\ Len(front) = k - 1 /\ \A i \in 1 .. k - 1 : front[i] = calls[i]
      /\ Last(calls) \in C /\ Last(calls) = calls[k] /\ k \in Nat \ {0} /\ DOMAIN calls = 1 .. k
  BY <1>1, FrontFacts, SeqFacts
<1>3. /\ Fields(Last(calls), CallFields) /\ IsList(Last(calls).deps) /\ Last(calls).how \in {"tree", "find", "recheck"}
      /\ (Last(calls).how = "tree" <=> k = 1) /\ (k # 1 => CallIs(cat, Last(calls)))
  BY <1>2 DEF CallsAre
<1>4. PICK S : Last(calls).deps \in Seq(S)
  BY <1>3 DEF IsList
<1>5. Tail(Last(calls).deps) \in Seq(S) /\ ToSet(Last(calls).deps) = ToSet(Tail(Last(calls).deps)) \cup {w}
  BY <1>4, TailFacts
<1>6. /\ Fields(last, CallFields) /\ last.how = Last(calls).how /\ last.name = Last(calls).name /\ last.pick = Last(calls).pick
      /\ last.deps = Tail(Last(calls).deps)
  BY <1>3 DEF Fields, CallFields
<1> HIDE DEF last, front, k, w
<1>7. /\ taken \in Seq(C \cup {last}) /\ DOMAIN taken = 1 .. k /\ taken[k] = last /\ \A i \in 1 .. k - 1 : taken[i] = calls[i]
  <2>1. front \in Seq(C \cup {last})
    BY <1>2
  <2>2. /\ taken \in Seq(C \cup {last}) /\ DOMAIN taken = 1 .. (k - 1) + 1 /\ taken[(k - 1) + 1] = last
        /\ \A i \in 1 .. k - 1 : taken[i] = front[i]
    BY <1>2, <2>1, AppendFacts
  <2>3. (k - 1) + 1 = k
    BY <1>2
  <2> QED BY <1>2, <2>2, <2>3
<1> HIDE DEF taken
<1>8. \A i \in 1 .. k : i = k \/ i \in 1 .. k - 1
  BY <1>2
<1>9. \A i \in 1 .. k :
        /\ taken[i].how = calls[i].how /\ taken[i].name = calls[i].name /\ taken[i].pick = calls[i].pick
        /\ \A d \in ToSet(calls[i].deps) : d \in ToSet(taken[i].deps) \/ d = w
  BY <1>2, <1>5, <1>6, <1>7, <1>8
<1>10. CallsAre(cat, taken)
  <2>1. CallIs(cat, Last(calls)) => CallIs(cat, last)
    BY <1>5, <1>6 DEF CallIs
  <2>2. ASSUME NEW i \in 1 .. k
        PROVE  /\ Fields(taken[i], CallFields) /\ IsList(taken[i].deps)
               /\ taken[i].how \in {"tree", "find", "recheck"} /\ (taken[i].how = "tree" <=> i = 1)
               /\ i # 1 => CallIs(cat, taken[i])
    <3>1. CASE i = k
      <4>1. IsList(last.deps)
        BY <1>5, <1>6 DEF IsList
      <4> QED BY <1>3, <1>6, <1>7, <2>1, <3>1, <4>1
    <3>2. CASE i \in 1 .. k - 1
      BY <1>2, <1>7, <3>2 DEF CallsAre
    <3> QED BY <1>8, <3>1, <3>2
  <2>3. IsList(taken)
    BY <1>7 DEF IsList
  <2> QED BY <1>7, <2>2, <2>3 DEF CallsAre
<1>11. w \in ToSet(Last(calls).deps) /\ 1 \in 1 .. k /\ k \in 1 .. k
  BY <1>2, <1>5
<1>12. TakenOf(calls) = taken
  BY DEF TakenOf, taken, front, last
<1> QED BY <1>2, <1>7, <1>9, <1>10, <1>11, <1>12 DEF k, w

(* resolveTransitive records the constraint: what holds of the calls and   *)
(* of what is resolved holds for one constraint more, when it is not for a *)
(* package that is being resolved.                                         *)
LEMMA TakesNext ==
  ASSUME NEW kind, NEW cat, NEW ix, NEW roots, NEW resolved, NEW asked, NEW calls,
         Resolver(kind, cat, ix, roots, resolved, asked, calls), calls # <<>>, Last(calls).deps # <<>>,
         \A i \in DOMAIN calls : calls[i].how = "find" => calls[i].name # Head(Last(calls).deps).name
  PROVE  LET now == asked \cup {Head(Last(calls).deps)}
         IN  /\ CallsAre(cat, TakenOf(calls)) /\ Linked(cat, TakenOf(calls))
             /\ FindsFit(kind, cat, ix, now, TakenOf(calls)) /\ DepsSeen(cat, now, TakenOf(calls))
             /\ RootsAsked(roots, now, TakenOf(calls)) /\ AskedMet(resolved, asked, TakenOf(calls))
             /\ DepsAsked(cat, resolved, now, TakenOf(calls))
<1> DEFINE taken == TakenOf(calls)
           w == Head(Last(calls).deps)
           now == asked \cup {w}
<1>1. /\ CallsAre(cat, calls) /\ Linked(cat, calls) /\ FindsFit(kind, cat, ix, asked, calls) /\ DepsSeen(cat, asked, calls)
      /\ AskedMet(resolved, asked, calls) /\ DepsAsked(cat, resolved, asked, calls) /\ RootsAsked(roots, asked, calls)
  BY DEF Resolver
<1>2. /\ CallsAre(cat, taken) /\ DOMAIN taken = DOMAIN calls
      /\ \A i \in DOMAIN calls :
              /\ taken[i].how = calls[i].how /\ taken[i].name = calls[i].name /\ taken[i].pick = calls[i].pick
              /\ \A d \in ToSet(calls[i].deps) : d \in ToSet(taken[i].deps) \/ d = w
  <2>1. CallsAre(cat, calls)
    BY <1>1
  <2>2. CallsAre(cat, TakenOf(calls)) /\ DOMAIN TakenOf(calls) = DOMAIN calls
    BY <2>1, TakenFacts, Zenon
  <2>3. ASSUME NEW i \in DOMAIN calls
        PROVE  /\ TakenOf(calls)[i].how = calls[i].how /\ TakenOf(calls)[i].name = calls[i].name
               /\ TakenOf(calls)[i].pick = calls[i].pick
    <3>1. TakenOf(calls)[i].how = calls[i].how
      BY <2>1, TakenFacts, Zenon
    <3>2. TakenOf(calls)[i].name = calls[i].name
      BY <2>1, TakenFacts, Zenon
    <3>3. TakenOf(calls)[i].pick = calls[i].pick
      BY <2>1, TakenFacts, Zenon
    <3> QED BY <3>1, <3>2, <3>3
  <2>4. ASSUME NEW i \in DOMAIN calls, NEW d \in ToSet(calls[i].deps)
        PROVE  d \in ToSet(TakenOf(calls)[i].deps) \/ d = w
    BY <2>1, TakenFacts, Zenon
  <2> HIDE DEF w
  <2> QED BY <2>2, <2>3, <2>4
<1> HIDE DEF taken
<1>3. Linked(cat, taken)
  BY <1>1, <1>2 DEF Linked
<1>4. FindsFit(kind, cat, ix, now, taken)
  <2> SUFFICES ASSUME NEW i \in DOMAIN calls, calls[i].how = "find"
               PROVE  Chosen(kind, cat, ix, now, calls[i].name, calls[i].pick.version)
    BY <1>2 DEF FindsFit
  <2> HIDE DEF w
  <2>1. Chosen(kind, cat, ix, asked, calls[i].name, calls[i].pick.version) /\ w.name # calls[i].name
    BY <1>1 DEF FindsFit, w
  <2> QED BY <2>1, ChosenStays
<1> HIDE DEF w
<1>5. DepsSeen(cat, now, taken)
  BY <1>1, <1>2 DEF DepsSeen
<1>6. RootsAsked(roots, now, taken)
  BY <1>1, <1>2 DEF RootsAsked
<1>7. AskedMet(resolved, asked, taken)
  BY <1>1, <1>2 DEF AskedMet
<1>8. DepsAsked(cat, resolved, now, taken)
  BY <1>1, <1>2 DEF DepsAsked, Rechecks
<1> QED BY <1>2, <1>3, <1>4, <1>5, <1>6, <1>7, <1>8 DEF taken, w

(* A version that fits stays.                                              *)
LEMMA FittingStays ==
  ASSUME NEW kind, NEW cat, NEW ix, NEW roots, NEW resolved, NEW asked, NEW calls,
         Resolver(kind, cat, ix, roots, resolved, asked, calls), calls # <<>>, Last(calls).deps # <<>>,
         \A i \in DOMAIN calls : calls[i].how = "find" => calls[i].name # Head(Last(calls).deps).name,
         Head(Last(calls).deps).name \in DOMAIN resolved,
         resolved[Head(Last(calls).deps).name].version \in Head(Last(calls).deps).allowed
  PROVE  Resolver(kind, cat, ix, roots, resolved, asked \cup {Head(Last(calls).deps)}, TakenOf(calls))
<1> DEFINE w == Head(Last(calls).deps)
           taken == TakenOf(calls)
           now == asked \cup {w}
<1>1. /\ CallsAre(cat, taken) /\ Linked(cat, taken) /\ FindsFit(kind, cat, ix, now, taken) /\ DepsSeen(cat, now, taken)
      /\ RootsAsked(roots, now, taken) /\ AskedMet(resolved, asked, taken) /\ DepsAsked(cat, resolved, now, taken)
  BY TakesNext
<1>2. ResolvedFit(kind, cat, ix, resolved, asked) /\ w.name \in DOMAIN resolved /\ resolved[w.name].version \in w.allowed
  BY DEF Resolver
<1> HIDE DEF w, taken
<1>3. ResolvedFit(kind, cat, ix, resolved, now)
  BY <1>2, ChosenStays DEF ResolvedFit
<1>4. AskedMet(resolved, now, taken)
  BY <1>1, <1>2 DEF AskedMet
<1> QED BY <1>1, <1>3, <1>4 DEF Resolver, w, taken

(* A call that is opened.                                                  *)
LEMMA OpensFacts ==
  ASSUME NEW cat, NEW taken, CallsAre(cat, taken), Linked(cat, taken), taken # <<>>,
         NEW c, Fields(c, CallFields), c.how \in {"find", "recheck"}, IsList(c.deps), CallIs(cat, c),
         Last(taken).how # "tree" => \E d \in DepsOf(cat, Last(taken).name, Last(taken).pick.version) : d.name = c.name
  PROVE  /\ CallsAre(cat, Append(taken, c)) /\ Linked(cat, Append(taken, c))
         /\ Len(taken) \in Nat \ {0} /\ DOMAIN taken = 1 .. Len(taken) /\ DOMAIN Append(taken, c) = 1 .. Len(taken) + 1
         /\ Append(taken, c)[Len(taken) + 1] = c /\ \A i \in DOMAIN taken : Append(taken, c)[i] = taken[i]
<1>1. PICK C : taken \in Seq(C)
  BY DEF CallsAre, IsList
<1>2. taken \in Seq(C \cup {c})
  BY <1>1
<1> DEFINE calls == Append(taken, c)
           k == Len(taken)
<1>3. /\ calls \in Seq(C \cup {c}) /\ k \in Nat \ {0} /\ DOMAIN calls = 1 .. k + 1 /\ DOMAIN taken = 1 .. k
      /\ calls[k + 1] = c /\ \A i \in 1 .. k : calls[i] = taken[i]
  BY <1>2, AppendFacts, EmptySeq
<1>4. Last(taken) = taken[k]
  BY DEF Last
<1> HIDE DEF calls, k
<1>5. \A i \in 1 .. k + 1 : i = k + 1 \/ i \in 1 .. k
  BY <1>3
<1>6. CallsAre(cat, calls)
  <2>1. ASSUME NEW i \in 1 .. k + 1
        PROVE  /\ Fields(calls[i], CallFields) /\ IsList(calls[i].deps)
               /\ calls[i].how \in {"tree", "find", "recheck"} /\ (calls[i].how = "tree" <=> i = 1)
               /\ i # 1 => CallIs(cat, calls[i])
    <3>1. CASE i = k + 1
      BY <1>3, <3>1
    <3>2. CASE i \in 1 .. k
      BY <1>3, <3>2 DEF CallsAre
    <3> QED BY <1>5, <3>1, <3>2
  <2>2. IsList(calls)
    BY <1>3 DEF IsList
  <2> QED BY <1>3, <2>1, <2>2 DEF CallsAre
<1>7. Linked(cat, calls)
  <2> SUFFICES ASSUME NEW i \in 1 .. k, i > 1
               PROVE  \E d \in DepsOf(cat, calls[i].name, calls[i].pick.version) : d.name = calls[i + 1].name
    BY <1>3 DEF Linked
  <2>1. CASE i = k
    <3>1. Last(taken).how # "tree"
      BY <1>3, <1>4, <2>1 DEF CallsAre
    <3> QED BY <1>3, <1>4, <2>1, <3>1
  <2>2. CASE i \in 1 .. k - 1
    <3>1. i + 1 \in 1 .. k
      BY <1>3, <2>2
    <3> QED BY <1>3, <2>2, <3>1 DEF Linked
  <2> QED BY <1>3, <2>1, <2>2
<1> QED BY <1>3, <1>6, <1>7 DEF calls, k

(* findAndResolveDep, recheckExistingResolution: the version that is picked *)
(* is the one that is chosen, and its dependencies are all still to come.  *)
LEMMA PickOpens ==
  ASSUME NEW kind, NEW cat, NEW ix, NEW roots, NEW resolved, NEW asked, NEW calls, CatalogIs(cat),
         Resolver(kind, cat, ix, roots, resolved, asked, calls), calls # <<>>, Last(calls).deps # <<>>,
         \A i \in DOMAIN calls : calls[i].how = "find" => calls[i].name # Head(Last(calls).deps).name,
         NEW how \in {"find", "recheck"}, how = "find" <=> Head(Last(calls).deps).name \notin DOMAIN resolved, NEW pick,
         Chosen(kind, cat, ix, asked \cup {Head(Last(calls).deps)}, Head(Last(calls).deps).name, pick.version)
  PROVE  LET w == Head(Last(calls).deps)
         IN  Resolver(kind, cat, ix, roots, IF how = "recheck" THEN Put(resolved, w.name, pick) ELSE resolved, asked \cup {w},
                      Append(TakenOf(calls), Through(how, w.name, pick, cat[w.name][pick.version])))
<1> DEFINE w == Head(Last(calls).deps)
           v == pick.version
           taken == TakenOf(calls)
           now == asked \cup {w}
           c == Through(how, w.name, pick, cat[w.name][v])
           then == IF how = "recheck" THEN Put(resolved, w.name, pick) ELSE resolved
           opened == Append(taken, c)
           k == Len(taken)
<1>1. /\ CallsAre(cat, taken) /\ Linked(cat, taken) /\ FindsFit(kind, cat, ix, now, taken) /\ DepsSeen(cat, now, taken)
      /\ RootsAsked(roots, now, taken) /\ AskedMet(resolved, asked, taken) /\ DepsAsked(cat, resolved, now, taken)
  BY TakesNext
<1>2. ResolvedFit(kind, cat, ix, resolved, asked) /\ (how = "find" <=> w.name \notin DOMAIN resolved)
  BY DEF Resolver
<1>3. Chosen(kind, cat, ix, now, w.name, v) /\ w.name \in DOMAIN cat /\ v \in DOMAIN cat[w.name] /\ IsList(cat[w.name][v])
  BY DEF Chosen, Sells, CatalogIs
<1>4. /\ Fields(c, CallFields) /\ c.how = how /\ c.name = w.name /\ c.pick = pick /\ c.deps = cat[w.name][v]
  BY DEF Through, Fields, CallFields
<1>5. CallIs(cat, c) /\ IsList(c.deps) /\ ToSet(c.deps) = DepsOf(cat, w.name, v)
  BY <1>3, <1>4 DEF CallIs, DepsOf
<1>6. taken # <<>> /\ (Last(taken).how # "tree" => \E d \in DepsOf(cat, Last(taken).name, Last(taken).pick.version) : d.name = w.name)
  <2>1. /\ DOMAIN taken = 1 .. Len(calls) /\ Len(calls) \in Nat /\ Len(calls) \in 1 .. Len(calls) /\ w \in ToSet(Last(calls).deps)
        /\ Last(calls) = calls[Len(calls)] /\ DOMAIN calls = 1 .. Len(calls) /\ CallsAre(cat, calls)
        /\ taken[Len(calls)].how = calls[Len(calls)].how /\ taken[Len(calls)].name = calls[Len(calls)].name
        /\ taken[Len(calls)].pick = calls[Len(calls)].pick
    BY TakenFacts DEF Resolver
  <2>2. Len(taken) \in Nat /\ DOMAIN taken = 1 .. Len(taken)
    BY <1>1, SeqFacts DEF CallsAre, IsList
  <2>3. Len(taken) = Len(calls)
    BY <2>1, <2>2
  <2>4. Last(taken) = taken[Len(calls)]
    BY <2>3 DEF Last
  <2>5. calls[Len(calls)].how # "tree" => CallIs(cat, calls[Len(calls)])
    BY <2>1 DEF CallsAre
  <2>6. taken # <<>>
    BY <2>1
  <2> QED BY <2>1, <2>4, <2>5, <2>6 DEF CallIs
<1> HIDE DEF w, taken, c, now, v
<1>7. /\ CallsAre(cat, opened) /\ Linked(cat, opened)
      /\ k \in Nat \ {0} /\ DOMAIN taken = 1 .. k /\ DOMAIN opened = 1 .. k + 1
      /\ opened[k + 1] = c /\ \A i \in DOMAIN taken : opened[i] = taken[i]
  BY <1>1, <1>4, <1>5, <1>6, OpensFacts
<1> HIDE DEF opened, k
<1>8. /\ DOMAIN then = DOMAIN resolved \cup (IF how = "recheck" THEN {w.name} ELSE {})
      /\ \A n \in DOMAIN resolved : n # w.name => then[n] = resolved[n]
      /\ how = "recheck" => then[w.name] = pick
  BY DEF Put
<1> HIDE DEF then
<1>9. ResolvedFit(kind, cat, ix, then, now)
  <2> SUFFICES ASSUME NEW n \in DOMAIN then
               PROVE  Chosen(kind, cat, ix, now, n, then[n].version)
    BY DEF ResolvedFit
  <2>1. CASE n = w.name
    <3>1. how = "recheck"
      BY <1>2, <1>8, <2>1
    <3> QED BY <1>3, <1>8, <2>1, <3>1 DEF v
  <2>2. CASE n # w.name
    <3>1. n \in DOMAIN resolved /\ then[n] = resolved[n]
      BY <1>8, <2>2
    <3>2. Chosen(kind, cat, ix, asked, n, resolved[n].version)
      BY <1>2, <3>1 DEF ResolvedFit
    <3>3. Chosen(kind, cat, ix, asked \cup {w}, n, resolved[n].version)
      BY <2>2, <3>2, ChosenStays
    <3> QED BY <3>1, <3>3 DEF now
  <2> QED BY <2>1, <2>2
<1>10. \A i \in DOMAIN opened : i = k + 1 \/ i \in DOMAIN taken
  BY <1>7
<1>11. FindsFit(kind, cat, ix, now, opened)
  <2>1. Chosen(kind, cat, ix, now, c.name, c.pick.version)
    BY <1>3, <1>4 DEF v
  <2> QED BY <1>1, <1>7, <1>10, <2>1 DEF FindsFit
<1>12. DepsSeen(cat, now, opened)
  <2>1. \A d \in DepsOf(cat, c.name, c.pick.version) : d \in ToSet(c.deps)
    BY <1>4, <1>5 DEF v
  <2> QED BY <1>1, <1>7, <1>10, <2>1 DEF DepsSeen
<1>13. RootsAsked(roots, now, opened)
  BY <1>1, <1>7 DEF RootsAsked
<1>14. AskedMet(then, now, opened)
  <2>1. \A q \in now : q \in asked \/ q = w
    BY DEF now
  <2>2. w.name \in DOMAIN then \/ (k + 1 \in DOMAIN opened /\ opened[k + 1].how = "find" /\ opened[k + 1].name = w.name)
    BY <1>4, <1>7, <1>8
  <2>3. ASSUME NEW q \in asked
        PROVE  q.name \in DOMAIN then \/ \E i \in DOMAIN opened : opened[i].how = "find" /\ opened[i].name = q.name
    <3>1. CASE q.name \in DOMAIN resolved
      BY <1>8, <3>1
    <3>2. ASSUME NEW i \in DOMAIN taken, taken[i].how = "find", taken[i].name = q.name
          PROVE  \E j \in DOMAIN opened : opened[j].how = "find" /\ opened[j].name = q.name
      BY <1>7, <3>2
    <3> QED BY <1>1, <3>1, <3>2 DEF AskedMet
  <2> QED BY <2>1, <2>2, <2>3 DEF AskedMet
<1>15. DepsAsked(cat, then, now, opened)
  <2> SUFFICES ASSUME NEW n \in DOMAIN then, NEW d \in DepsOf(cat, n, then[n].version)
               PROVE  d \in now \/ \E i \in DOMAIN opened : Rechecks(opened[i], n, then[n].version, d)
    BY DEF DepsAsked
  <2>1. CASE n = w.name
    <3>1. how = "recheck"
      BY <1>2, <1>8, <2>1
    <3>2. then[n].version = v
      BY <1>8, <2>1, <3>1 DEF v
    <3>3. Rechecks(c, n, then[n].version, d)
      BY <1>4, <1>5, <2>1, <3>1, <3>2 DEF Rechecks, v
    <3> QED BY <1>7, <3>3
  <2>2. CASE n # w.name
    <3>1. n \in DOMAIN resolved /\ then[n] = resolved[n]
      BY <1>8, <2>2
    <3>2. d \in now \/ \E i \in DOMAIN taken : Rechecks(taken[i], n, resolved[n].version, d)
      BY <1>1, <3>1 DEF DepsAsked
    <3> QED BY <1>7, <3>1, <3>2
  <2> QED BY <2>1, <2>2
<1>16. Resolver(kind, cat, ix, roots, then, now, opened)
  BY <1>7, <1>9, <1>11, <1>12, <1>13, <1>14, <1>15 DEF Resolver
<1> QED BY <1>16 DEF w, now, taken, v, c, then, opened

(* A call that has gone through its dependencies leaves none unrecorded;   *)
(* what was found counts as resolved then.                                 *)
LEMMA CallCloses ==
  ASSUME NEW kind, NEW cat, NEW ix, NEW roots, NEW resolved, NEW asked, NEW calls,
         Resolver(kind, cat, ix, roots, resolved, asked, calls), calls # <<>>, Last(calls).deps = <<>>
  PROVE  Resolver(kind, cat, ix, roots, IF Last(calls).how = "find" THEN Put(resolved, Last(calls).name, Last(calls).pick) ELSE resolved,
                  asked, Front(calls))
<1> DEFINE c == Last(calls)
           k == Len(calls)
           left == Front(calls)
           then == IF c.how = "find" THEN Put(resolved, c.name, c.pick) ELSE resolved
<1>1. /\ CallsAre(cat, calls) /\ Linked(cat, calls) /\ FindsFit(kind, cat, ix, asked, calls) /\ DepsSeen(cat, asked, calls)
      /\ ResolvedFit(kind, cat, ix, resolved, asked)
      /\ AskedMet(resolved, asked, calls) /\ DepsAsked(cat, resolved, asked, calls) /\ RootsAsked(roots, asked, calls)
  BY DEF Resolver
<1>2. PICK C : calls \in Seq(C)
  BY <1>1 DEF CallsAre, IsList
<1>3. /\ left \in Seq(C) /\ DOMAIN left = 1 .. k - 1 /\ \A i \in 1 .. k - 1 : left[i] = calls[i]
      /\ c = calls[k] /\ k \in Nat \ {0} /\ DOMAIN calls = 1 .. k
  <2>1. /\ left \in Seq(C) /\ Len(left) = k - 1 /\ \A i \in 1 .. k - 1 : left[i] = calls[i]
        /\ c = calls[k] /\ k \in Nat \ {0}
    BY <1>2, FrontFacts
  <2>2. DOMAIN left = 1 .. Len(left) /\ DOMAIN calls = 1 .. k
    BY <1>2, <2>1, SeqFacts
  <2> QED BY <2>1, <2>2
<1>4. ToSet(c.deps) = {}
  BY DEF ToSet
<1> HIDE DEF left, c, k
<1>5. (\A i \in 1 .. k : i = k \/ i \in 1 .. k - 1) /\ \A i \in 1 .. k - 1 : i \in 1 .. k
  BY <1>3
<1>6. CallsAre(cat, left)
  <2>1. IsList(left)
    BY <1>3 DEF IsList
  <2> QED BY <1>1, <1>3, <1>5, <2>1 DEF CallsAre
<1>7. Linked(cat, left) /\ FindsFit(kind, cat, ix, asked, left) /\ DepsSeen(cat, asked, left)
  BY <1>1, <1>3, <1>5 DEF Linked, FindsFit, DepsSeen
<1>8. /\ DOMAIN then = DOMAIN resolved \cup (IF c.how = "find" THEN {c.name} ELSE {})
      /\ \A n \in DOMAIN resolved : n # c.name \/ c.how # "find" => then[n] = resolved[n]
      /\ c.how = "find" => then[c.name] = c.pick
  BY DEF Put
<1> HIDE DEF then
<1>9. \A n \in DOMAIN then : (c.how = "find" /\ n = c.name) \/ (n \in DOMAIN resolved /\ then[n] = resolved[n])
  BY <1>8
<1>10. ResolvedFit(kind, cat, ix, then, asked)
  <2>1. c.how = "find" => Chosen(kind, cat, ix, asked, c.name, c.pick.version)
    BY <1>1, <1>3 DEF FindsFit
  <2> QED BY <1>1, <1>8, <1>9, <2>1 DEF ResolvedFit
<1>11. AskedMet(then, asked, left)
  <2> SUFFICES ASSUME NEW q \in asked
               PROVE  q.name \in DOMAIN then \/ \E i \in DOMAIN left : left[i].how = "find" /\ left[i].name = q.name
    BY DEF AskedMet
  <2>1. CASE q.name \in DOMAIN resolved
    BY <1>8, <2>1
  <2>2. ASSUME NEW i \in DOMAIN calls, calls[i].how = "find", calls[i].name = q.name
        PROVE  q.name \in DOMAIN then \/ \E j \in DOMAIN left : left[j].how = "find" /\ left[j].name = q.name
    <3>1. CASE i = k
      BY <1>3, <1>8, <2>2, <3>1
    <3>2. CASE i \in 1 .. k - 1
      BY <1>3, <2>2, <3>2
    <3> QED BY <1>3, <1>5, <3>1, <3>2
  <2> QED BY <1>1, <2>1, <2>2 DEF AskedMet
<1>12. DepsAsked(cat, then, asked, left)
  <2> SUFFICES ASSUME NEW n \in DOMAIN then, NEW d \in DepsOf(cat, n, then[n].version), d \notin asked
               PROVE  \E i \in DOMAIN left : Rechecks(left[i], n, then[n].version, d)
    BY DEF DepsAsked
  <2>1. ~(c.how = "find" /\ n = c.name)
    <3> SUFFICES ASSUME c.how = "find", n = c.name PROVE FALSE
      OBVIOUS
    <3>1. k # 1 /\ k \in DOMAIN calls
      BY <1>1, <1>3 DEF CallsAre
    <3>2. d \in DepsOf(cat, calls[k].name, calls[k].pick.version)
      BY <1>3, <1>8
    <3> QED BY <1>1, <1>3, <1>4, <3>1, <3>2 DEF DepsSeen
  <2>2. n \in DOMAIN resolved /\ then[n] = resolved[n]
    BY <1>9, <2>1
  <2>3. PICK i \in DOMAIN calls : Rechecks(calls[i], n, resolved[n].version, d)
    BY <1>1, <2>2 DEF DepsAsked
  <2>4. i # k
    BY <1>3, <1>4, <2>3 DEF Rechecks
  <2> QED BY <1>3, <1>5, <2>2, <2>3, <2>4
<1>13. RootsAsked(roots, asked, left)
  <2>1. ASSUME NEW d \in ToSet(roots), d \notin asked
        PROVE  1 \in DOMAIN left /\ d \in ToSet(left[1].deps)
    <3>1. 1 \in DOMAIN calls /\ d \in ToSet(calls[1].deps)
      BY <1>1, <2>1 DEF RootsAsked
    <3>2. k # 1
      BY <1>3, <1>4, <3>1
    <3> QED BY <1>3, <3>1, <3>2
  <2> QED BY <2>1 DEF RootsAsked
<1>14. Resolver(kind, cat, ix, roots, then, asked, left)
  BY <1>6, <1>7, <1>10, <1>11, <1>12, <1>13 DEF Resolver
<1> QED BY <1>14 DEF then, c, left

(* resolveTransitive: a package met while it is being resolved closes a    *)
(* circle, of the packages from its call on.                               *)
LEMMA CycleFound ==
  ASSUME NEW kind, NEW cat, NEW ix, NEW roots, NEW resolved, NEW asked, NEW calls,
         Resolver(kind, cat, ix, roots, resolved, asked, calls), calls # <<>>, Last(calls).deps # <<>>,
         NEW j \in DOMAIN calls, calls[j].how = "find", calls[j].name = Head(Last(calls).deps).name
  PROVE  Circle(cat)
<1> DEFINE w == Head(Last(calls).deps)
           k == Len(calls)
           circle == {calls[i].name : i \in j .. k}
<1>1. CallsAre(cat, calls) /\ Linked(cat, calls)
  BY DEF Resolver
<1>2. k \in Nat /\ DOMAIN calls = 1 .. k /\ Last(calls) = calls[k] /\ w \in ToSet(calls[k].deps) /\ j # 1
  <2>1. j # 1
    BY <1>1 DEF CallsAre
  <2>2. k \in Nat /\ DOMAIN calls = 1 .. k /\ Last(calls) = calls[k] /\ w \in ToSet(Last(calls).deps)
    BY <1>1, TakenFacts
  <2> QED BY <2>1, <2>2
<1> HIDE DEF k
<1>3. \A i \in j .. k : i \in DOMAIN calls /\ i > 1 /\ i # 1 /\ (i = k \/ i + 1 \in j .. k)
  BY <1>2
<1>4. \A i \in j .. k : CallIs(cat, calls[i])
  BY <1>1, <1>3 DEF CallsAre
<1>5. calls[j].name = w.name
  OBVIOUS
<1> HIDE DEF w
<1>6. circle \in (SUBSET DOMAIN cat) \ {{}}
  <2>1. j \in j .. k
    BY <1>2
  <2> QED BY <1>4, <2>1 DEF CallIs
<1>7. ASSUME NEW i \in j .. k
      PROVE  \E v \in DOMAIN cat[calls[i].name] : \E d \in ToSet(cat[calls[i].name][v]) : d.name \in circle
  <2>1. calls[i].pick.version \in DOMAIN cat[calls[i].name]
    BY <1>4 DEF CallIs
  <2>2. \E d \in DepsOf(cat, calls[i].name, calls[i].pick.version) : d.name \in circle
    <3>1. CASE i = k
      <4>1. w \in DepsOf(cat, calls[i].name, calls[i].pick.version)
        BY <1>2, <1>4, <3>1 DEF CallIs
      <4>2. w.name \in circle
        BY <1>2, <1>5
      <4> QED BY <4>1, <4>2
    <3>2. CASE i + 1 \in j .. k
      <4>1. \E d \in DepsOf(cat, calls[i].name, calls[i].pick.version) : d.name = calls[i + 1].name
        BY <1>1, <1>3, <3>2 DEF Linked
      <4> QED BY <3>2, <4>1
    <3> QED BY <1>3, <3>1, <3>2
  <2> QED BY <2>1, <2>2 DEF DepsOf
<1>8. \A n \in circle : \E v \in DOMAIN cat[n] : \E d \in ToSet(cat[n][v]) : d.name \in circle
  BY <1>7
<1> HIDE DEF circle
<1> QED BY <1>6, <1>8 DEF Circle

(* The steps of the resolver, in a task of either kind.                    *)
ResolveFields == {"kind", "pc", "catalog", "roots", "index", "tree"}
PackagesFields == {"kind", "pc", "catalog", "index", "roots", "tree", "lock", "packages", "op", "turns"}
ResolverShape ==
    /\ task.kind \in {"resolve", "packages"} /\ CatalogIs(task.catalog)
    /\ task.kind = "resolve" => Fields(task, ResolveFields)
    /\ task.kind = "packages" => Fields(task, PackagesFields)
TreeMoves(tree) ==
    /\ task'.tree = tree /\ task'.kind = task.kind /\ task'.pc = task.pc /\ task'.catalog = task.catalog
    /\ task'.roots = task.roots /\ task'.index = task.index
    /\ task.kind = "resolve" => Fields(task', ResolveFields)
    /\ task.kind = "packages" => /\ Fields(task', PackagesFields) /\ task'.lock = task.lock /\ task'.packages = task.packages
                                 /\ task'.op = task.op /\ task'.turns = task.turns
LEMMA TreeMoved ==
  ASSUME ResolverShape, NEW tree, task' = [task EXCEPT !.tree = tree]
  PROVE  TreeMoves(tree)
<1>1. CASE task.kind = "resolve"
  BY <1>1 DEF ResolverShape, TreeMoves, Fields, ResolveFields
<1>2. CASE task.kind = "packages"
  BY <1>2 DEF ResolverShape, TreeMoves, Fields, PackagesFields
<1> QED BY <1>1, <1>2 DEF ResolverShape

LEMMA GoesOnMeans ==
  ASSUME ResolverShape, Fields(task.tree, TreeFields), NEW resolved, NEW calls, GoesOn(resolved, calls)
  PROVE  \E tree : /\ TreeMoves(tree) /\ Fields(tree, TreeFields) /\ tree.err = task.tree.err /\ tree.resolved = resolved
                   /\ tree.asked = AskedNow /\ tree.calls = calls
<1> DEFINE asked == AskedNow
           tree == [task.tree EXCEPT !.resolved = resolved, !.asked = asked, !.calls = calls]
<1>1. task' = [task EXCEPT !.tree = tree]
  <2>1. task' = [task EXCEPT !.tree.resolved = resolved, !.tree.asked = asked, !.tree.calls = calls]
    BY DEF GoesOn
  <2> HIDE DEF asked
  <2>2. CASE task.kind = "resolve"
    BY <2>1, <2>2 DEF ResolverShape, Fields, ResolveFields
  <2>3. CASE task.kind = "packages"
    BY <2>1, <2>3 DEF ResolverShape, Fields, PackagesFields
  <2> QED BY <2>2, <2>3 DEF ResolverShape
<1>2. Fields(tree, TreeFields) /\ tree.err = task.tree.err /\ tree.resolved = resolved /\ tree.asked = asked /\ tree.calls = calls
  <2> HIDE DEF asked
  <2> QED BY DEF Fields, TreeFields
<1> HIDE DEF tree
<1> QED BY <1>1, <1>2, TreeMoved

LEMMA GivesUpMeans ==
  ASSUME ResolverShape, Fields(task.tree, TreeFields), NEW err, GivesUp(err)
  PROVE  \E tree : TreeMoves(tree) /\ Fields(tree, TreeFields) /\ tree.err = err /\ tree.calls = <<>>
<1> DEFINE tree == [task.tree EXCEPT !.err = err, !.calls = <<>>]
<1>1. task' = [task EXCEPT !.tree = tree]
  <2>1. CASE task.kind = "resolve"
    BY <2>1 DEF GivesUp, ResolverShape, Fields, ResolveFields
  <2>2. CASE task.kind = "packages"
    BY <2>2 DEF GivesUp, ResolverShape, Fields, PackagesFields
  <2> QED BY <2>1, <2>2 DEF ResolverShape
<1>2. Fields(tree, TreeFields) /\ tree.err = err /\ tree.calls = <<>>
  BY DEF Fields, TreeFields
<1> HIDE DEF tree
<1> QED BY <1>1, <1>2, TreeMoved

(* The tree of a task, and what a step makes of it.                        *)
TreeIs(roots, tree) == TreeInv(task.kind, task.catalog, task.index, roots, tree)
LEMMA TreeWorks ==
  ASSUME NEW roots, TreeIs(roots, task.tree), ResolverWorks
  PROVE  /\ task.tree.err = "none" /\ task.tree.calls # <<>> /\ Fields(task.tree, TreeFields)
         /\ Resolver(task.kind, task.catalog, task.index, roots, task.tree.resolved, task.tree.asked, task.tree.calls)
BY DEF TreeIs, TreeInv, ResolverWorks, Tree

LEMMA GivesUpStep ==
  ASSUME ResolverShape, NEW roots, TreeIs(roots, task.tree), ResolverWorks, NEW err, err # "none", err = "cycle" => Circle(task.catalog),
         GivesUp(err)
  PROVE  \E tree : TreeMoves(tree) /\ TreeIs(roots, tree)
<1>1. PICK tree : TreeMoves(tree) /\ Fields(tree, TreeFields) /\ tree.err = err /\ tree.calls = <<>>
  BY TreeWorks, GivesUpMeans
<1> QED BY <1>1 DEF TreeIs, TreeInv

LEMMA GoesOnStep ==
  ASSUME ResolverShape, NEW roots, TreeIs(roots, task.tree), ResolverWorks, NEW resolved, NEW calls, GoesOn(resolved, calls),
         Resolver(task.kind, task.catalog, task.index, roots, resolved, AskedNow, calls)
  PROVE  \E tree : TreeMoves(tree) /\ TreeIs(roots, tree)
<1>1. PICK tree : /\ TreeMoves(tree) /\ Fields(tree, TreeFields) /\ tree.err = task.tree.err /\ tree.resolved = resolved
                  /\ tree.asked = AskedNow /\ tree.calls = calls
  BY TreeWorks, GoesOnMeans
<1>2. tree.err = "none"
  BY <1>1, TreeWorks
<1> QED BY <1>1, <1>2 DEF TreeIs, TreeInv

(* findHighestCompatible: the highest version that all the constraints     *)
(* recorded allow.                                                         *)
LEMMA CandidatesFacts ==
  ASSUME ResolverShape, NEW asked, NEW dep, Candidates(asked, dep) # {}
  PROVE  Chosen(task.kind, task.catalog, task.index, asked, dep.name, Max(Candidates(asked, dep)))
<1> DEFINE found == Candidates(asked, dep)
<1>1. \A v : v \in found <=> Sells(task.catalog, task.index, dep.name, v) /\ Allowed(asked, dep.name, v)
  <2>1. \A v : v \in Published(dep.name) <=> Sells(task.catalog, task.index, dep.name, v)
    BY DEF Published, Sells
  <2> QED BY <2>1 DEF Candidates, Allowed
<1>2. dep.name \in DOMAIN task.catalog
  BY <1>1 DEF Sells
<1>3. DOMAIN task.catalog[dep.name] \subseteq Nat /\ IsFiniteSet(DOMAIN task.catalog[dep.name])
  BY <1>2 DEF ResolverShape, CatalogIs
<1>4. found \in SUBSET DOMAIN task.catalog[dep.name]
  BY <1>1 DEF Sells
<1>5. found \in SUBSET Nat /\ IsFiniteSet(found)
  BY <1>3, <1>4, FS_Subset
<1> HIDE DEF found
<1>6. Max(found) \in found /\ \A w \in found : w <= Max(found)
  BY <1>5, MaxIsIn DEF found
<1> QED BY <1>1, <1>6 DEF Chosen, found

LEMMA PicksStep ==
  ASSUME ResolverShape, NEW roots, TreeIs(roots, task.tree), ResolverWorks, Caller.deps # <<>>, Wanted.name \notin Resolving,
         NEW how \in {"find", "recheck"}, how = "find" <=> Wanted.name \notin DOMAIN Tree.resolved, Picks(how)
  PROVE  \E tree : TreeMoves(tree) /\ TreeIs(roots, tree)
<1> DEFINE found == Candidates(AskedNow, Wanted)
           v == Max(found)
           pick == Pick(v, task.index[<<Wanted.name, v>>])
           calls == Append(Taken, Through(how, Wanted.name, pick, task.catalog[Wanted.name][v]))
           resolved == IF how = "recheck" THEN Put(Tree.resolved, Wanted.name, pick) ELSE Tree.resolved
<1>1. CASE GivesUp("conflict") \/ GivesUp("unreachable")
  <2>1. CASE GivesUp("conflict")
    BY <2>1, GivesUpStep
  <2>2. CASE GivesUp("unreachable")
    BY <2>2, GivesUpStep
  <2> QED BY <1>1, <2>1, <2>2
<1>2. CASE found # {} /\ GoesOn(resolved, calls)
  <2>1. Chosen(task.kind, task.catalog, task.index, AskedNow, Wanted.name, v)
    BY <1>2, CandidatesFacts
  <2>2. pick.version = v
    BY DEF Pick
  <2> HIDE DEF pick, v, found
  <2>3. /\ Resolver(task.kind, task.catalog, task.index, roots, task.tree.resolved, task.tree.asked, task.tree.calls)
        /\ task.tree.calls # <<>> /\ Last(task.tree.calls).deps # <<>>
        /\ how = "find" <=> Wanted.name \notin DOMAIN task.tree.resolved
        /\ CatalogIs(task.catalog)
    BY TreeWorks DEF Caller, Tree, ResolverShape
  <2>4. \A i \in DOMAIN task.tree.calls : task.tree.calls[i].how = "find" => task.tree.calls[i].name # Wanted.name
    BY DEF Resolving, Tree, ToSet
  <2>5. /\ Wanted = Head(Last(task.tree.calls).deps) /\ AskedNow = task.tree.asked \cup {Wanted} /\ Taken = TakenOf(task.tree.calls)
        /\ Tree = task.tree
    BY DEF Wanted, Caller, Tree, AskedNow, Taken, TakenOf
  <2>6. Resolver(task.kind, task.catalog, task.index, roots, resolved, AskedNow, calls)
    BY <2>1, <2>2, <2>3, <2>4, <2>5, PickOpens
  <2> HIDE DEF resolved, calls
  <2> QED BY <1>2, <2>6, GoesOnStep
<1> QED BY <1>1, <1>2 DEF Picks

LEMMA TransitiveStep ==
  ASSUME ResolverShape, NEW roots, TreeIs(roots, task.tree), ResolveTransitive
  PROVE  \E tree : TreeMoves(tree) /\ TreeIs(roots, tree)
<1>1. ResolverWorks /\ Caller.deps # <<>>
  BY DEF ResolveTransitive
<1>2. /\ Resolver(task.kind, task.catalog, task.index, roots, task.tree.resolved, task.tree.asked, task.tree.calls)
      /\ task.tree.calls # <<>> /\ Last(task.tree.calls).deps # <<>>
  BY <1>1, TreeWorks DEF Caller, Tree
<1>3. /\ Wanted = Head(Last(task.tree.calls).deps) /\ AskedNow = task.tree.asked \cup {Wanted} /\ Taken = TakenOf(task.tree.calls)
      /\ Tree = task.tree
  BY DEF Wanted, Caller, Tree, AskedNow, Taken, TakenOf
<1>4. CASE Wanted.name \in Resolving /\ GivesUp("cycle")
  <2>1. PICK j \in DOMAIN task.tree.calls : task.tree.calls[j].how = "find" /\ task.tree.calls[j].name = Wanted.name
    BY <1>4 DEF Resolving, Tree, ToSet
  <2>2. Circle(task.catalog)
    BY <1>2, <1>3, <2>1, CycleFound
  <2> QED BY <1>1, <1>4, <2>2, GivesUpStep
<1>5. ASSUME Wanted.name \notin Resolving
      PROVE  \A i \in DOMAIN task.tree.calls : task.tree.calls[i].how = "find" => task.tree.calls[i].name # Wanted.name
  BY <1>5 DEF Resolving, Tree, ToSet
<1>6. CASE /\ Wanted.name \notin Resolving /\ Wanted.name \in DOMAIN Tree.resolved /\ Tree.resolved[Wanted.name].version \in Wanted.allowed
           /\ GoesOn(Tree.resolved, Taken)
  <2>1. Resolver(task.kind, task.catalog, task.index, roots, task.tree.resolved, AskedNow, Taken)
    BY <1>2, <1>3, <1>5, <1>6, FittingStays
  <2>2. GoesOn(task.tree.resolved, Taken)
    BY <1>3, <1>6
  <2> QED BY <1>1, <2>1, <2>2, GoesOnStep
<1>7. CASE Wanted.name \notin Resolving /\ Wanted.name \in DOMAIN Tree.resolved /\ Picks("recheck")
  BY <1>1, <1>7, PicksStep
<1>8. CASE Wanted.name \notin Resolving /\ Wanted.name \notin DOMAIN Tree.resolved /\ Picks("find")
  BY <1>1, <1>8, PicksStep
<1> QED BY <1>4, <1>6, <1>7, <1>8 DEF ResolveTransitive

LEMMA ReturnsStep ==
  ASSUME ResolverShape, NEW roots, TreeIs(roots, task.tree), CallReturns
  PROVE  \E tree : TreeMoves(tree) /\ TreeIs(roots, tree)
<1> DEFINE resolved == IF Caller.how = "find" THEN Put(task.tree.resolved, Caller.name, Caller.pick) ELSE task.tree.resolved
           calls == Front(task.tree.calls)
           tree == [task.tree EXCEPT !.calls = calls, !.resolved = resolved]
<1>1. ResolverWorks /\ Caller.deps = <<>>
  BY DEF CallReturns
<1>2. /\ Resolver(task.kind, task.catalog, task.index, roots, task.tree.resolved, task.tree.asked, task.tree.calls)
      /\ task.tree.calls # <<>> /\ Caller = Last(task.tree.calls) /\ task.tree.err = "none" /\ Fields(task.tree, TreeFields)
  BY <1>1, TreeWorks DEF Caller, Tree
<1>3. Resolver(task.kind, task.catalog, task.index, roots, resolved, task.tree.asked, calls)
  BY <1>1, <1>2, CallCloses
<1>4. task' = [task EXCEPT !.tree.calls = calls, !.tree.resolved = resolved]
  <2>1. task' = [task EXCEPT !.tree.calls = Front(@),
                             !.tree.resolved = IF Caller.how = "find" THEN Put(@, Caller.name, Caller.pick) ELSE @]
    BY DEF CallReturns
  <2>2. CASE task.kind = "resolve"
    BY <1>2, <2>1, <2>2 DEF ResolverShape, Fields, ResolveFields, TreeFields
  <2>3. CASE task.kind = "packages"
    BY <1>2, <2>1, <2>3 DEF ResolverShape, Fields, PackagesFields, TreeFields
  <2> QED BY <2>2, <2>3 DEF ResolverShape
<1> HIDE DEF resolved, calls
<1>5. task' = [task EXCEPT !.tree = tree]
  <2>2. CASE task.kind = "resolve"
    BY <1>2, <1>4, <2>2 DEF ResolverShape, Fields, ResolveFields, TreeFields
  <2>3. CASE task.kind = "packages"
    BY <1>2, <1>4, <2>3 DEF ResolverShape, Fields, PackagesFields, TreeFields
  <2> QED BY <2>2, <2>3 DEF ResolverShape
<1>6. Fields(tree, TreeFields) /\ tree.err = task.tree.err /\ tree.calls = calls /\ tree.resolved = resolved /\ tree.asked = task.tree.asked
  BY <1>2 DEF Fields, TreeFields
<1> HIDE DEF tree
<1> QED BY <1>2, <1>3, <1>5, <1>6, TreeMoved DEF TreeIs, TreeInv

(* What the resolver returns: every direct dependency and every dependency *)
(* of a version that was chosen has a version that is allowed.             *)
Covers(roots, f) == \A d \in ToSet(roots) : d.name \in DOMAIN f /\ f[d.name].version \in d.allowed
LEMMA TreeDone ==
  ASSUME NEW kind, NEW cat, NEW ix, NEW roots, NEW tree, TreeInv(kind, cat, ix, roots, tree), tree.calls = <<>>, tree.err = "none"
  PROVE  /\ Covers(roots, tree.resolved)
         /\ \A n \in DOMAIN tree.resolved :
              /\ Chosen(kind, cat, ix, tree.asked, n, tree.resolved[n].version)
              /\ \A d \in DepsOf(cat, n, tree.resolved[n].version) :
                   d.name \in DOMAIN tree.resolved /\ tree.resolved[d.name].version \in d.allowed
<1>1. Resolver(kind, cat, ix, roots, tree.resolved, tree.asked, tree.calls)
  BY DEF TreeInv
<1>2. DOMAIN tree.calls = {}
  OBVIOUS
<1>3. \A n \in DOMAIN tree.resolved : Chosen(kind, cat, ix, tree.asked, n, tree.resolved[n].version)
  BY <1>1 DEF Resolver, ResolvedFit
<1>4. \A q \in tree.asked : q.name \in DOMAIN tree.resolved /\ tree.resolved[q.name].version \in q.allowed
  <2>1. \A q \in tree.asked : q.name \in DOMAIN tree.resolved
    BY <1>1, <1>2 DEF Resolver, AskedMet
  <2> QED BY <1>3, <2>1 DEF Chosen, Allowed
<1>5. \A d \in ToSet(roots) : d \in tree.asked
  BY <1>1, <1>2 DEF Resolver, RootsAsked
<1>6. \A n \in DOMAIN tree.resolved : \A d \in DepsOf(cat, n, tree.resolved[n].version) : d \in tree.asked
  BY <1>1, <1>2 DEF Resolver, DepsAsked
<1> QED BY <1>3, <1>4, <1>5, <1>6 DEF Covers

(* ResolveTree: the state it starts from.                                  *)
LEMMA TreeBegins ==
  ASSUME NEW kind, NEW cat, NEW ix, NEW roots, IsList(roots)
  PROVE  TreeInv(kind, cat, ix, roots, ResolveTree(roots))
<1> DEFINE tree == ResolveTree(roots)
           c == Through("tree", "root", Pick(0, 0), roots)
<1>1. Fields(tree, TreeFields) /\ tree.err = "none" /\ tree.resolved = <<>> /\ tree.asked = {} /\ tree.calls = <<c>>
  BY DEF ResolveTree, Fields, TreeFields
<1>2. Fields(c, CallFields) /\ c.how = "tree" /\ c.deps = roots
  BY DEF Through, Fields, CallFields
<1> HIDE DEF c, tree
<1>3. DOMAIN <<c>> = {1} /\ <<c>>[1] = c /\ IsList(<<c>>)
  <2>1. <<c>> \in Seq({c}) /\ DOMAIN <<c>> = {1} /\ <<c>>[1] = c
    OBVIOUS
  <2>2. IsList(<<c>>)
    BY <2>1 DEF IsList
  <2> QED BY <2>1, <2>2
<1>4. CallsAre(cat, <<c>>)
  BY <1>2, <1>3 DEF CallsAre
<1>5. Linked(cat, <<c>>) /\ FindsFit(kind, cat, ix, {}, <<c>>) /\ DepsSeen(cat, {}, <<c>>)
  BY <1>2, <1>3 DEF Linked, FindsFit, DepsSeen
<1>6. ResolvedFit(kind, cat, ix, <<>>, {}) /\ AskedMet(<<>>, {}, <<c>>) /\ DepsAsked(cat, <<>>, {}, <<c>>)
  BY DEF ResolvedFit, AskedMet, DepsAsked
<1>7. RootsAsked(roots, {}, <<c>>)
  BY <1>2, <1>3 DEF RootsAsked
<1> QED BY <1>1, <1>4, <1>5, <1>6, <1>7 DEF TreeInv, Resolver, tree

-----------------------------------------------------------------------------
(* keramos.lock and packages/.                                             *)

OpFields == {"name", "at", "fromLock", "todo", "did"}
(* installFromLockFile: what is not to install is installed as it is       *)
(* locked.                                                                 *)
FromLock(op, lock, packages, roots) ==
    /\ op.name = "resolve" /\ Covers(roots, lock.deps)
    /\ \A n \in DOMAIN op.todo : n \in DOMAIN lock.deps /\ op.todo[n] = lock.deps[n]
    /\ \A n \in DOMAIN lock.deps :
         n \in DOMAIN op.todo \/ (n \in DOMAIN packages /\ packages[n].version = lock.deps[n].version)
    /\ \A n \in op.did : /\ n \in DOMAIN lock.deps /\ n \notin DOMAIN op.todo
                         /\ packages[n].whole /\ packages[n].digest = lock.deps[n].digest
(* installResolved: the direct dependencies are installed or to install.   *)
FromTree(op, packages, roots) ==
    /\ \A n \in op.did : n \notin DOMAIN op.todo /\ n \in DOMAIN packages /\ packages[n].whole
    /\ op.name # "single" => \A d \in ToSet(roots) :
         \/ d.name \in DOMAIN op.todo /\ op.todo[d.name].version \in d.allowed
         \/ d.name \in op.did /\ packages[d.name].version \in d.allowed
    /\ op.name = "update" => DOMAIN packages = op.did
(* A command that has succeeded.                                           *)
Installed(op, lock, packages, roots) ==
    /\ op.name # "single" =>
         /\ Covers(roots, packages) /\ Covers(roots, lock.deps)
         /\ \A n \in DOMAIN lock.deps : n \in DOMAIN packages /\ packages[n].version = lock.deps[n].version
    /\ \A n \in op.did : /\ packages[n].whole /\ packages[n].version = lock.deps[n].version
                         /\ packages[n].digest = lock.deps[n].digest
    /\ op.name = "update" => DOMAIN packages = DOMAIN lock.deps
OpInv(op, lock, packages, roots) ==
    /\ Fields(op, OpFields) /\ op.at \in {"idle", "tree", "install", "done", "failed"}
    /\ op.at = "install" /\ op.fromLock => FromLock(op, lock, packages, roots)
    /\ op.at = "install" /\ ~op.fromLock => FromTree(op, packages, roots)
    /\ op.at = "done" => Installed(op, lock, packages, roots)
(* The resolver works for the command that called it.                      *)
TreeFor(kind, cat, ix, tree, op, roots) ==
    /\ op.at # "tree" => tree = NoTree
    /\ op.at = "tree" => \E deps : TreeInv(kind, cat, ix, deps, tree) /\ (op.name # "single" => deps = roots)
PackagesInv ==
    /\ ResolverShape /\ IsList(task.roots)
    /\ task.kind = "resolve" => TreeIs(task.roots, task.tree) /\ (task.pc = "ok" => task.tree.calls = <<>>)
    /\ task.kind = "packages" =>
         /\ TreeFor(task.kind, task.catalog, task.index, task.tree, task.op, task.roots)
         /\ OpInv(task.op, task.lock, task.packages, task.roots)

LEMMA ReturnsFacts ==
  ASSUME NEW name, NEW at, at \in {"idle", "tree", "failed"}, NEW lock, NEW packages, NEW roots
  PROVE  Returns(name, at).name = name /\ Returns(name, at).at = at /\ OpInv(Returns(name, at), lock, packages, roots)
BY DEF Returns, NoOp, OpInv, Fields, OpFields
LEMMA StartsFacts ==
  ASSUME NEW name, NEW fromLock, NEW todo
  PROVE  LET op == Starts(name, fromLock, todo)
         IN  /\ Fields(op, OpFields) /\ op.name = name /\ op.at = "install" /\ op.fromLock = fromLock /\ op.todo = todo /\ op.did = {}
BY DEF Starts, Fields, OpFields

(* What a step of a command leaves.                                        *)
Commanding(tree, lock, packages, op) ==
    /\ Fields(task', PackagesFields) /\ task'.kind = "packages" /\ task'.catalog = task.catalog /\ task'.index = task.index
    /\ task'.roots = task.roots /\ task'.tree = tree /\ task'.lock = lock /\ task'.packages = packages /\ task'.op = op
LEMMA CommandReached ==
  ASSUME PackagesInv, NEW tree, NEW lock, NEW packages, NEW op, Commanding(tree, lock, packages, op),
         TreeFor("packages", task.catalog, task.index, tree, op, task.roots), OpInv(op, lock, packages, task.roots)
  PROVE  PackagesInv'
<1>1. /\ Fields(task', PackagesFields) /\ task'.kind = "packages" /\ task'.catalog = task.catalog /\ task'.index = task.index
      /\ task'.roots = task.roots /\ task'.tree = tree /\ task'.lock = lock /\ task'.packages = packages /\ task'.op = op
  BY DEF Commanding
<1>2. ResolverShape' /\ IsList(task.roots)'
  BY <1>1 DEF PackagesInv, ResolverShape, CatalogIs, IsList, Fields
<1>3. TreeFor(task.kind, task.catalog, task.index, task.tree, task.op, task.roots)' /\ OpInv(task.op, task.lock, task.packages, task.roots)'
  BY <1>1
<1> QED BY <1>1, <1>2, <1>3 DEF PackagesInv

(* resolveTransitive, under way for either kind of task.                   *)
LEMMA ResolverStepKept ==
  ASSUME PackagesInv, ResolveTransitive \/ CallReturns
  PROVE  PackagesInv'
<1>1. ResolverShape /\ task.tree.calls # <<>> /\ task.pc = "run"
  BY DEF PackagesInv, ResolveTransitive, CallReturns, ResolverWorks, Tree
<1>2. CASE task.kind = "resolve"
  <2>1. TreeIs(task.roots, task.tree)
    BY <1>2 DEF PackagesInv
  <2>2. PICK tree : TreeMoves(tree) /\ TreeIs(task.roots, tree)
    BY <1>1, <2>1, TransitiveStep, ReturnsStep
  <2>3. /\ task'.tree = tree /\ task'.kind = "resolve" /\ task'.pc = "run" /\ task'.catalog = task.catalog
        /\ task'.roots = task.roots /\ task'.index = task.index /\ Fields(task', ResolveFields)
    BY <1>1, <1>2, <2>2 DEF TreeMoves
  <2>4. ResolverShape' /\ IsList(task.roots)'
    BY <1>1, <2>3 DEF PackagesInv, ResolverShape, CatalogIs, IsList, Fields
  <2>5. TreeIs(task.roots, task.tree)'
    BY <1>2, <2>2, <2>3 DEF TreeIs
  <2> QED BY <2>3, <2>4, <2>5 DEF PackagesInv
<1>3. CASE task.kind = "packages"
  <2>1. /\ TreeFor(task.kind, task.catalog, task.index, task.tree, task.op, task.roots)
        /\ OpInv(task.op, task.lock, task.packages, task.roots)
    BY <1>3 DEF PackagesInv
  <2>2. task.op.at = "tree"
    BY <1>1, <2>1 DEF TreeFor, NoTree
  <2>3. PICK deps : TreeIs(deps, task.tree) /\ (task.op.name # "single" => deps = task.roots)
    BY <2>1, <2>2 DEF TreeFor, TreeIs
  <2>4. PICK tree : TreeMoves(tree) /\ TreeIs(deps, tree)
    BY <1>1, <2>3, TransitiveStep, ReturnsStep
  <2>5. Commanding(tree, task.lock, task.packages, task.op)
    BY <1>3, <2>4 DEF TreeMoves, Commanding
  <2>6. TreeFor("packages", task.catalog, task.index, tree, task.op, task.roots)
    BY <1>3, <2>2, <2>3, <2>4 DEF TreeFor, TreeIs
  <2> QED BY <2>1, <2>5, <2>6, CommandReached
<1> QED BY <1>1, <1>2, <1>3 DEF ResolverShape

LEMMA ResolverStopsKept ==
  ASSUME PackagesInv, ResolverStops
  PROVE  PackagesInv'
<1>1. task.kind = "resolve" /\ task.tree.calls = <<>> /\ task' = [task EXCEPT !.pc = "ok"] /\ Fields(task, ResolveFields)
  BY DEF ResolverStops, Tree, PackagesInv, ResolverShape
<1>2. /\ Fields(task', ResolveFields) /\ task'.kind = "resolve" /\ task'.catalog = task.catalog /\ task'.index = task.index
      /\ task'.roots = task.roots /\ task'.tree = task.tree
  BY <1>1 DEF Fields, ResolveFields
<1>3. ResolverShape' /\ IsList(task.roots)'
  BY <1>2 DEF PackagesInv, ResolverShape, CatalogIs, IsList, Fields
<1>4. TreeIs(task.roots, task.tree)'
  BY <1>1, <1>2 DEF TreeIs, PackagesInv
<1> QED BY <1>1, <1>2, <1>3, <1>4 DEF PackagesInv

LEMMA CommandFacts ==
  ASSUME PackagesInv, task.kind = "packages"
  PROVE  /\ Fields(task, PackagesFields) /\ IsList(task.roots) /\ CatalogIs(task.catalog) /\ ResolverShape
         /\ Fields(task.op, OpFields) /\ OpInv(task.op, task.lock, task.packages, task.roots)
         /\ TreeFor("packages", task.catalog, task.index, task.tree, task.op, task.roots)
         /\ task.op.at # "tree" => task.tree = NoTree
BY DEF PackagesInv, ResolverShape, OpInv, TreeFor

(* A command that failed, or has not got far, has nothing to answer for.   *)
LEMMA CommandFails ==
  ASSUME PackagesInv, task.kind = "packages", NEW lock, NEW packages, NEW name, Commanding(NoTree, lock, packages, Returns(name, "failed"))
  PROVE  PackagesInv'
<1> DEFINE op == Returns(name, "failed")
<1>1. op.at = "failed" /\ OpInv(op, lock, packages, task.roots) /\ Commanding(NoTree, lock, packages, op)
  BY ReturnsFacts
<1> HIDE DEF op
<1>2. TreeFor("packages", task.catalog, task.index, NoTree, op, task.roots)
  BY <1>1 DEF TreeFor
<1> QED BY <1>1, <1>2, CommandReached

LEMMA ResolvesKept ==
  ASSUME PackagesInv, task.kind = "packages", NEW name, NEW deps, IsList(deps), name # "single" => deps = task.roots,
         Resolves(name, deps)
  PROVE  PackagesInv'
<1> DEFINE op == Returns(name, "tree")
           tree == ResolveTree(deps)
<1>1. op.name = name /\ op.at = "tree" /\ OpInv(op, task.lock, task.packages, task.roots)
  BY ReturnsFacts
<1>2. task' = [Turn EXCEPT !.op = op, !.tree = tree]
  BY DEF Resolves
<1>3. TreeInv("packages", task.catalog, task.index, deps, tree)
  BY TreeBegins
<1> HIDE DEF op, tree
<1>4. Commanding(tree, task.lock, task.packages, op)
  BY <1>2, CommandFacts DEF Turn, Commanding, Fields, PackagesFields
<1>5. TreeFor("packages", task.catalog, task.index, tree, op, task.roots)
  BY <1>1, <1>3 DEF TreeFor
<1> QED BY <1>1, <1>4, <1>5, CommandReached

(* ResolveDependencies: with a lock that is current, from the lock.        *)
LEMMA BeginResolveKept ==
  ASSUME PackagesInv, task.kind = "packages", BeginResolve
  PROVE  PackagesInv'
<1>1. task.op.at \in {"idle", "done", "failed"}
  BY DEF BeginResolve, Ready
<1>2. task.tree = NoTree
  BY <1>1, CommandFacts
<1>3. CASE task' = [Turn EXCEPT !.op = Returns("resolve", "failed")]
  <2> DEFINE op == Returns("resolve", "failed")
  <2>1. task' = [Turn EXCEPT !.op = op]
    BY <1>3
  <2> HIDE DEF op
  <2>2. Commanding(NoTree, task.lock, task.packages, op)
    BY <1>2, <2>1, CommandFacts DEF Turn, Commanding, Fields, PackagesFields
  <2> QED BY <2>2, CommandFails DEF op
<1>4. CASE IsLockFileCurrent(task.roots) /\ task' = [Turn EXCEPT !.op = Starts("resolve", TRUE, task.lock.deps)]
  <2> DEFINE op == Starts("resolve", TRUE, task.lock.deps)
  <2>1. /\ Fields(op, OpFields) /\ op.name = "resolve" /\ op.at = "install" /\ op.fromLock = TRUE /\ op.todo = task.lock.deps
        /\ op.did = {}
    <3>1. /\ Fields(Starts("resolve", TRUE, task.lock.deps), OpFields)
          /\ Starts("resolve", TRUE, task.lock.deps).name = "resolve"
          /\ Starts("resolve", TRUE, task.lock.deps).at = "install"
          /\ Starts("resolve", TRUE, task.lock.deps).fromLock = TRUE
          /\ Starts("resolve", TRUE, task.lock.deps).todo = task.lock.deps
          /\ Starts("resolve", TRUE, task.lock.deps).did = {}
      BY DEF Starts, Fields, OpFields
    <3> QED BY <3>1
  <2> HIDE DEF op
  <2>9. task' = [Turn EXCEPT !.op = op]
    BY <1>4, Zenon DEF op
  <2>2. Covers(task.roots, task.lock.deps)
    BY <1>4 DEF IsLockFileCurrent, Covers
  <2>3. FromLock(op, task.lock, task.packages, task.roots)
    BY <2>1, <2>2 DEF FromLock
  <2>4. op.at # "done" /\ op.at # "tree" /\ op.at \in {"idle", "tree", "install", "done", "failed"}
    BY <2>1
  <2>5. OpInv(op, task.lock, task.packages, task.roots)
    BY <2>1, <2>3, <2>4, Zenon DEF OpInv
  <2>6. Commanding(NoTree, task.lock, task.packages, op)
    BY <1>2, <2>9, CommandFacts DEF Turn, Commanding, Fields, PackagesFields
  <2>7. TreeFor("packages", task.catalog, task.index, NoTree, op, task.roots)
    BY <2>4 DEF TreeFor
  <2> QED BY <2>5, <2>6, <2>7, CommandReached
<1>5. CASE Resolves("resolve", task.roots)
  BY <1>5, CommandFacts, ResolvesKept
<1> QED BY <1>3, <1>4, <1>5 DEF BeginResolve

LEMMA BeginUpdateKept ==
  ASSUME PackagesInv, task.kind = "packages", BeginUpdate \/ BeginSingle
  PROVE  PackagesInv'
<1>1. CASE Resolves("update", task.roots)
  BY <1>1, CommandFacts, ResolvesKept
<1>2. ASSUME NEW i \in DOMAIN task.roots, Resolves("single", <<task.roots[i]>>)
      PROVE  PackagesInv'
  <2>1. IsList(<<task.roots[i]>>)
    <3>1. <<task.roots[i]>> \in Seq({task.roots[i]})
      OBVIOUS
    <3> QED BY <3>1 DEF IsList
  <2> QED BY <1>2, <2>1, ResolvesKept
<1> QED BY <1>1, <1>2 DEF BeginUpdate, BeginSingle

(* What was resolved covers the direct dependencies.                       *)
LEMMA TreeEndsKept ==
  ASSUME PackagesInv, task.kind = "packages", TreeEnds
  PROVE  PackagesInv'
<1>1. task.op.at = "tree" /\ task.tree.calls = <<>>
  BY DEF TreeEnds, Tree
<1> DEFINE name == task.op.name
           todo == task.tree.resolved
           op == Starts(name, FALSE, todo)
           failed == Returns(name, "failed")
           packages == IF name = "update" THEN <<>> ELSE task.packages
<1>2. CASE task.tree.err = "none" /\ task' = [task EXCEPT !.tree = NoTree, !.op = op, !.packages = packages]
  <2>1. name # "single" => Covers(task.roots, todo)
    <3>1. PICK deps : TreeInv("packages", task.catalog, task.index, deps, task.tree) /\ (name # "single" => deps = task.roots)
      BY <1>1, CommandFacts DEF TreeFor
    <3>2. Covers(deps, todo)
      BY <1>1, <1>2, <3>1, TreeDone
    <3> QED BY <3>1, <3>2
  <2> HIDE DEF todo, name
  <2>2. /\ Fields(op, OpFields) /\ op.name = name /\ op.at = "install" /\ op.fromLock = FALSE /\ op.todo = todo
        /\ op.did = {}
    BY StartsFacts
  <2>3. name = "update" => DOMAIN packages = {}
    OBVIOUS
  <2>4. task' = [task EXCEPT !.tree = NoTree, !.op = op, !.packages = packages]
    BY <1>2
  <2> HIDE DEF op, packages
  <2>5. FromTree(op, packages, task.roots)
    BY <2>1, <2>2, <2>3 DEF FromTree, Covers
  <2>6. op.at # "done" /\ op.at # "tree" /\ op.at \in {"idle", "tree", "install", "done", "failed"}
    BY <2>2
  <2>7. OpInv(op, task.lock, packages, task.roots)
    BY <2>2, <2>5, <2>6, Zenon DEF OpInv
  <2>8. Commanding(NoTree, task.lock, packages, op)
    BY <2>4, CommandFacts DEF Commanding, Fields, PackagesFields
  <2>9. TreeFor("packages", task.catalog, task.index, NoTree, op, task.roots)
    BY <2>6 DEF TreeFor
  <2> QED BY <2>7, <2>8, <2>9, CommandReached
<1>3. CASE task' = [task EXCEPT !.tree = NoTree, !.op = failed]
  <2> HIDE DEF failed
  <2>1. Commanding(NoTree, task.lock, task.packages, failed)
    BY <1>3, CommandFacts DEF Commanding, Fields, PackagesFields
  <2> QED BY <2>1, CommandFails DEF failed
<1> QED BY <1>2, <1>3 DEF TreeEnds, Tree

(* installFromLockFile: a package that is found in the version of the lock *)
(* is skipped, another is extracted.                                       *)
LEMMA SkipKept ==
  ASSUME PackagesInv, task.kind = "packages", task.op.at = "install", task.op.fromLock, NEW n \in DOMAIN task.op.todo,
         n \in DOMAIN task.packages, task.packages[n].version = task.op.todo[n].version,
         task' = [task EXCEPT !.op.todo = [m \in DOMAIN task.op.todo \ {n} |-> task.op.todo[m]]]
  PROVE  PackagesInv'
<1> DEFINE rest == [m \in DOMAIN task.op.todo \ {n} |-> task.op.todo[m]]
           op == [task.op EXCEPT !.todo = rest]
<1>1. FromLock(task.op, task.lock, task.packages, task.roots)
  BY CommandFacts, Zenon DEF OpInv
<1>2. DOMAIN rest = DOMAIN task.op.todo \ {n} /\ \A m \in DOMAIN rest : rest[m] = task.op.todo[m]
  OBVIOUS
<1>3. task' = [task EXCEPT !.op.todo = rest]
  OBVIOUS
<1> HIDE DEF rest
<1>4. /\ Fields(op, OpFields) /\ op.name = task.op.name /\ op.at = "install" /\ op.fromLock = task.op.fromLock
      /\ op.todo = rest /\ op.did = task.op.did
  BY CommandFacts DEF Fields, OpFields
<1>5. task' = [task EXCEPT !.op = op]
  BY <1>3, CommandFacts DEF Fields, PackagesFields
<1> HIDE DEF op
<1>6. Commanding(NoTree, task.lock, task.packages, op)
  BY <1>5, CommandFacts DEF Commanding, Fields, PackagesFields
<1>7. FromLock(op, task.lock, task.packages, task.roots)
  BY <1>1, <1>2, <1>4 DEF FromLock
<1>8. op.at # "done" /\ op.at # "tree" /\ op.at \in {"idle", "tree", "install", "done", "failed"}
  BY <1>4
<1>9. OpInv(op, task.lock, task.packages, task.roots)
  BY <1>4, <1>7, <1>8, Zenon DEF OpInv
<1>10. TreeFor("packages", task.catalog, task.index, NoTree, op, task.roots)
  BY <1>8 DEF TreeFor
<1> QED BY <1>6, <1>9, <1>10, CommandReached

(* downloadAndExtract                                                      *)
LEMMA ExtractKept ==
  ASSUME PackagesInv, task.kind = "packages", task.op.at = "install", NEW n \in DOMAIN task.op.todo, NEW e,
         e.version = task.op.todo[n].version, e.digest = task.op.todo[n].digest, e.whole = TRUE,
         task' = [task EXCEPT !.op.todo = [m \in DOMAIN task.op.todo \ {n} |-> task.op.todo[m]], !.op.did = @ \cup {n},
                              !.packages = Put(task.packages, n, e)]
  PROVE  PackagesInv'
<1> DEFINE rest == [m \in DOMAIN task.op.todo \ {n} |-> task.op.todo[m]]
           did == task.op.did \cup {n}
           op == [task.op EXCEPT !.todo = rest, !.did = did]
           packages == Put(task.packages, n, e)
<1>1. DOMAIN rest = DOMAIN task.op.todo \ {n} /\ \A m \in DOMAIN rest : rest[m] = task.op.todo[m]
  OBVIOUS
<1>2. task' = [task EXCEPT !.op.todo = rest, !.op.did = @ \cup {n}, !.packages = packages]
  OBVIOUS
<1>3. /\ DOMAIN packages = DOMAIN task.packages \cup {n} /\ packages[n] = e
      /\ \A m \in DOMAIN task.packages : m # n => packages[m] = task.packages[m]
  BY DEF Put
<1> HIDE DEF rest, packages
<1>4. task' = [task EXCEPT !.op = op, !.packages = packages]
  BY <1>2, CommandFacts DEF Fields, PackagesFields, OpFields
<1>5. /\ Fields(op, OpFields) /\ op.name = task.op.name /\ op.at = "install" /\ op.fromLock = task.op.fromLock
      /\ op.todo = rest /\ op.did = did
  BY CommandFacts DEF Fields, OpFields
<1> HIDE DEF op
<1>6. Commanding(NoTree, task.lock, packages, op)
  BY <1>4, CommandFacts DEF Commanding, Fields, PackagesFields
<1>7. ASSUME FromLock(task.op, task.lock, task.packages, task.roots)
      PROVE  FromLock(op, task.lock, packages, task.roots)
  <2>1. /\ op.name = "resolve" /\ Covers(task.roots, task.lock.deps)
        /\ \A m \in DOMAIN op.todo : m \in DOMAIN task.lock.deps /\ op.todo[m] = task.lock.deps[m]
    BY <1>1, <1>5, <1>7 DEF FromLock
  <2>2. n \in DOMAIN task.lock.deps /\ task.op.todo[n] = task.lock.deps[n]
    BY <1>7 DEF FromLock
  <2>3. \A m \in DOMAIN task.lock.deps :
          m \in DOMAIN op.todo \/ (m \in DOMAIN packages /\ packages[m].version = task.lock.deps[m].version)
    BY <1>1, <1>3, <1>5, <1>7, <2>2 DEF FromLock
  <2>4. ASSUME NEW m \in did
        PROVE  /\ m \in DOMAIN task.lock.deps /\ m \notin DOMAIN op.todo
               /\ packages[m].whole /\ packages[m].digest = task.lock.deps[m].digest
    <3>1. CASE m = n
      BY <1>1, <1>3, <1>5, <2>2, <3>1
    <3>2. CASE m # n
      <4>1. /\ m \in DOMAIN task.lock.deps /\ m \notin DOMAIN task.op.todo
            /\ task.packages[m].whole /\ task.packages[m].digest = task.lock.deps[m].digest
        BY <1>7, <3>2 DEF FromLock
      <4>2. m \in DOMAIN task.packages
        BY <1>7, <4>1 DEF FromLock
      <4>3. packages[m] = task.packages[m] /\ m \notin DOMAIN op.todo
        BY <1>1, <1>3, <1>5, <3>2, <4>1, <4>2
      <4> QED BY <4>1, <4>3, Zenon
    <3> QED BY <3>1, <3>2
  <2> QED BY <1>5, <2>1, <2>3, <2>4, Zenon DEF FromLock
<1>8. ASSUME FromTree(task.op, task.packages, task.roots)
      PROVE  FromTree(op, packages, task.roots)
  <2>1. ASSUME NEW m \in did
        PROVE  m \notin DOMAIN op.todo /\ m \in DOMAIN packages /\ packages[m].whole
    <3>1. CASE m = n
      BY <1>1, <1>3, <1>5, <3>1
    <3>2. CASE m # n
      BY <1>1, <1>3, <1>5, <1>8, <3>2 DEF FromTree
    <3> QED BY <3>1, <3>2
  <2> QED BY <1>1, <1>3, <1>5, <1>8, <2>1 DEF FromTree
<1>9. op.at # "done" /\ op.at # "tree" /\ op.at \in {"idle", "tree", "install", "done", "failed"}
  BY <1>5
<1>10. OpInv(op, task.lock, packages, task.roots)
  BY <1>5, <1>7, <1>8, <1>9, CommandFacts, Zenon DEF OpInv
<1>11. TreeFor("packages", task.catalog, task.index, NoTree, op, task.roots)
  BY <1>9 DEF TreeFor
<1> QED BY <1>6, <1>10, <1>11, CommandReached

LEMMA InstallOneKept ==
  ASSUME PackagesInv, task.kind = "packages", InstallOne
  PROVE  PackagesInv'
<1>1. task.op.at = "install" /\ task.tree = NoTree
  BY CommandFacts DEF InstallOne
<1>2. PICK n \in DOMAIN task.op.todo :
         LET want == task.op.todo[n]
             rest == [m \in DOMAIN task.op.todo \ {n} |-> task.op.todo[m]]
             serves == <<n, want.version>> \in DOMAIN task.index /\ task.index[<<n, want.version>>] = want.digest
             found == IsInstalled(n) /\ task.packages[n].version = want.version
             extracted(whole) == Put(task.packages, n, [version |-> want.version, digest |-> want.digest, whole |-> whole])
         IN
         \/ task.op.fromLock /\ found /\ task' = [task EXCEPT !.op.todo = rest]
         \/ task' = [task EXCEPT !.op.todo = rest, !.op.did = @ \cup {n}, !.packages = extracted(TRUE)]
         \/ task' = [task EXCEPT !.op = Returns(task.op.name, "failed")]
         \/ \E left : task' = [task EXCEPT !.op = Returns(task.op.name, "failed"), !.packages = left]
  BY Zenon DEF InstallOne
<1> DEFINE want == task.op.todo[n]
           rest == [m \in DOMAIN task.op.todo \ {n} |-> task.op.todo[m]]
           e == [version |-> want.version, digest |-> want.digest, whole |-> TRUE]
           failed == Returns(task.op.name, "failed")
<1>3. ASSUME NEW left, task' = [task EXCEPT !.op = failed, !.packages = left]
      PROVE  PackagesInv'
  <2> HIDE DEF failed
  <2>1. Commanding(NoTree, task.lock, left, failed)
    BY <1>1, <1>3, CommandFacts DEF Commanding, Fields, PackagesFields
  <2> QED BY <2>1, CommandFails DEF failed
<1>4. CASE task' = [task EXCEPT !.op = failed]
  <2> HIDE DEF failed
  <2>1. Commanding(NoTree, task.lock, task.packages, failed)
    BY <1>1, <1>4, CommandFacts DEF Commanding, Fields, PackagesFields
  <2> QED BY <2>1, CommandFails DEF failed
<1>5. CASE task.op.fromLock /\ IsInstalled(n) /\ task.packages[n].version = want.version /\ task' = [task EXCEPT !.op.todo = rest]
  BY <1>1, <1>5, SkipKept DEF IsInstalled
<1>6. CASE task' = [task EXCEPT !.op.todo = rest, !.op.did = @ \cup {n}, !.packages = Put(task.packages, n, e)]
  <2>1. e.version = want.version /\ e.digest = want.digest /\ e.whole = TRUE
    OBVIOUS
  <2> HIDE DEF e
  <2> QED BY <1>1, <1>6, <2>1, ExtractKept
<1> QED BY <1>2, <1>3, <1>4, <1>5, <1>6, Zenon

(* installFromLockFile, UpdateDependencies, mergeLockFile: the lock says   *)
(* what is installed.                                                      *)
LEMMA LockInstalled ==
  ASSUME NEW op, NEW op2, NEW lock, NEW packages, NEW roots, FromLock(op, lock, packages, roots), op.todo = <<>>,
         op2.name = op.name, op2.did = op.did
  PROVE  Installed(op2, lock, packages, roots)
<1>1. DOMAIN op.todo = {}
  OBVIOUS
<1>2. \A n \in DOMAIN lock.deps : n \in DOMAIN packages /\ packages[n].version = lock.deps[n].version
  BY <1>1 DEF FromLock
<1>3. Covers(roots, lock.deps) /\ Covers(roots, packages) /\ op2.name = "resolve"
  BY <1>2 DEF FromLock, Covers
<1>4. op2.name # "update"
  BY <1>3
<1>5. \A n \in op2.did : /\ packages[n].whole /\ packages[n].version = lock.deps[n].version
                         /\ packages[n].digest = lock.deps[n].digest
  BY <1>2 DEF FromLock
<1> QED BY <1>2, <1>3, <1>4, <1>5 DEF Installed

LEMMA TreeInstalled ==
  ASSUME NEW op, NEW op2, NEW lock, NEW packages, NEW roots, FromTree(op, packages, roots), op.todo = <<>>,
         op2.name = op.name, op2.did = op.did, op.name # "single" => DOMAIN lock.deps = op.did,
         \A n \in op.did : lock.deps[n].version = packages[n].version /\ lock.deps[n].digest = packages[n].digest
  PROVE  Installed(op2, lock, packages, roots)
<1>1. DOMAIN op.todo = {}
  OBVIOUS
<1>4. \A n \in op2.did : /\ packages[n].whole /\ packages[n].version = lock.deps[n].version
                         /\ packages[n].digest = lock.deps[n].digest
  BY DEF FromTree
<1>5. ASSUME op2.name # "single"
      PROVE  /\ Covers(roots, packages) /\ Covers(roots, lock.deps)
             /\ \A n \in DOMAIN lock.deps : n \in DOMAIN packages /\ packages[n].version = lock.deps[n].version
  <2>1. DOMAIN lock.deps = op.did
    BY <1>5
  <2>2. \A d \in ToSet(roots) : d.name \in op.did /\ packages[d.name].version \in d.allowed
    BY <1>1, <1>5 DEF FromTree
  <2>3. \A n \in op.did : n \in DOMAIN packages
    BY DEF FromTree
  <2> QED BY <2>1, <2>2, <2>3 DEF Covers
<1>6. op2.name = "update" => DOMAIN packages = DOMAIN lock.deps
  BY DEF FromTree
<1> QED BY <1>4, <1>5, <1>6 DEF Installed

LEMMA FinishInstallKept ==
  ASSUME PackagesInv, task.kind = "packages", FinishInstall
  PROVE  PackagesInv'
<1> DEFINE op == [task.op EXCEPT !.at = "done"]
           failed == Returns(task.op.name, "failed")
           resolved == [n \in task.op.did |-> [version |-> task.packages[n].version, digest |-> task.packages[n].digest]]
           lock == NewLock(resolved)
<1>1. task.op.at = "install" /\ task.op.todo = <<>> /\ task.tree = NoTree
  BY CommandFacts DEF FinishInstall, InstalledAll
<1>2. Fields(op, OpFields) /\ op.at = "done" /\ op.name = task.op.name /\ op.did = task.op.did
  BY CommandFacts DEF Fields, OpFields
<1>3. TreeFor("packages", task.catalog, task.index, NoTree, op, task.roots)
  BY <1>2 DEF TreeFor
<1>4. op.at \in {"idle", "tree", "install", "done", "failed"} /\ op.at # "install"
  BY <1>2
<1>5. ASSUME task.op.fromLock, task' = [task EXCEPT !.op.at = "done"]
      PROVE  PackagesInv'
  <2>1. FromLock(task.op, task.lock, task.packages, task.roots)
    BY <1>1, <1>5, CommandFacts, Zenon DEF OpInv
  <2>2. Installed(op, task.lock, task.packages, task.roots)
    BY <1>1, <1>2, <2>1, LockInstalled
  <2>3. task' = [task EXCEPT !.op = op]
    BY <1>5, CommandFacts DEF Fields, PackagesFields
  <2> HIDE DEF op
  <2>4. OpInv(op, task.lock, task.packages, task.roots)
    BY <1>2, <1>4, <2>2, Zenon DEF OpInv
  <2>5. Commanding(NoTree, task.lock, task.packages, op)
    BY <1>1, <2>3, CommandFacts DEF Commanding, Fields, PackagesFields
  <2> QED BY <1>3, <2>4, <2>5, CommandReached
<1>6. ASSUME ~task.op.fromLock, task' = [task EXCEPT !.lock = lock, !.op.at = "done"]
      PROVE  PackagesInv'
  <2>1. FromTree(task.op, task.packages, task.roots)
    BY <1>1, <1>6, CommandFacts, Zenon DEF OpInv
  <2>2. lock.deps = IF task.op.name = "single"
                    THEN [n \in DOMAIN task.lock.deps \cup DOMAIN resolved |->
                            IF n \in DOMAIN resolved THEN resolved[n] ELSE task.lock.deps[n]]
                    ELSE resolved
    <3> HIDE DEF resolved
    <3> QED BY DEF NewLock, NoLock
  <2>7. /\ task.op.name # "single" => DOMAIN lock.deps = task.op.did
        /\ \A n \in task.op.did : /\ lock.deps[n].version = task.packages[n].version
                                  /\ lock.deps[n].digest = task.packages[n].digest
    <3>1. DOMAIN resolved = task.op.did
      OBVIOUS
    <3>2. \A n \in task.op.did : /\ resolved[n].version = task.packages[n].version
                                 /\ resolved[n].digest = task.packages[n].digest
      OBVIOUS
    <3> HIDE DEF lock, resolved
    <3>3. \A n \in task.op.did : lock.deps[n] = resolved[n]
      BY <2>2, <3>1
    <3> QED BY <2>2, <3>1, <3>2, <3>3
  <2> HIDE DEF lock, resolved
  <2>3. Installed(op, lock, task.packages, task.roots)
    <3> HIDE DEF op
    <3> QED BY <1>1, <1>2, <2>1, <2>7, TreeInstalled
  <2>4. task' = [task EXCEPT !.lock = lock, !.op = op]
    BY <1>6, CommandFacts DEF Fields, PackagesFields
  <2> HIDE DEF op
  <2>5. OpInv(op, lock, task.packages, task.roots)
    BY <1>2, <1>4, <2>3, Zenon DEF OpInv
  <2>6. Commanding(NoTree, lock, task.packages, op)
    BY <1>1, <2>4, CommandFacts DEF Commanding, Fields, PackagesFields
  <2> QED BY <1>3, <2>5, <2>6, CommandReached
<1>7. ASSUME NEW left, task' = [task EXCEPT !.lock = left, !.op = failed]
      PROVE  PackagesInv'
  <2> HIDE DEF failed
  <2>1. Commanding(NoTree, left, task.packages, failed)
    BY <1>1, <1>7, CommandFacts DEF Commanding, Fields, PackagesFields
  <2> QED BY <2>1, CommandFails DEF failed
<1> QED BY <1>5, <1>6, <1>7, Zenon DEF FinishInstall

(* While dependencies are resolved or installed something is published:    *)
(* what was chosen stays allowed and there.                                *)
LEMMA TreeGrows ==
  ASSUME NEW cat, NEW ix, NEW ix2, DOMAIN ix \subseteq DOMAIN ix2, NEW roots, NEW tree, TreeInv("packages", cat, ix, roots, tree)
  PROVE  TreeInv("packages", cat, ix2, roots, tree)
<1>1. \A asked, n, v : Chosen("packages", cat, ix, asked, n, v) => Chosen("packages", cat, ix2, asked, n, v)
  BY DEF Chosen, Sells
<1> QED BY <1>1 DEF TreeInv, Resolver, ResolvedFit, FindsFit
LEMMA PublishKept ==
  ASSUME PackagesInv, task.kind = "packages", Publish
  PROVE  PackagesInv'
<1>1. PICK n, v : task' = [Turn EXCEPT !.index = Put(@, <<n, v>>, IF <<n, v>> \in DOMAIN @ THEN 2 ELSE 1)]
  BY DEF Publish
<1> DEFINE ix == Put(task.index, <<n, v>>, IF <<n, v>> \in DOMAIN task.index THEN 2 ELSE 1)
<1>2. task' = [Turn EXCEPT !.index = ix]
  BY <1>1, CommandFacts DEF Turn, Fields, PackagesFields
<1>3. DOMAIN task.index \subseteq DOMAIN ix
  BY DEF Put
<1> HIDE DEF ix
<1>4. /\ Fields(task', PackagesFields) /\ task'.kind = "packages" /\ task'.catalog = task.catalog /\ task'.index = ix
      /\ task'.roots = task.roots /\ task'.tree = task.tree /\ task'.lock = task.lock /\ task'.packages = task.packages
      /\ task'.op = task.op
  BY <1>2, CommandFacts DEF Turn, Fields, PackagesFields
<1>5. ResolverShape' /\ IsList(task.roots)'
  BY <1>4 DEF PackagesInv, ResolverShape, CatalogIs, IsList, Fields
<1>6. TreeFor("packages", task.catalog, ix, task.tree, task.op, task.roots)
  BY <1>3, TreeGrows, CommandFacts DEF TreeFor
<1>7. TreeFor(task.kind, task.catalog, task.index, task.tree, task.op, task.roots)'
  BY <1>4, <1>6
<1>8. OpInv(task.op, task.lock, task.packages, task.roots)'
  BY <1>4, CommandFacts
<1> QED BY <1>4, <1>5, <1>7, <1>8 DEF PackagesInv

LEMMA EditKept ==
  ASSUME PackagesInv, task.kind = "packages", Edit
  PROVE  PackagesInv'
<1>1. task.tree = NoTree /\ NoOp.at = "idle"
  <2>1. task.op.at \in {"idle", "done", "failed"}
    BY DEF Edit, Ready
  <2>2. NoOp.at = "idle"
    BY DEF NoOp
  <2> QED BY <2>1, <2>2, CommandFacts
<1>2. \A lock, packages, roots : OpInv(NoOp, lock, packages, roots)
  BY DEF NoOp, OpInv, Fields, OpFields
<1>3. \A cat, ix, roots : TreeFor("packages", cat, ix, NoTree, NoOp, roots)
  BY <1>1 DEF TreeFor
<1>4. ASSUME NEW packages, task' = [Turn EXCEPT !.packages = packages, !.op = NoOp]
      PROVE  PackagesInv'
  <2>1. Commanding(NoTree, task.lock, packages, NoOp)
    BY <1>1, <1>4, CommandFacts DEF Turn, Commanding, Fields, PackagesFields
  <2> QED BY <1>2, <1>3, <2>1, CommandReached
<1>5. ASSUME NEW i \in DOMAIN task.roots, NEW allowed, task' = [Turn EXCEPT !.roots[i].allowed = allowed, !.op = NoOp]
      PROVE  PackagesInv'
  <2> DEFINE roots == [task.roots EXCEPT ![i].allowed = allowed]
  <2>1. task' = [Turn EXCEPT !.roots = roots, !.op = NoOp]
    BY <1>5, CommandFacts DEF Turn, Fields, PackagesFields
  <2>2. IsList(roots)
    <3>1. PICK S : task.roots \in Seq(S)
      BY CommandFacts DEF IsList
    <3>2. /\ Len(task.roots) \in Nat /\ DOMAIN task.roots = 1 .. Len(task.roots) /\ \A j \in 1 .. Len(task.roots) : task.roots[j] \in S
      BY <3>1, SeqFacts
    <3> DEFINE d == [task.roots[i] EXCEPT !.allowed = allowed]
    <3>3. roots \in [1 .. Len(task.roots) -> S \cup {d}]
      <4>1. roots = [task.roots EXCEPT ![i] = d] /\ task.roots = [j \in 1 .. Len(task.roots) |-> task.roots[j]]
        BY <3>1
      <4> HIDE DEF d, roots
      <4> QED BY <3>2, <4>1
    <3>4. roots \in Seq(S \cup {d})
      BY <3>2, <3>3
    <3> QED BY <3>4 DEF IsList
  <2> HIDE DEF roots
  <2>3. /\ Fields(task', PackagesFields) /\ task'.kind = "packages" /\ task'.catalog = task.catalog /\ task'.index = task.index
        /\ task'.roots = roots /\ task'.tree = NoTree /\ task'.lock = task.lock /\ task'.packages = task.packages
        /\ task'.op = NoOp
    BY <1>1, <2>1, CommandFacts DEF Turn, Fields, PackagesFields
  <2>4. ResolverShape' /\ IsList(task.roots)'
    BY <2>2, <2>3 DEF PackagesInv, ResolverShape, CatalogIs, IsList, Fields
  <2>5. TreeFor(task.kind, task.catalog, task.index, task.tree, task.op, task.roots)' /\ OpInv(task.op, task.lock, task.packages, task.roots)'
    BY <1>2, <1>3, <2>3
  <2> QED BY <2>3, <2>4, <2>5 DEF PackagesInv
<1> QED BY <1>4, <1>5 DEF Edit

LEMMA PackagesStopKept ==
  ASSUME PackagesInv, task.kind = "packages", PackagesStop
  PROVE  PackagesInv'
<1>1. task' = [task EXCEPT !.pc = "ok"]
  BY DEF PackagesStop
<1>2. Commanding(task.tree, task.lock, task.packages, task.op)
  BY <1>1, CommandFacts DEF Commanding, Fields, PackagesFields
<1> QED BY <1>2, CommandFacts, CommandReached

(* What the invariant says of a state: the dependencies fit.               *)
LEMMA FitsTogetherThen ==
  ASSUME PackagesInv, task.kind = "resolve", task.pc = "ok"
  PROVE  FitsTogether
<1>1. TreeInv("resolve", task.catalog, task.index, task.roots, task.tree) /\ task.tree.calls = <<>> /\ CatalogIs(task.catalog)
  BY DEF PackagesInv, TreeIs, ResolverShape
<1>2. ASSUME task.tree.err = "none"
      PROVE  /\ \A d \in ToSet(task.roots) : d.name \in DOMAIN Tree.resolved
             /\ \A n \in DOMAIN Tree.resolved :
                  /\ Tree.resolved[n].version =
                        Max({v \in Published(n) : \A q \in Tree.asked : q.name = n => v \in q.allowed} \cup {0})
                  /\ \A d \in ToSet(task.catalog[n][Tree.resolved[n].version]) :
                       d.name \in DOMAIN Tree.resolved /\ Tree.resolved[d.name].version \in d.allowed
  <2>1. /\ Covers(task.roots, task.tree.resolved)
        /\ \A n \in DOMAIN task.tree.resolved :
              /\ Chosen("resolve", task.catalog, task.index, task.tree.asked, n, task.tree.resolved[n].version)
              /\ \A d \in DepsOf(task.catalog, n, task.tree.resolved[n].version) :
                   d.name \in DOMAIN task.tree.resolved /\ task.tree.resolved[d.name].version \in d.allowed
    BY <1>1, <1>2, TreeDone
  <2>2. ASSUME NEW n \in DOMAIN task.tree.resolved
        PROVE  task.tree.resolved[n].version =
                  Max({v \in Published(n) : \A q \in task.tree.asked : q.name = n => v \in q.allowed} \cup {0})
    <3> DEFINE S == {v \in Published(n) : \A q \in task.tree.asked : q.name = n => v \in q.allowed} \cup {0}
               top == task.tree.resolved[n].version
    <3>1. \A v : v \in S <=> v = 0 \/ (Sells(task.catalog, task.index, n, v) /\ Allowed(task.tree.asked, n, v))
      BY DEF Published, Sells, Allowed
    <3>2. S \subseteq Nat
      <4>1. ASSUME NEW v, v \in S PROVE v \in Nat
        <5>1. v = 0 \/ (n \in DOMAIN task.catalog /\ v \in DOMAIN task.catalog[n])
          <6> HIDE DEF S
          <6> QED BY <3>1, <4>1 DEF Sells
        <5> QED BY <1>1, <5>1 DEF CatalogIs
      <4> QED BY <4>1
    <3>3. top \in S /\ \A w \in S : w <= top
      <4>1. Chosen("resolve", task.catalog, task.index, task.tree.asked, n, top)
        BY <2>1
      <4> HIDE DEF S, top
      <4>2. top \in S /\ top \in Nat
        BY <3>1, <3>2, <4>1 DEF Chosen
      <4>3. \A w \in S : w <= top
        BY <3>1, <3>2, <4>1, <4>2 DEF Chosen
      <4> QED BY <4>2, <4>3
    <3> HIDE DEF S, top
    <3>4. top = Max(S)
      <4>1. \A x \in S : x \in Nat /\ ((\A y \in S : x >= y) <=> x = top)
        BY <3>2, <3>3
      <4> QED BY <3>3, <4>1 DEF Max
    <3> QED BY <3>4 DEF S, top
  <2> QED BY <2>1, <2>2 DEF Tree, Covers, DepsOf
<1>3. task.tree.err = "cycle" => Circle(task.catalog)
  BY <1>1 DEF TreeInv
<1> QED BY <1>2, <1>3 DEF FitsTogether, Tree, Circle

LEMMA CommandFits ==
  ASSUME PackagesInv, task.kind = "packages", task.op.at = "done"
  PROVE  /\ task.op.name # "single" =>
              /\ \A n \in DOMAIN ListStatus : ListStatus[n] = "ok"
              /\ \A d \in ToSet(task.roots) : task.lock.deps[d.name].version \in d.allowed
         /\ \A n \in task.op.did :
              /\ task.packages[n].whole /\ task.packages[n].version = task.lock.deps[n].version
              /\ task.packages[n].digest = task.lock.deps[n].digest
         /\ task.op.name = "update" => DOMAIN task.packages = DOMAIN task.lock.deps
<1>1. Installed(task.op, task.lock, task.packages, task.roots)
  BY CommandFacts, Zenon DEF OpInv
<1>2. ASSUME task.op.name # "single"
      PROVE  \A n \in DOMAIN ListStatus : ListStatus[n] = "ok"
  <2>1. /\ Covers(task.roots, task.packages)
        /\ \A n \in DOMAIN task.lock.deps : n \in DOMAIN task.packages /\ task.packages[n].version = task.lock.deps[n].version
    BY <1>1, <1>2 DEF Installed
  <2>2. \A d \in ToSet(task.roots) : DirectStatus(d) = "ok"
    BY <2>1 DEF DirectStatus, IsInstalled, Covers
  <2>3. \A n \in DOMAIN task.lock.deps : LockedStatus(n) = "ok"
    BY <2>1 DEF LockedStatus, IsInstalled
  <2>4. \A n \in RootNames : (CHOOSE d \in ToSet(task.roots) : d.name = n) \in ToSet(task.roots)
    BY DEF RootNames, ToSet
  <2> QED BY <2>2, <2>3, <2>4 DEF ListStatus
<1>3. task.op.name # "single" => \A d \in ToSet(task.roots) : task.lock.deps[d.name].version \in d.allowed
  BY <1>1 DEF Installed, Covers
<1> QED BY <1>1, <1>2, <1>3 DEF Installed

LEMMA PackagesStepKept ==
  ASSUME PackagesInv, PackagesStep
  PROVE  PackagesInv'
BY ResolverStepKept, ResolverStopsKept, BeginResolveKept, BeginUpdateKept, TreeEndsKept, InstallOneKept, FinishInstallKept,
   PublishKept, EditKept, PackagesStopKept DEF PackagesStep

LEMMA PackagesBegin ==
  ASSUME NEW catalog, NEW index, NEW roots, NEW turns, CatalogInputs(catalog, index, roots),
         task = ResolveTask(catalog, roots) \/ task = PackagesTask(catalog, index, roots, turns)
  PROVE  PackagesInv
<1>1. CatalogIs(catalog) /\ IsList(roots)
  BY DEF CatalogInputs, CatalogIs, IsList
<1>2. CASE task = ResolveTask(catalog, roots)
  <2>1. /\ Fields(task, ResolveFields) /\ task.kind = "resolve" /\ task.pc = "run" /\ task.catalog = catalog /\ task.roots = roots
        /\ task.tree = ResolveTree(roots)
    BY <1>2 DEF ResolveTask, Fields, ResolveFields
  <2>2. TreeIs(task.roots, task.tree)
    BY <1>1, <2>1, TreeBegins DEF TreeIs
  <2> QED BY <1>1, <2>1, <2>2 DEF PackagesInv, ResolverShape
<1>3. CASE task = PackagesTask(catalog, index, roots, turns)
  <2>1. /\ Fields(task, PackagesFields) /\ task.kind = "packages" /\ task.catalog = catalog /\ task.roots = roots
        /\ task.tree = NoTree /\ task.op = NoOp
    BY <1>3 DEF PackagesTask, Fields, PackagesFields
  <2>2. NoOp.at = "idle"
    BY DEF NoOp
  <2>3. OpInv(NoOp, task.lock, task.packages, task.roots)
    BY DEF NoOp, OpInv, Fields, OpFields
  <2>4. TreeFor(task.kind, task.catalog, task.index, task.tree, task.op, task.roots)
    BY <2>1, <2>2 DEF TreeFor
  <2> QED BY <1>1, <2>1, <2>3, <2>4 DEF PackagesInv, ResolverShape
<1> QED BY <1>2, <1>3

(* ResolveDependencies, UpdateDependencies, UpdateSingleDependency: for    *)
(* any catalog, index and direct dependencies.                             *)
THEOREM DependenciesKept == PackagesSpec => [](task.kind \in {"resolve", "packages"} /\ DependenciesFit)
<1>1. PackagesSpec => PackagesInv
  BY PackagesBegin DEF PackagesSpec
<1>2. PackagesInv /\ [PackagesStep]_taskVars => PackagesInv'
  <2>1. ASSUME PackagesInv, UNCHANGED taskVars PROVE PackagesInv'
    <3>1. task' = task
      BY <2>1 DEF taskVars
    <3> QED BY <2>1, <3>1 DEF PackagesInv, ResolverShape, CatalogIs, IsList, Fields, TreeIs
  <2> QED BY <2>1, PackagesStepKept
<1>3. PackagesInv => task.kind \in {"resolve", "packages"} /\ DependenciesFit
  <2>1. PackagesInv => task.kind \in {"resolve", "packages"}
    BY DEF PackagesInv, ResolverShape
  <2> QED BY <2>1, FitsTogetherThen, CommandFits DEF DependenciesFit
<1> QED BY <1>1, <1>2, <1>3, PTL DEF PackagesSpec

-----------------------------------------------------------------------------
(* Every part of it keeps DependenciesHold: the other parts of the property *)
(* are about tasks of another kind.                                        *)
LEMMA OfItsKind ==
  ASSUME \/ task.kind \in {"resolve", "packages"} /\ DependenciesFit
         \/ task.kind = "registry" /\ RepositoryKeepsFaith
         \/ task.kind = "request" /\ RequestsBehave
         \/ task.kind = "files" /\ FilesAgree
         \/ task.kind = "plugins" /\ PluginsComeWhole
  PROVE  DependenciesHold
<1>1. task.kind \notin {"resolve", "packages"} => DependenciesFit
  BY DEF DependenciesFit
<1>2. task.kind # "registry" => RepositoryKeepsFaith
  BY DEF RepositoryKeepsFaith, FetchedAsDeclared, VerifiedWasSigned, IndexTellsTruth, Finished
<1>3. task.kind # "request" => RequestsBehave
  BY DEF RequestsBehave, CredentialsAuthorised, AnswersAreFinal
<1>4. task.kind # "files" => FilesAgree
  BY DEF FilesAgree
<1>5. task.kind # "plugins" => PluginsComeWhole
  BY DEF PluginsComeWhole
<1> QED BY <1>1, <1>2, <1>3, <1>4, <1>5 DEF DependenciesHold

(* The packages installed fit what asks for them and are those that were   *)
(* published, and what goes over the wire for them goes where the user     *)
(* said: for any catalogs, publications, hosts, files and plugins.         *)
THEOREM PackagesHold ==
  ASSUME NEW hosts
  PROVE  /\ PackagesSpec => []DependenciesHold
         /\ RegistrySpec => []DependenciesHold
         /\ TransportSpec(hosts) => []DependenciesHold
         /\ UserFilesSpec => []DependenciesHold
         /\ PluginsSpec => []DependenciesHold
<1>1. (task.kind \in {"resolve", "packages"} /\ DependenciesFit) => DependenciesHold
  BY OfItsKind
<1>2. (task.kind = "registry" /\ RepositoryKeepsFaith) => DependenciesHold
  BY OfItsKind
<1>3. (task.kind = "request" /\ RequestsBehave) => DependenciesHold
  BY OfItsKind
<1>4. (task.kind = "files" /\ FilesAgree) => DependenciesHold
  BY OfItsKind
<1>5. (task.kind = "plugins" /\ PluginsComeWhole) => DependenciesHold
  BY OfItsKind
<1>6. PackagesSpec => []DependenciesHold
  BY <1>1, DependenciesKept, PTL
<1>7. RegistrySpec => []DependenciesHold
  BY <1>2, FaithKept, PTL
<1>8. TransportSpec(hosts) => []DependenciesHold
  BY <1>3, RequestsKept, PTL
<1>9. UserFilesSpec => []DependenciesHold
  BY <1>4, FilesKept, PTL
<1>10. PluginsSpec => []DependenciesHold
  BY <1>5, PluginsAreKept, PTL
<1> QED BY <1>6, <1>7, <1>8, <1>9, <1>10
=============================================================================
