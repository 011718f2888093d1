------------------------------ MODULE Transport -----------------------------
(***************************************************************************)
(* One HTTP exchange with a package repository (internal/repo:             *)
(* httpclient.go, credentials.go, the fetches of repo.go; the upload of    *)
(* internal/cli/publish.go): the client chosen for the URL, the            *)
(* credentials put on the request, what becomes of them at every redirect, *)
(* and the attempts.                                                       *)
(*                                                                         *)
(* A URL is a scheme, a host and a path.  settings holds the user's files: *)
(* the configured repositories in order, the credential store (the header  *)
(* each host's credential is sent in, whether the file can be read, the    *)
(* hosts a credential helper is named for and those it knows), and whether *)
(* KERAMOS_ALLOW_PLAINTEXT_AUTH is set.                                    *)
(***************************************************************************)
EXTENDS ClusterTask

MaxHops == 3       \* bound: redirects followed in one attempt
maxRetries == 3    \* the attempts of a request

Url(scheme, host, path) == [scheme |-> scheme, host |-> host, path |-> path]
RepoConfig(url, pass, all) == [url |-> url, pass |-> pass, all |-> all]
NoHeader == ""                                  \* no credentials
NoPolicy == [pass |-> FALSE, all |-> FALSE]     \* the zero ClientConfig

(* Do: client names how the client is made, body what the request sends,   *)
(* use what the answer is for.  at, hop and carries are the request that   *)
(* goes out next and the header with credentials on it; tries tells how    *)
(* every attempt ended.                                                    *)
RequestTask(settings, url, client, use, body) ==
    [kind |-> "request", pc |-> "client", settings |-> settings, url |-> url, client |-> client, use |-> use, body |-> body,
     policy |-> NoPolicy, header |-> NoHeader, at |-> url, hop |-> 0, carries |-> NoHeader, tries |-> <<>>]

(* GetForHost, matchCredHelper: the stored credential, or what a helper    *)
(* named for the host, or for a pattern of hosts, answers.                 *)
GetForHost(s, host) ==
    CASE host \in DOMAIN s.stored -> s.stored[host]
      [] host \in (s.helped \cap s.known) \ DOMAIN s.stored -> "Authorization"
      [] OTHER -> NoHeader

(* Mutant: the path of the repository is not looked at.                    *)
SameHost(url, repo) == url.scheme = repo.scheme /\ url.host = repo.host
(* urlUnderRepo                                                            *)
UrlUnderRepo(url, repo) == url.scheme = repo.scheme /\ url.host = repo.host /\ IsPrefix(repo.path, url.path)

(* ClientForURL: the first repository the URL lies under.                  *)
PolicyFor(s, url) ==
    LET under == {i \in DOMAIN s.repos : UrlUnderRepo(url, s.repos[i].url)}
    IN  IF under = {} THEN NoPolicy ELSE [pass |-> s.repos[Min(under)].pass, all |-> s.repos[Min(under)].all]

(* Over this URL credentials may travel (injectHeaders, redirectPolicy).   *)
Private(s, url) == url.scheme = "https" \/ s.plain

(* injectHeaders                                                           *)
Injected(s, url, store) == IF store /\ Private(s, url) THEN GetForHost(s, url.host) ELSE NoHeader

(* DefaultClient needs a readable store; NewClientWithTLS has none;        *)
(* ClientForURL does with an empty one when it cannot be read.             *)
MakeClient ==
    /\ task.kind = "request" /\ task.pc = "client" /\ TNoFault
    /\ LET s == task.settings
           header == Injected(s, task.url, task.client # "flags" /\ s.readable)
       IN  IF task.client = "default" /\ ~s.readable THEN task' = [task EXCEPT !.pc = "error"]
           ELSE task' = [task EXCEPT !.pc = "send", !.header = header, !.carries = header,
                                     !.policy = IF task.client = "url" THEN PolicyFor(s, task.url) ELSE NoPolicy]

CrossHost(url) == url.host # task.url.host
Blocked(url) == CrossHost(url) /\ ~task.policy.pass /\ ~task.policy.all

(* Mutant: a host that was allowed once is allowed at every hop.           *)
ForwardsAlways(url) == (task.policy.all \/ task.policy.pass \/ ~CrossHost(url)) /\ Private(task.settings, url)
(* redirectPolicy: whether the credentials of the first request go with    *)
(* the redirect; otherwise both headers are taken off.                     *)
Forwards(url) ==
    /\ task.policy.all \/ (task.policy.pass /\ task.hop = 0) \/ ~CrossHost(url)
    /\ Private(task.settings, url)

(* FetchIndexWith and downloadArchive want 200, publishHTTP any 2xx.       *)
Accepted(answer) == answer = "200" \/ (answer = "201" /\ task.use = "publish")

(* Mutant: an answer that refuses is asked again.                          *)
RetriedToo == {"500", "lost", "blocked", "400"}
(* Do: what is tried again: the errors of the transport, a redirect that   *)
(* was blocked among them, and the answers from 500 on.                    *)
Retried == {"500", "lost", "blocked"}

(* Do: an attempt ends.  A body that cannot be read again is not sent      *)
(* again.                                                                  *)
Ends(outcome) ==
    LET t == [task EXCEPT !.tries = Append(@, outcome)]
    IN  CASE outcome \notin Retried -> [t EXCEPT !.pc = IF Accepted(outcome) THEN "ok" ELSE "error"]
          [] outcome \in Retried /\ (Len(t.tries) = maxRetries \/ task.body = "spent") -> [t EXCEPT !.pc = "error"]
          [] OTHER -> [t EXCEPT !.at = task.url, !.hop = 0, !.carries = task.header]

(* The server answers, redirects, or is not heard of.                      *)
Exchange(hosts) ==
    /\ task.kind = "request" /\ task.pc = "send" /\ TNoFault
    /\ \/ \E answer \in {"200", "201", "400", "500", "lost"} : task' = Ends(answer)
       \/ /\ task.hop < MaxHops
          /\ \E scheme \in {"http", "https"}, host \in hosts :
               LET next == Url(scheme, host, task.url.path) IN
               task' = IF Blocked(next) THEN Ends("blocked")
                       ELSE [task EXCEPT !.at = next, !.hop = @ + 1, !.carries = IF Forwards(next) THEN task.header ELSE NoHeader]

TransportStep(hosts) == MakeClient \/ Exchange(hosts)

(* Any request, with any settings, redirected to any of the hosts.         *)
TransportSpec(hosts) ==
    /\ \E settings, url, client, use, body : /\ settings.repos \in Seq(Range(settings.repos))
                                             /\ task = RequestTask(settings, url, client, use, body)
    /\ tfaults = MaxTaskFaults /\ [][TransportStep(hosts)]_taskVars

-----------------------------------------------------------------------------
(* redirectPolicy, injectHeaders, ClientForURL: a request carries          *)
(* credentials only where plaintext is no matter, only those of the host   *)
(* the user named, and to another host only as far as the repository that  *)
(* the URL lies under was told to pass them on.                            *)
CredentialsAuthorised ==
    task.kind = "request" /\ task.carries # NoHeader =>
        /\ \A url \in {task.url, task.at} : url.scheme = "https" \/ task.settings.plain
        /\ task.client # "flags" /\ task.carries = GetForHost(task.settings, task.url.host)
        /\ task.at.host # task.url.host =>
              \E r \in ToSet(task.settings.repos) :
                 /\ r.url.host = task.url.host /\ IsPrefix(r.url.path, task.url.path)
                 /\ r.all \/ (r.pass /\ task.hop = 1)

(* Do: whatever is answered is the answer; only what failed on the way is  *)
(* asked again, and given up after three attempts and not before.          *)
AnswersAreFinal ==
    task.kind = "request" =>
        /\ Len(task.tries) <= 3
        /\ \A i \in 1..(Len(task.tries) - 1) : task.tries[i] \in {"500", "lost", "blocked"}
        /\ (task.pc = "error" /\ task.tries # <<>> /\ Last(task.tries) \in {"500", "lost", "blocked"} /\ task.body # "spent")
              => Len(task.tries) = 3

RequestsBehave == CredentialsAuthorised /\ AnswersAreFinal
=============================================================================
