------------------------------ MODULE Registry ------------------------------
(***************************************************************************)
(* A package in a repository (internal/repo: archive.go, index.go,         *)
(* signing.go, digest.go, source.go, the downloads of repo.go and          *)
(* dependency.go; internal/cli: package_cmd.go, repo_cmd.go, pull.go,      *)
(* verify.go): a publisher who packages, signs, indexes and removes while  *)
(* a user's commands read the index, fetch archives and check them.        *)
(*                                                                         *)
(* The package has one name.  An archive of a version is a body, "torn"    *)
(* when it was cut short; its digest tells bodies apart, so a body stands  *)
(* for its digest too.  dir is the directory the server serves: archives   *)
(* and provenance by version (a provenance names the body it was made of   *)
(* and the key) and index.yaml.  home is the user's side: the cache of     *)
(* sources, what pull placed, packages/ with what is unpacked and the      *)
(* archives and provenances retained beside it, and the lock.              *)
(***************************************************************************)
EXTENDS ClusterTask

NoIndex == <<[version |-> 0, digest |-> "no index.yaml"]>>
NoDigest == ""
NoEntry == [version |-> 0, digest |-> NoDigest]
Home0 == [cache |-> <<>>, pulled |-> <<>>, unpacked |-> "nothing", kept |-> <<>>, provs |-> <<>>, lock |-> NoEntry]

(* What the publisher does, in order, and what the user does, in order.    *)
Archive(v, body, key) == [op |-> "package", v |-> v, body |-> body, key |-> key]
Index(merge) == [op |-> "index", merge |-> merge]
Withdraw(v) == [op |-> "remove", v |-> v]
Pull(v, verify) == [cmd |-> "pull", v |-> v, verify |-> verify]
Fetch(allowed) == [cmd |-> "source", allowed |-> allowed]
Update(allowed) == [cmd |-> "update", allowed |-> allowed]
Verify == [cmd |-> "verify"]
NoCmd == [cmd |-> "none"]

RegistryTask(plan, script, keyring) ==
    [kind |-> "registry", pc |-> "run", plan |-> plan, script |-> script, keyring |-> keyring,
     dir |-> [archives |-> <<>>, provs |-> <<>>, index |-> NoIndex], doing |-> "idle", merged |-> <<>>, left |-> <<>>, fresh |-> FALSE,
     declared |-> {}, signed |-> {}, home |-> Home0,
     cmd |-> NoCmd, at |-> "idle", want |-> NoEntry, seen |-> NoEntry, got |-> "nothing", last |-> NoCmd]

SetAt(f, k, x) == [j \in DOMAIN f \cup {k} |-> IF j = k THEN x ELSE f[j]]
Drop(f, k) == [j \in DOMAIN f \ {k} |-> f[j]]

-----------------------------------------------------------------------------
(* The publisher: doing is what is under way.                              *)
Publishes(op) == task.kind = "registry" /\ task.pc = "run" /\ task.plan # <<>> /\ Head(task.plan).op = op

(* PackageArchiveOpts, createArchive: the file is written over what was    *)
(* there; stopped on the way, part of it stays.  SignPackage follows.      *)
PackageArchive ==
    /\ Publishes("package") /\ task.doing = "idle"
    /\ LET op == Head(task.plan)
           done(body, sign) == [task EXCEPT !.dir.archives = SetAt(@, op.v, body), !.fresh = FALSE,
                                            !.doing = IF sign THEN "signing" ELSE "idle", !.plan = IF sign THEN @ ELSE Tail(@)]
       IN  \/ task' = done(op.body, op.key # "") /\ TNoFault
           \/ task' = done("torn", FALSE) /\ TFault

(* SignPackageWithPassphrase: the digest of the archive as it is now.      *)
SignPackage ==
    /\ Publishes("package") /\ task.doing = "signing"
    /\ LET op == Head(task.plan)
           body == task.dir.archives[op.v]
       IN  \/ /\ TNoFault
              /\ task' = [task EXCEPT !.doing = "idle", !.plan = Tail(@), !.signed = @ \cup {<<body, op.key>>},
                                      !.dir.provs = SetAt(@, op.v, [of |-> body, key |-> op.key])]
           \/ task' = [task EXCEPT !.doing = "idle", !.plan = Tail(@)] /\ TFault

(* The order of version strings: "9" comes after "10".                     *)
TextRank(v) == IF v < 10 THEN v + 10 ELSE v \div 10

Entry(v, body) == [version |-> v, digest |-> body]
(* GenerateIndex, buildIndexEntry: an entry for every archive of the       *)
(* directory, by version text, the last first.                             *)
Generated(archives) ==
    {s \in SetToSeqs({Entry(v, archives[v]) : v \in DOMAIN archives}) :
        \A i, j \in DOMAIN s : i < j => TextRank(s[i].version) >= TextRank(s[j].version)}

(* repo index: an archive that cannot be read stops it before anything is  *)
(* written.  With --merge the entries are merged into those of the index   *)
(* there is.                                                               *)
GenerateIndex ==
    /\ Publishes("index") /\ task.doing = "idle" /\ TNoFault
    /\ LET d == task.dir
           existing == IF d.index = NoIndex THEN <<>> ELSE d.index
       IN  \/ "torn" \in Range(d.archives) /\ task' = [task EXCEPT !.plan = Tail(@)]
           \/ /\ "torn" \notin Range(d.archives)
              /\ \E s \in Generated(d.archives) :
                   task' = [task EXCEPT !.doing = "merging", !.merged = IF Head(task.plan).merge THEN existing ELSE s,
                                        !.left = IF Head(task.plan).merge THEN s ELSE <<>>]

SameVersion(entries, e) == {i \in DOMAIN entries : entries[i].version = e.version}
(* Mutant: what is listed already stays as it is.                          *)
KeepsListed(entries, e) == IF SameVersion(entries, e) = {} THEN Append(entries, e) ELSE entries
(* MergeIndex, of one entry: it takes the place of the first of its        *)
(* version, a new version goes to the end.                                 *)
MergeEntry(entries, e) ==
    IF SameVersion(entries, e) = {} THEN Append(entries, e) ELSE [entries EXCEPT ![Min(SameVersion(entries, e))] = e]

MergeIndex ==
    /\ Publishes("index") /\ task.doing = "merging" /\ task.left # <<>> /\ TNoFault
    /\ task' = [task EXCEPT !.merged = MergeEntry(@, Head(task.left)), !.left = Tail(@)]

SaveIndex ==
    /\ Publishes("index") /\ task.doing = "merging" /\ task.left = <<>> /\ TNoFault
    /\ task' = [task EXCEPT !.doing = "idle", !.plan = Tail(@), !.dir.index = task.merged, !.merged = <<>>, !.fresh = TRUE,
                            !.declared = @ \cup ToSet(task.merged)]

(* An archive is taken away by hand, its provenance stays.                 *)
WithdrawArchive ==
    /\ Publishes("remove") /\ TNoFault
    /\ task' = [task EXCEPT !.plan = Tail(@), !.dir.archives = Drop(@, Head(task.plan).v), !.fresh = FALSE]

-----------------------------------------------------------------------------
(* The user.                                                               *)
Doing(cmd, at) == task.kind = "registry" /\ task.pc = "run" /\ task.cmd.cmd = cmd /\ task.at = at
Over(ok, home) == [task EXCEPT !.cmd = NoCmd, !.at = "idle", !.home = home, !.want = NoEntry, !.seen = NoEntry, !.got = "nothing",
                               !.last = IF ok THEN [cmd |-> task.cmd.cmd, asked |-> task.cmd, version |-> task.seen.version, got |-> task.got]
                                        ELSE [cmd |-> "failed"]]
Fails(home) == task' = Over(FALSE, home)

BeginCommand ==
    /\ task.kind = "registry" /\ task.pc = "run" /\ task.at = "idle" /\ task.script # <<>> /\ TNoFault
    /\ task' = [task EXCEPT !.cmd = Head(task.script), !.script = Tail(@), !.last = NoCmd,
                            !.at = CASE Head(task.script).cmd = "pull" -> "entry"
                                     [] Head(task.script).cmd = "verify" -> "verify" [] OTHER -> "resolve"]

Entries == task.dir.index
HasIndex == Entries # NoIndex

(* resolveRegistryVersion: the first entry that is allowed, in the order of *)
(* the index; FetchRegistrySource: taken from the cache when it is there.  *)
ResolveSource ==
    /\ Doing("source", "resolve")
    /\ LET found == {i \in DOMAIN Entries : Entries[i].version \in task.cmd.allowed}
       IN  \/ /\ TNoFault /\ HasIndex /\ found # {}
              /\ LET e == Entries[Min(found)] IN
                 task' = IF e.version \in DOMAIN task.home.cache
                         THEN [Over(TRUE, task.home) EXCEPT !.last.version = e.version, !.last.got = task.home.cache[e.version]]
                         ELSE [task EXCEPT !.want = [e EXCEPT !.digest = NoDigest], !.at = "entry"]
           \/ ~(HasIndex /\ found # {}) /\ TNoFault /\ Fails(task.home)
           \/ TFault /\ Fails(task.home)

(* findHighestCompatible, for the one dependency: the highest version, its *)
(* digest with it.                                                         *)
ResolveDependency ==
    /\ Doing("update", "resolve")
    /\ LET found == {e \in ToSet(Entries) : e.version \in task.cmd.allowed}
       IN  \/ /\ TNoFault /\ HasIndex /\ found # {}
              /\ \E e \in found : /\ \A f \in found : f.version <= e.version
                                  /\ task' = [task EXCEPT !.want = e, !.at = "entry"]
           \/ ~(HasIndex /\ found # {}) /\ TNoFault /\ Fails(task.home)
           \/ TFault /\ Fails(task.home)

(* The index is read (again): DownloadPackageResolvedWith looks for the    *)
(* version it was told, pull for its own or takes the first.               *)
FindEntry ==
    /\ task.kind = "registry" /\ task.at = "entry"
    /\ LET v == IF task.cmd.cmd = "pull" THEN task.cmd.v ELSE task.want.version
           found == {i \in DOMAIN Entries : v = 0 \/ Entries[i].version = v}
       IN  \/ HasIndex /\ found # {} /\ TNoFault /\ task' = [task EXCEPT !.seen = Entries[Min(found)], !.at = "archive"]
           \/ ~(HasIndex /\ found # {}) /\ TNoFault /\ Fails(task.home)
           \/ TFault /\ Fails(task.home)

(* Mutant: the digest of the index is not compared.                        *)
AnyDigest(body) == TRUE
(* VerifyDigest: of the index, and of the lock when there is one; pull     *)
(* compares neither.                                                       *)
DigestFits(body) == task.cmd.cmd # "pull" => body = task.seen.digest /\ task.want.digest \in {NoDigest, body}

(* downloadArchive: the archive as it is served now.                       *)
DownloadArchive ==
    /\ task.kind = "registry" /\ task.at = "archive"
    /\ LET v == task.seen.version
           there == v \in DOMAIN task.dir.archives
       IN  \/ /\ there /\ DigestFits(task.dir.archives[v]) /\ TNoFault
              /\ task' = [task EXCEPT !.got = task.dir.archives[v],
                                      !.at = IF task.cmd.cmd # "pull" THEN "extract" ELSE IF task.cmd.verify THEN "prov" ELSE "place"]
           \/ ~(there /\ DigestFits(task.dir.archives[v])) /\ TNoFault /\ Fails(task.home)
           \/ TFault /\ Fails(task.home)

(* Mutant: any signature of the archive will do.                           *)
SignedBySomeone(prov, body, keyring) == prov.of = body
(* verifyProvenance, verifyProvenanceContent: signed by a key of the       *)
(* keyring, of this very archive.                                          *)
SignatureFits(prov, body, keyring) == prov.key \in keyring /\ prov.of = body

(* VerifyArchive: the provenance as it is served now.                      *)
VerifyArchive ==
    /\ Doing("pull", "prov")
    /\ LET v == task.seen.version
           fits == v \in DOMAIN task.dir.provs /\ SignatureFits(task.dir.provs[v], task.got, task.keyring)
       IN  \/ fits /\ TNoFault /\ task' = [task EXCEPT !.at = "place"]
           \/ ~fits /\ TNoFault /\ Fails(task.home)
           \/ TFault /\ Fails(task.home)

(* pull: the archive is moved to its place.                                *)
PlaceArchive ==
    /\ Doing("pull", "place") /\ TNoFault
    /\ task' = Over(TRUE, [task.home EXCEPT !.pulled = SetAt(@, task.seen.version, task.got)])

(* ExtractArchive into the cache, or over packages/, which is emptied      *)
(* first; an entry that is refused, or a disk that is full, leaves part.   *)
(* A dependency's archive is then retained beside it.                      *)
ExtractSource ==
    /\ Doing("source", "extract")
    /\ LET into(x) == [task.home EXCEPT !.cache = SetAt(@, task.seen.version, x)]
       IN  \/ TNoFault /\ task' = Over(TRUE, into(task.got))
           \/ TFault /\ Fails(into("part"))
ExtractDependency ==
    /\ Doing("update", "extract")
    /\ \/ /\ TNoFault
          /\ task' = [task EXCEPT !.home.unpacked = task.got, !.home.kept = SetAt(@, task.seen.version, task.got), !.at = "prov"]
       \/ \E x \in {"part", "nothing"} : TFault /\ Fails([task.home EXCEPT !.unpacked = x])

(* retainForVerification: the provenance, when the server has one, then    *)
(* the lock.                                                               *)
RetainProvenance ==
    /\ Doing("update", "prov")
    /\ LET v == task.seen.version
           lock == [version |-> v, digest |-> task.want.digest]
           with == [task.home EXCEPT !.provs = SetAt(@, v, task.dir.provs[v]), !.lock = lock]
       IN  \/ v \in DOMAIN task.dir.provs /\ TNoFault /\ task' = Over(TRUE, with)
           \/ v \notin DOMAIN task.dir.provs /\ TNoFault /\ task' = Over(TRUE, [task.home EXCEPT !.lock = lock])
           \/ TFault /\ task' = Over(TRUE, [task.home EXCEPT !.lock = lock])

(* verifyInstalledSignatures (install --verify): nothing to verify without *)
(* a lock; a retained archive that is not the locked one is removed.       *)
VerifyInstalled ==
    /\ Doing("verify", "verify") /\ TNoFault
    /\ LET h == task.home
           v == h.lock.version
           kept == v \in DOMAIN h.kept
       IN  \/ h.lock = NoEntry /\ task' = Over(TRUE, h)
           \/ h.lock # NoEntry /\ ~kept /\ Fails(h)
           \/ h.lock # NoEntry /\ kept /\ h.kept[v] # h.lock.digest /\ Fails([h EXCEPT !.kept = Drop(@, v)])
           \/ /\ h.lock # NoEntry /\ kept /\ h.kept[v] = h.lock.digest
              /\ IF v \in DOMAIN h.provs /\ SignatureFits(h.provs[v], h.kept[v], task.keyring)
                 THEN task' = [Over(TRUE, h) EXCEPT !.last.version = v, !.last.got = h.kept[v]]
                 ELSE Fails(h)

RegistryStop ==
    /\ task.kind = "registry" /\ task.pc = "run" /\ task.script = <<>> /\ task.at = "idle" /\ TNoFault
    /\ task' = [task EXCEPT !.pc = "ok"]

RegistryStep ==
    \/ PackageArchive \/ SignPackage \/ GenerateIndex \/ MergeIndex \/ SaveIndex \/ WithdrawArchive
    \/ BeginCommand \/ ResolveSource \/ ResolveDependency \/ FindEntry \/ DownloadArchive \/ VerifyArchive \/ PlaceArchive
    \/ ExtractSource \/ ExtractDependency \/ RetainProvenance \/ VerifyInstalled \/ RegistryStop

(* Any publisher and any user.  An archive has a version (0 is none) and   *)
(* stands for its digest, which is never empty.                            *)
RegistryInputs(plan, script) ==
    /\ plan \in Seq(Range(plan)) /\ script \in Seq(Range(script))
    /\ \A i \in DOMAIN plan : plan[i].op = "package" => plan[i].v \in Nat \ {0} /\ plan[i].body # NoDigest
RegistrySpec ==
    /\ \E plan, script, keyring : RegistryInputs(plan, script) /\ task = RegistryTask(plan, script, keyring)
    /\ tfaults = MaxTaskFaults /\ [][RegistryStep]_taskVars

-----------------------------------------------------------------------------
Finished(cmd) == task.kind = "registry" /\ task.last.cmd = cmd

(* DownloadPackageResolvedWith, downloadAndExtract: whatever is published  *)
(* meanwhile, what a source or a dependency gives was declared under that  *)
(* version by an index that was served; a source may also be what an       *)
(* extraction left in the cache.  The lock says what is unpacked.          *)
FetchedAsDeclared ==
    /\ Finished("source") => \/ [version |-> task.last.version, digest |-> task.last.got] \in task.declared
                              \/ task.last.got = "part"
    /\ Finished("source") => task.last.version \in task.last.asked.allowed
    /\ Finished("update") => /\ task.home.lock \in task.declared
                              /\ task.home.unpacked = task.home.lock.digest
                              /\ task.home.lock.version \in task.last.asked.allowed

(* VerifyArchive, verifyInstalledSignatures: what passes was signed with a *)
(* key of the keyring, whichever archives and provenances were published   *)
(* before, between and after.                                              *)
VerifiedWasSigned ==
    /\ Finished("pull") /\ task.last.asked.verify => \E key \in task.keyring : <<task.last.got, key>> \in task.signed
    /\ Finished("verify") /\ task.home.lock # NoEntry =>
          \E key \in task.keyring : <<task.home.lock.digest, key>> \in task.signed

(* repo index: until the directory changes the index has one entry for     *)
(* every archive, of its digest, and for no version two.                   *)
IndexTellsTruth ==
    task.kind = "registry" /\ task.fresh =>
        /\ \A v \in DOMAIN task.dir.archives :
             \E i \in DOMAIN Entries : Entries[i] = [version |-> v, digest |-> task.dir.archives[v]]
        /\ \A i, j \in DOMAIN Entries : Entries[i].version = Entries[j].version => i = j

RepositoryKeepsFaith == FetchedAsDeclared /\ VerifiedWasSigned /\ IndexTellsTruth
=============================================================================
