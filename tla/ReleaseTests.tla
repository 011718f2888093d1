---------------------------- MODULE ReleaseTests ----------------------------
(***************************************************************************)
(* keramos test (internal/cli/test_cmd.go): the tests stored with the last *)
(* revision, in order of their names over a channel to --parallel workers, *)
(* each applied, waited for, tried again and deleted.                      *)
(*                                                                         *)
(* A test is a sequence of resources [id, kind, keep], in order of         *)
(* deletion from its end, where keep is the policy keep of its manifest;   *)
(* two tests may have a resource in common.  A resource of the cluster is  *)
(* absent, runs, is done or has failed, and may be on its way out; what an *)
(* earlier run left may be there.  Logs and reports are left out.          *)
(***************************************************************************)
EXTENDS ClusterTask, Integers

Busy == {"apply", "watch", "retry", "clean"}

(* For each test: at, the attempt, the resource it waits for, whether one  *)
(* has failed in this attempt, and what the attempt has seen end well.     *)
TestsTask(status, tests, objects, parallel, retries) ==
    [kind |-> "tests", pc |-> "last", status |-> status, tests |-> tests, objects |-> objects,
     parallel |-> parallel, retries |-> retries,
     at |-> [i \in DOMAIN tests |-> "queued"], attempt |-> [i \in DOMAIN tests |-> 0],
     res |-> [i \in DOMAIN tests |-> 1], bad |-> [i \in DOMAIN tests |-> FALSE],
     good |-> [i \in DOMAIN tests |-> {}], undeleted |-> {}]

(* storage.Last: only a deployed release is tested.                        *)
LastRevision ==
    /\ task.pc = "last"
    /\ \/ TFault /\ task' = [task EXCEPT !.pc = "error"]
       \/ /\ TNoFault
          /\ task' = [task EXCEPT !.pc = IF task.status # "deployed" THEN "error" ELSE "tests"]

Workers == IF task.parallel < 1 THEN 1 ELSE task.parallel
WithTest(i, where) == [task EXCEPT !.at[i] = where]

(* A worker takes the next name of the channel.                            *)
TakeTest(i) ==
    /\ task.at[i] = "queued" /\ \A j \in 1 .. i - 1 : task.at[j] # "queued"
    /\ Cardinality({j \in DOMAIN task.at : task.at[j] \in Busy}) < Workers
    /\ task' = WithTest(i, "apply") /\ TNoFault

(* What an apply of the first n resources makes of the cluster: those that *)
(* are there, even on their way out, are patched and stay as they are.     *)
AppliedTo(i, n) ==
    [o \in DOMAIN task.objects |->
       IF task.objects[o].st = "absent" /\ \E k \in 1 .. n : task.tests[i][k].id = o
       THEN [st |-> "running", ending |-> FALSE] ELSE task.objects[o]]

(* The retries that are left, then the end of the test.                    *)
TriedAgain(t, i) ==
    [t EXCEPT !.at[i] = IF t.attempt[i] < t.retries THEN "retry" ELSE "clean", !.bad[i] = TRUE]

(* executeOneTest: apply, where an error ends the attempt.                 *)
ApplyTest(i) ==
    /\ task.at[i] = "apply"
    /\ \/ /\ TNoFault
          /\ task' = [task EXCEPT !.objects = AppliedTo(i, Len(task.tests[i])), !.at[i] = "watch",
                                  !.res[i] = 1, !.bad[i] = FALSE, !.good[i] = {}]
       \/ /\ TFault
          /\ \E n \in 0 .. Len(task.tests[i]) :
               task' = TriedAgain([task EXCEPT !.objects = AppliedTo(i, n)], i)

Watched(i) == task.tests[i][task.res[i]]
(* Mutant: the last resource decides.                                      *)
LastDecides(i, fails) ==
    [task EXCEPT !.res[i] = @ + 1, !.bad[i] = fails, !.good[i] = IF fails THEN @ ELSE @ \cup {Watched(i).id}]
(* One that fails or is not over in time fails the attempt; the others are *)
(* waited for all the same.                                                *)
Judged(i, fails) ==
    [task EXCEPT !.res[i] = @ + 1, !.bad[i] = @ \/ fails,
                 !.good[i] = IF fails THEN @ ELSE @ \cup {Watched(i).id}]

(* waitForPodCompletion, WaitForJob; other kinds are not waited for.  A    *)
(* reading that fails is taken again, until the time is up; it is up for   *)
(* what is not there or does not end.                                      *)
WatchTest(i) ==
    /\ task.at[i] = "watch" /\ task.res[i] <= Len(task.tests[i])
    /\ LET state == task.objects[Watched(i).id].st
       IN  \/ Watched(i).kind \notin {"Pod", "Job"} /\ task' = Judged(i, FALSE) /\ TNoFault
           \/ /\ Watched(i).kind \in {"Pod", "Job"} /\ state \in {"done", "failed", "absent"}
              /\ task' = Judged(i, state # "done") /\ TNoFault
           \/ Watched(i).kind \in {"Pod", "Job"} /\ state = "running" /\ task' = Judged(i, TRUE) /\ TFault

JudgeTest(i) ==
    /\ task.at[i] = "watch" /\ task.res[i] > Len(task.tests[i]) /\ TNoFault
    /\ task' = IF task.bad[i] THEN TriedAgain(task, i) ELSE WithTest(i, "clean")

(* DeleteManifests, which passes over what is to be kept and stops at the  *)
(* first error; it is only logged.                                         *)
Unkept(i, n) == {task.tests[i][k].id : k \in {k \in n + 1 .. Len(task.tests[i]) : ~task.tests[i][k].keep}}
Deletes(i, n) ==
    [o \in DOMAIN task.objects |->
       IF task.objects[o].st # "absent" /\ o \in Unkept(i, n)
       THEN [st |-> task.objects[o].st, ending |-> TRUE] ELSE task.objects[o]]
DeleteTest(i, next) ==
    \/ TNoFault /\ task' = [next EXCEPT !.objects = Deletes(i, 0)]
    \/ /\ TFault
       /\ \E n \in 1 .. Len(task.tests[i]) :
            /\ ~task.tests[i][n].keep
            /\ task' = [next EXCEPT !.objects = Deletes(i, n),
                                    !.undeleted = @ \cup {task.tests[i][k].id : k \in 1 .. n}]

(* The resources are deleted before another attempt; it does not wait for  *)
(* them to be gone.                                                        *)
RetryTest(i) == task.at[i] = "retry" /\ DeleteTest(i, [WithTest(i, "apply") EXCEPT !.attempt[i] = @ + 1])
(* ... and when the test is over.                                          *)
CleanTest(i) == task.at[i] = "clean" /\ DeleteTest(i, WithTest(i, IF task.bad[i] THEN "failed" ELSE "passed"))

(* The pool is drained; one failure fails the command.                     *)
TestsOver ==
    /\ \A i \in DOMAIN task.at : task.at[i] \in {"passed", "failed"}
    /\ task' = [task EXCEPT !.pc = IF "failed" \in Range(task.at) THEN "error" ELSE "ok"] /\ TNoFault

(* The cluster: a pod or a Job ends, a deletion completes.                 *)
TestObjectMoves ==
    /\ TNoFault
    /\ \E o \in DOMAIN task.objects :
         \/ /\ task.objects[o].st = "running"
            /\ \E e \in {"done", "failed"} :
                 task' = [task EXCEPT !.objects[o] = [st |-> e, ending |-> task.objects[o].ending]]
         \/ /\ task.objects[o].ending
            /\ task' = [task EXCEPT !.objects[o] = [st |-> "absent", ending |-> FALSE]]

ReleaseTestStep ==
    /\ task.kind = "tests"
    /\ \/ LastRevision
       \/ /\ task.pc = "tests"
          /\ \/ TestsOver \/ TestObjectMoves
             \/ \E i \in DOMAIN task.tests :
                  \/ TakeTest(i) \/ ApplyTest(i) \/ WatchTest(i) \/ JudgeTest(i)
                  \/ RetryTest(i) \/ CleanTest(i)

(* The tests of a release, and what of their resources there is.           *)
TestPiece == [id : Nat, kind : {"Pod", "Job", "Other"}, keep : BOOLEAN]
TestObject == [st : {"absent", "running", "done", "failed"}, ending : BOOLEAN]
TestInputs(tests, objects) ==
    /\ tests \in Seq(Seq(TestPiece)) /\ objects \in [DOMAIN objects -> TestObject]
    /\ \A i \in DOMAIN tests : \A k \in DOMAIN tests[i] : tests[i][k].id \in DOMAIN objects

TestsSpec ==
    /\ \E tests, objects : \E status \in {"deployed", "failed"}, parallel \in Int, retries \in Int :
         TestInputs(tests, objects) /\ task = TestsTask(status, tests, objects, parallel, retries)
    /\ tfaults = MaxTaskFaults /\ [][ReleaseTestStep]_taskVars

-----------------------------------------------------------------------------
(* runTest: each test that counts as passed has seen every pod and Job of  *)
(* it end well in one attempt, and the command succeeds only if all have;  *)
(* however the workers share resources, nothing a test applied stays when  *)
(* the command returns but what a failed deletion left and what a test     *)
(* asks to keep; and no more tests are under way than there are workers.   *)
Spared == {o \in DOMAIN task.objects :
             \E i \in DOMAIN task.tests : \E k \in DOMAIN task.tests[i] :
                task.tests[i][k].id = o /\ task.tests[i][k].keep}
TestsTellTheTruth ==
    task.kind = "tests" =>
        /\ \A i \in DOMAIN task.tests : task.at[i] = "passed" =>
              \A k \in DOMAIN task.tests[i] : task.tests[i][k].id \in task.good[i]
        /\ task.pc = "ok" => \A i \in DOMAIN task.tests : task.at[i] = "passed"
        /\ (\A i \in DOMAIN task.tests : task.at[i] \in {"passed", "failed"}) =>
              \A i \in DOMAIN task.tests : \A k \in DOMAIN task.tests[i] :
                LET o == task.tests[i][k].id
                IN  \/ task.objects[o].st = "absent" \/ task.objects[o].ending
                    \/ o \in task.undeleted \cup Spared
        /\ Cardinality({i \in DOMAIN task.tests : task.at[i] \in Busy}) <= Workers

(* "--retries re-runs a failed test" (docs/cli/test.md:28): an attempt     *)
(* after the first starts without the pods and Jobs of the one before,     *)
(* when their deletion did not fail and no other test has them.  It may    *)
(* not: nothing waits for the deletion (test_cmd.go:109-114), the apply    *)
(* patches what is on its way out, and its end is taken for this attempt's.*)
OwnPods(i) ==
    {task.tests[i][k].id : k \in {k \in DOMAIN task.tests[i] :
        /\ task.tests[i][k].kind \in {"Pod", "Job"} /\ ~task.tests[i][k].keep
        /\ \A j \in DOMAIN task.tests \ {i} : \A m \in DOMAIN task.tests[j] :
             task.tests[j][m].id # task.tests[i][k].id}}
RetriesStartAnew ==
    [][task.kind = "tests" =>
         \A i \in DOMAIN task.tests :
           task.at[i] = "apply" /\ task'.at[i] = "watch" /\ task.attempt[i] > 0 /\ tfaults = MaxTaskFaults =>
             \A o \in OwnPods(i) : task.objects[o].st = "absent"]_taskVars
=============================================================================
