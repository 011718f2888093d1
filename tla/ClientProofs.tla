---------------------------- MODULE ClientProofs ----------------------------
(***************************************************************************)
(* Proofs about the client of the cluster and what runs on top of it: the  *)
(* hooks of a phase, the ownership check, WaitForReady, the kinds of the   *)
(* objects and the tests of a release (Hooks, Ownership, KubeClient, Kinds *)
(* and ReleaseTests), for every manifest, every order of the steps and     *)
(* every number of failing calls; and, last, the comparison, reconcile and *)
(* adopt of Drift, for bodies of every depth.                              *)
(*                                                                         *)
(* Each part has the same three facts about an inductive invariant, whose  *)
(* name ends in Inv: it holds of the task's first state, every step keeps  *)
(* it, and it implies the property of the module.                          *)
(***************************************************************************)
EXTENDS Hooks, KubeClient, Drift, TLAPS, FiniteSetTheorems, SequenceTheorems,
        NaturalsInduction, WellFoundedInduction

(* A record of these fields: what an EXCEPT of it is can be computed.      *)
Fields(t, names) == t = [f \in names |-> t[f]]

(* SetToSeqs: a finite set in some order is a sequence of all of it.       *)
LEMMA OrderedSet ==
  ASSUME NEW S, IsFiniteSet(S), NEW s \in SetToSeqs(S)
  PROVE  s \in Seq(S) /\ Range(s) = S /\ Len(s) = Cardinality(S)
<1> DEFINE D == 1 .. Cardinality(S)
<1>1. Cardinality(S) \in Nat
  BY FS_CardinalityType
<1>2. IsFiniteSet(D) /\ Cardinality(D) = Cardinality(S)
  BY <1>1, FS_Interval
<1>3. s \in [D -> S] /\ s \in Injection(D, S)
  BY DEF SetToSeqs, Injection, IsInjective
<1>4. s \in Surjection(D, S)
  BY <1>2, <1>3, FS_Injection
<1> QED BY <1>1, <1>3, <1>4 DEF Surjection, Range

(* What a sequence holds is its first element and what the rest holds.     *)
LEMMA FirstAndRest ==
  ASSUME NEW S, NEW s \in Seq(S), s # <<>>
  PROVE  Tail(s) \in Seq(S) /\ Head(s) \in S /\ Range(s) = {Head(s)} \cup Range(Tail(s))
<1>1. Len(s) \in Nat /\ Len(s) > 0 /\ Tail(s) \in Seq(S) /\ Head(s) = s[1] /\ Len(Tail(s)) = Len(s) - 1
      /\ \A i \in 1 .. Len(s) - 1 : Tail(s)[i] = s[i + 1]
  OBVIOUS
<1>2. \A x \in Range(s) : x \in {Head(s)} \cup Range(Tail(s))
  <2> SUFFICES ASSUME NEW i \in 1 .. Len(s) PROVE s[i] \in {Head(s)} \cup Range(Tail(s))
    BY DEF Range
  <2>1. CASE i = 1
    BY <1>1, <2>1
  <2>2. CASE i # 1
    <3>1. i - 1 \in DOMAIN Tail(s) /\ Tail(s)[i - 1] = s[i]
      BY <1>1, <2>2
    <3> QED BY <3>1 DEF Range
  <2> QED BY <2>1, <2>2
<1>3. \A x \in Range(Tail(s)) : x \in Range(s)
  BY <1>1 DEF Range
<1>4. Head(s) \in Range(s)
  BY <1>1 DEF Range
<1> QED BY <1>1, <1>2, <1>3, <1>4

-----------------------------------------------------------------------------
(* Hooks.                                                                  *)

HookFields == {"kind", "pc", "files", "phase", "order", "at", "res", "failed", "blind", "objects", "ran",
               "passed"}
AtWork == {"before", "gone", "apply", "wait"}
LeavingHook(f) == \A i \in DOMAIN f.kinds : Obj(f)[i] \in {"absent", "ending"}
AbsentHook(f) == \A i \in DOMAIN f.kinds : Obj(f)[i] = "absent"
RanAll(f) == \A i \in DOMAIN f.kinds : <<f.rank, i>> \in task.ran

HooksShape ==
    /\ Fields(task, HookFields) /\ task.kind = "hooks" /\ task.at \in Nat \ {0}
    /\ IsFiniteSet(task.files) /\ \A f, g \in task.files : f.rank = g.rank => f = g
    /\ \A f \in task.files : f.weight \in Int
    /\ task.objects = [r \in {f.rank : f \in task.files} |-> task.objects[r]]
    /\ \A f \in task.files : Obj(f) \in [DOMAIN f.kinds -> ObjectState]
    /\ tfaults \in 0 .. MaxTaskFaults

(* ParseHooks: every hook of the phase, once, by weight.                   *)
Parsed ==
    /\ task.order \in Seq(PhaseHooks) /\ Range(task.order) = PhaseHooks
    /\ \A i, j \in 1 .. Len(task.order) :
         i < j => task.order[i] # task.order[j] /\ task.order[i].weight <= task.order[j].weight
InOrder ==
    /\ task.pc \notin {"parse", "error"} => Parsed
    /\ Parsed \/ (task.ran = {} /\ task.passed = {})
    /\ task.pc = "parse" => task.ran = {} /\ task.passed = {} /\ task.at = 1 /\ task.order = <<>>

(* Up to the hook the phase is at, all have passed, and no other has run.  *)
UpToHere == Parsed =>
    /\ task.at <= Len(task.order) + 1
    /\ task.pc \in AtWork => task.at <= Len(task.order)
    /\ task.pc = "ok" => task.at = Len(task.order) + 1
    /\ task.passed = {task.order[i].rank : i \in 1 .. task.at - 1}
    /\ \A q \in task.ran : \E i \in 1 .. Len(task.order) : i <= task.at /\ q[1] = task.order[i].rank

(* The hooks that are deleted before their creation.                       *)
RanEach == Parsed /\ ~task.blind =>
    /\ \A i \in 1 .. Len(task.order) :
         /\ HasPolicy(task.order[i], "before-hook-creation")
         /\ i < task.at \/ (i = task.at /\ task.pc = "wait")
         => RanAll(task.order[i])
    /\ task.pc = "apply" /\ HasPolicy(Hook, "before-hook-creation") => AbsentHook(Hook)

(* The policies after success and failure.                                 *)
Cleaned == Parsed /\ tfaults = MaxTaskFaults =>
    /\ \A i \in 1 .. Len(task.order) :
         i < task.at /\ HasPolicy(task.order[i], "hook-succeeded") => LeavingHook(task.order[i])
    /\ task.pc = "error" /\ task.at <= Len(task.order) /\ HasPolicy(Hook, "hook-failed") => LeavingHook(Hook)

HooksInv == HooksShape /\ InOrder /\ UpToHere /\ RanEach /\ Cleaned

(* The hook the phase is at, and the others.                               *)
LEMMA HookAtWork ==
  ASSUME HooksInv, task.pc \in AtWork
  PROVE  /\ Parsed /\ task.at \in 1 .. Len(task.order) /\ Hook \in PhaseHooks /\ Len(task.order) \in Nat
         /\ \A i \in 1 .. Len(task.order) : task.order[i] \in PhaseHooks /\ task.order[i] \in task.files
         /\ \A i \in 1 .. Len(task.order) : i # task.at => task.order[i].rank # Hook.rank
<1>1. Parsed /\ task.at <= Len(task.order)
  BY DEF HooksInv, InOrder, UpToHere, AtWork
<1>2. Len(task.order) \in Nat /\ \A i \in 1 .. Len(task.order) : task.order[i] \in PhaseHooks
  BY <1>1 DEF Parsed
<1>3. PhaseHooks \subseteq task.files
  BY DEF PhaseHooks, OfPhase
<1>4. task.at \in 1 .. Len(task.order)
  BY <1>1, <1>2 DEF HooksInv, HooksShape
<1>5. ASSUME NEW i \in 1 .. Len(task.order), i # task.at, task.order[i].rank = Hook.rank
      PROVE  FALSE
  <2>1. task.order[i] = task.order[task.at]
    BY <1>2, <1>3, <1>4, <1>5 DEF HooksInv, HooksShape, Hook
  <2> QED BY <1>1, <1>2, <1>4, <1>5, <2>1 DEF Parsed
<1> QED BY <1>1, <1>2, <1>3, <1>4, <1>5 DEF Hook

(* A step of the hook the phase is at: the objects of no other change.     *)
LEMMA StaysOnHook ==
  ASSUME HooksInv, task.pc \in AtWork, NEW h \in [DOMAIN Hook.kinds -> ObjectState], NEW x,
         Fields(task', HookFields), task'.kind = task.kind, task'.files = task.files,
         task'.phase = task.phase, task'.order = task.order, task'.at = task.at,
         task'.passed = task.passed, task.blind => task'.blind,
         task'.pc \in {"gone", "apply", "wait", "error"},
         tfaults' \in 0 .. tfaults,
         task'.objects = [task.objects EXCEPT ![Hook.rank] = h],
         task'.ran = task.ran \cup x, \A q \in x : q[1] = Hook.rank,
         ~task'.blind /\ task'.pc = "wait" /\ HasPolicy(Hook, "before-hook-creation") =>
            \A i \in DOMAIN Hook.kinds : <<Hook.rank, i>> \in task'.ran,
         ~task'.blind /\ task'.pc = "apply" /\ HasPolicy(Hook, "before-hook-creation") =>
            \A i \in DOMAIN Hook.kinds : h[i] = "absent",
         tfaults' = MaxTaskFaults /\ task'.pc = "error" /\ HasPolicy(Hook, "hook-failed") =>
            \A i \in DOMAIN Hook.kinds : h[i] \in {"absent", "ending"}
  PROVE  HooksInv'
<1>1. /\ Parsed /\ task.at \in 1 .. Len(task.order) /\ Hook \in PhaseHooks /\ Len(task.order) \in Nat
      /\ \A i \in 1 .. Len(task.order) : task.order[i] \in PhaseHooks /\ task.order[i] \in task.files
      /\ \A i \in 1 .. Len(task.order) : i # task.at => task.order[i].rank # Hook.rank
  BY HookAtWork
<1>2. Hook' = Hook /\ PhaseHooks' = PhaseHooks /\ Parsed'
  BY <1>1 DEF Hook, PhaseHooks, Parsed
<1>3. Hook \in task.files /\ Hook.rank \in DOMAIN task.objects
  BY <1>1 DEF Hook, HooksInv, HooksShape
<1>4. task'.objects[Hook.rank] = h /\ \A r \in DOMAIN task.objects : r # Hook.rank => task'.objects[r] = task.objects[r]
  BY <1>3
<1>5. HooksShape'
  <2>1. ASSUME NEW f \in task.files PROVE task'.objects[f.rank] \in [DOMAIN f.kinds -> ObjectState]
    <3>1. f.rank \in DOMAIN task.objects /\ (f.rank = Hook.rank => f = Hook)
      BY <1>3 DEF HooksInv, HooksShape
    <3>2. task.objects[f.rank] \in [DOMAIN f.kinds -> ObjectState]
      BY DEF HooksInv, HooksShape, Obj
    <3> QED BY <1>4, <3>1, <3>2
  <2>2. task'.objects = [r \in {f.rank : f \in task'.files} |-> task'.objects[r]]
    BY DEF HooksInv, HooksShape
  <2>3. tfaults' \in 0 .. MaxTaskFaults
    BY TaskFaultsAssumption DEF HooksInv, HooksShape
  <2> QED BY <2>1, <2>2, <2>3 DEF HooksInv, HooksShape, Obj
<1>6. InOrder'
  BY <1>2 DEF InOrder
<1>7. UpToHere'
  <2>1. /\ task.at <= Len(task.order) + 1 /\ task.passed = {task.order[i].rank : i \in 1 .. task.at - 1}
        /\ \A q \in task.ran : \E i \in 1 .. Len(task.order) : i <= task.at /\ q[1] = task.order[i].rank
    BY <1>1 DEF HooksInv, UpToHere
  <2>2. \A q \in x : task.at <= task.at /\ q[1] = task.order[task.at].rank
    BY <1>1 DEF Hook
  <2>3. \A q \in task'.ran : \E i \in 1 .. Len(task.order) : i <= task.at /\ q[1] = task.order[i].rank
    BY <1>1, <2>1, <2>2
  <2> QED BY <1>1, <2>1, <2>3 DEF UpToHere
<1>8. \A i \in 1 .. Len(task.order) : i # task.at => task'.objects[task.order[i].rank] = task.objects[task.order[i].rank]
  BY <1>1, <1>4 DEF HooksInv, HooksShape
<1>9. RanEach'
  <2>1. ~task'.blind => \A i \in 1 .. Len(task.order) :
           HasPolicy(task.order[i], "before-hook-creation") /\ i < task.at => RanAll(task.order[i])
    BY <1>1 DEF HooksInv, RanEach
  <2>2. \A f : RanAll(f) => RanAll(f)'
    BY DEF RanAll
  <2> QED BY <1>1, <1>2, <1>4, <2>1, <2>2 DEF RanEach, RanAll, AbsentHook, Obj, Hook
<1>10. Cleaned'
  <2>1. tfaults' = MaxTaskFaults => tfaults = MaxTaskFaults
    BY TaskFaultsAssumption DEF HooksInv, HooksShape
  <2>2. tfaults' = MaxTaskFaults => \A i \in 1 .. Len(task.order) :
           i < task.at /\ HasPolicy(task.order[i], "hook-succeeded") => LeavingHook(task.order[i])
    BY <1>1, <2>1 DEF HooksInv, Cleaned
  <2>3. \A i \in 1 .. Len(task.order) : i < task.at /\ LeavingHook(task.order[i]) => LeavingHook(task.order[i])'
    BY <1>1, <1>8 DEF LeavingHook, Obj
  <2> QED BY <1>1, <1>2, <1>4, <2>2, <2>3 DEF Cleaned, LeavingHook, Obj, Hook
<1> QED BY <1>5, <1>6, <1>7, <1>9, <1>10 DEF HooksInv

(* ... in the form of the model's steps.                                   *)
OnHook(s, h, x, b, res, failed) ==
    [task EXCEPT !.pc = s, !.objects = [@ EXCEPT ![Hook.rank] = h], !.ran = @ \cup x, !.blind = b,
                 !.res = res, !.failed = failed]
(* The same of a step written with OnHook.                                 *)
LEMMA StepOnHook ==
  ASSUME HooksInv, task.pc \in AtWork, NEW h \in [DOMAIN Hook.kinds -> ObjectState], NEW x,
         NEW s \in {"gone", "apply", "wait", "error"}, NEW b, NEW res, NEW failed,
         task' = OnHook(s, h, x, b, res, failed), task.blind => b,
         tfaults' \in 0 .. tfaults, \A q \in x : q[1] = Hook.rank,
         ~b /\ s = "wait" /\ HasPolicy(Hook, "before-hook-creation") =>
            \A i \in DOMAIN Hook.kinds : <<Hook.rank, i>> \in task.ran \cup x,
         ~b /\ s = "apply" /\ HasPolicy(Hook, "before-hook-creation") =>
            \A i \in DOMAIN Hook.kinds : h[i] = "absent",
         tfaults' = MaxTaskFaults /\ s = "error" /\ HasPolicy(Hook, "hook-failed") =>
            \A i \in DOMAIN Hook.kinds : h[i] \in {"absent", "ending"}
  PROVE  HooksInv'
<1>1. /\ Fields(task', HookFields) /\ task'.kind = task.kind /\ task'.files = task.files
      /\ task'.phase = task.phase /\ task'.order = task.order /\ task'.at = task.at
      /\ task'.passed = task.passed /\ task'.blind = b /\ task'.pc = s /\ task'.ran = task.ran \cup x
      /\ task'.objects = [task.objects EXCEPT ![Hook.rank] = h]
  BY DEF OnHook, HooksInv, HooksShape, Fields, HookFields
<1> QED BY <1>1, StaysOnHook

(* The objects of the hook, before and after the calls.                    *)
LEMMA HookObjects ==
  ASSUME HooksInv, task.pc \in AtWork
  PROVE  /\ Hook \in task.files /\ Obj(Hook) \in [DOMAIN Hook.kinds -> ObjectState]
         /\ [task.objects EXCEPT ![Hook.rank] = Obj(Hook)] = task.objects
         /\ Deleting(Obj(Hook)) \in [DOMAIN Hook.kinds -> ObjectState]
         /\ \A i \in DOMAIN Hook.kinds : Deleting(Obj(Hook))[i] \in {"absent", "ending"}
         /\ Started(Hook) \in [DOMAIN Hook.kinds -> ObjectState]
         /\ (AbsentHook(Hook) => \A i \in DOMAIN Hook.kinds : <<Hook.rank, i>> \in Fresh(Hook))
         /\ \A q \in Fresh(Hook) : q[1] = Hook.rank
<1>1. Hook \in task.files
  BY HookAtWork DEF Hook
<1>2. Obj(Hook) \in [DOMAIN Hook.kinds -> ObjectState]
  BY <1>1 DEF HooksInv, HooksShape
<1>3. [task.objects EXCEPT ![Hook.rank] = Obj(Hook)] = task.objects
  BY <1>1 DEF HooksInv, HooksShape, Obj
<1>4. /\ Deleting(Obj(Hook)) \in [DOMAIN Hook.kinds -> ObjectState]
      /\ \A i \in DOMAIN Hook.kinds : Deleting(Obj(Hook))[i] \in {"absent", "ending"}
  BY <1>2 DEF Deleting, ObjectState
<1>5. Started(Hook) \in [DOMAIN Hook.kinds -> ObjectState]
  BY <1>2 DEF Started, ObjectState
<1>6. (AbsentHook(Hook) => \A i \in DOMAIN Hook.kinds : <<Hook.rank, i>> \in Fresh(Hook))
      /\ \A q \in Fresh(Hook) : q[1] = Hook.rank
  BY DEF AbsentHook, Fresh
<1> QED BY <1>1, <1>2, <1>3, <1>4, <1>5, <1>6

Deleted(s) == [DeleteAll(task, Hook) EXCEPT !.pc = s]
(* The shapes the steps take: nothing deleted, everything deleted.         *)
LEMMA HookForms ==
  ASSUME HooksInv, task.pc \in AtWork
  PROVE  /\ \A s : Where(s) = OnHook(s, Obj(Hook), {}, task.blind, task.res, task.failed)
         /\ \A s : Deleted(s) = OnHook(s, Deleting(Obj(Hook)), {}, task.blind, task.res, task.failed)
<1>1. [task.objects EXCEPT ![Hook.rank] = Obj(Hook)] = task.objects
  BY HookObjects
<1>2. task.ran \cup {} = task.ran
  OBVIOUS
<1> DEFINE os == [task.objects EXCEPT ![Hook.rank] = Obj(Hook)]
           ds == [task.objects EXCEPT ![Hook.rank] = Deleting(Obj(Hook))]
<1>3. ASSUME NEW s PROVE Where(s) = OnHook(s, Obj(Hook), {}, task.blind, task.res, task.failed)
  BY <1>1, <1>2 DEF Where, OnHook, HooksInv, HooksShape, Fields, HookFields
<1>4. ASSUME NEW s
      PROVE  Deleted(s) = OnHook(s, Deleting(Obj(Hook)), {}, task.blind, task.res, task.failed)
  <2>1. DeleteAll(task, Hook) = [task EXCEPT !.objects = [@ EXCEPT ![Hook.rank] = Deleting(Obj(Hook))]]
    BY DEF DeleteAll, Obj, HooksInv, HooksShape, Fields, HookFields
  <2> QED BY <1>2, <2>1 DEF Deleted, OnHook, HooksInv, HooksShape, Fields, HookFields
<1> QED BY <1>3, <1>4

(* A failing call uses one of the faults up.                               *)
LEMMA CountsFaults ==
  ASSUME HooksInv
  PROVE  /\ TNoFault => tfaults' \in 0 .. tfaults
         /\ TFault => tfaults' \in 0 .. tfaults /\ tfaults' # MaxTaskFaults
BY TaskFaultsAssumption DEF TNoFault, TFault, HooksInv, HooksShape

(* A step that leaves the objects of the hook alone.                       *)
LEMMA StepWithout ==
  ASSUME HooksInv, task.pc \in AtWork, NEW s \in {"apply", "error"}, task' = Where(s), tfaults' \in 0 .. tfaults,
         s = "apply" /\ HasPolicy(Hook, "before-hook-creation") => AbsentHook(Hook),
         s = "error" /\ HasPolicy(Hook, "hook-failed") => tfaults' # MaxTaskFaults
  PROVE  HooksInv'
<1> DEFINE h == Obj(Hook)
           none == {}
<1>1. task' = OnHook(s, h, none, task.blind, task.res, task.failed)
  BY HookForms
<1>2. h \in [DOMAIN Hook.kinds -> ObjectState]
  BY HookObjects
<1>3. DOMAIN h = DOMAIN Hook.kinds
  BY <1>2
<1>4. s = "apply" /\ HasPolicy(Hook, "before-hook-creation") => \A i \in DOMAIN Hook.kinds : h[i] = "absent"
  BY <1>3 DEF AbsentHook
<1>5. s # "wait" /\ s \in {"gone", "apply", "wait", "error"} /\ \A q \in none : q[1] = Hook.rank
  OBVIOUS
<1> HIDE DEF h, none
<1> QED BY <1>1, <1>2, <1>4, <1>5, StepOnHook

(* A step that deletes them all.                                           *)
LEMMA StepWithDeletion ==
  ASSUME HooksInv, task.pc \in AtWork, NEW s \in {"gone", "error"}, task' = Deleted(s), tfaults' \in 0 .. tfaults
  PROVE  HooksInv'
<1> DEFINE h == Deleting(Obj(Hook))
           none == {}
<1>1. task' = OnHook(s, h, none, task.blind, task.res, task.failed)
  BY HookForms
<1>2. h \in [DOMAIN Hook.kinds -> ObjectState] /\ \A i \in DOMAIN Hook.kinds : h[i] \in {"absent", "ending"}
  BY HookObjects
<1>3. s # "wait" /\ s # "apply" /\ s \in {"gone", "apply", "wait", "error"} /\ \A q \in none : q[1] = Hook.rank
  OBVIOUS
<1> HIDE DEF h, none
<1> QED BY <1>1, <1>2, <1>3, StepOnHook

(* Delete what is left, wait for it to be gone.                            *)
LEMMA BeforeHooks ==
  ASSUME HooksInv, BeforeHook \/ Gone
  PROVE  HooksInv'
<1>1. task.pc \in AtWork
  BY DEF BeforeHook, Gone, AtWork
<1>a. DOMAIN Obj(Hook) = DOMAIN Hook.kinds
  BY <1>1, HookObjects
<1>2. CASE task' = Where("apply") /\ TNoFault /\ (HasPolicy(Hook, "before-hook-creation") => AbsentHook(Hook))
  BY <1>1, <1>2, CountsFaults, StepWithout
<1>3. CASE TFault /\ task' = Where("error")
  BY <1>1, <1>3, CountsFaults, StepWithout
<1>4. CASE task' = Deleted("gone") /\ TNoFault
  BY <1>1, <1>4, CountsFaults, StepWithDeletion
<1>5. CASE task' = Deleted("error") /\ TFault
  BY <1>1, <1>5, CountsFaults, StepWithDeletion
<1>6. CASE task' = [task EXCEPT !.pc = "apply", !.blind = TRUE] /\ TFault
  <2> DEFINE h == Obj(Hook)
             x == {}
  <2>1. /\ Fields(task', HookFields) /\ task'.kind = task.kind /\ task'.files = task.files
        /\ task'.phase = task.phase /\ task'.order = task.order /\ task'.at = task.at
        /\ task'.passed = task.passed /\ task'.blind /\ task'.pc = "apply"
        /\ task'.ran = task.ran \cup x /\ task'.objects = [task.objects EXCEPT ![Hook.rank] = h]
    BY <1>1, <1>6, HookObjects DEF HooksInv, HooksShape, Fields, HookFields
  <2>2. tfaults' \in 0 .. tfaults /\ h \in [DOMAIN Hook.kinds -> ObjectState]
    BY <1>1, <1>6, CountsFaults, HookObjects
  <2>3. \A q \in x : q[1] = Hook.rank
    OBVIOUS
  <2>4. task.blind => task'.blind
    BY <2>1
  <2>5. task'.pc \in {"gone", "apply", "wait", "error"} /\ task'.pc # "wait" /\ task'.pc # "error"
    BY <2>1
  <2> HIDE DEF h, x
  <2> QED BY <1>1, <2>1, <2>2, <2>3, <2>4, <2>5, StaysOnHook
<1>7. CASE BeforeHook
  <2>1. \/ ~HasPolicy(Hook, "before-hook-creation") /\ task' = Where("apply") /\ TNoFault
        \/ task' = Deleted("gone") /\ TNoFault
        \/ TFault /\ task' = Where("error")
        \/ task' = Deleted("error") /\ TFault
    BY <1>7, Zenon DEF BeforeHook, Deleted
  <2> QED BY <1>2, <1>3, <1>4, <1>5, <2>1, Zenon
<1>8. CASE Gone
  BY <1>a, <1>2, <1>3, <1>6, <1>8, Zenon DEF Gone, AbsentHook
<1> QED BY <1>7, <1>8

(* The apply, whole or up to some resource.                                *)
LEMMA AppliedHook ==
  ASSUME HooksInv, ApplyHook
  PROVE  HooksInv'
<1>1. task.pc \in AtWork /\ task.pc = "apply"
  BY DEF ApplyHook, AtWork
<1>2. Started(Hook) \in [DOMAIN Hook.kinds -> ObjectState] /\ \A q \in Fresh(Hook) : q[1] = Hook.rank
  BY <1>1, HookObjects
<1>3. Hook.rank \in DOMAIN task.objects
  BY <1>1, HookObjects DEF HooksInv, HooksShape
<1> DEFINE created == [task EXCEPT !.objects[Hook.rank] = Started(Hook), !.ran = @ \cup Fresh(Hook)]
           full == [created EXCEPT !.pc = "wait", !.res = 1, !.failed = FALSE]
           torn == [created EXCEPT !.pc = "error"]
           undone == [DeleteAll(created, Hook) EXCEPT !.pc = "error"]
<1>4. created = [task EXCEPT !.objects = [@ EXCEPT ![Hook.rank] = Started(Hook)], !.ran = @ \cup Fresh(Hook)]
  BY DEF HooksInv, HooksShape, Fields, HookFields
<1>5. full = OnHook("wait", Started(Hook), Fresh(Hook), task.blind, 1, FALSE)
  BY <1>4 DEF OnHook, HooksInv, HooksShape, Fields, HookFields
<1>6. torn = OnHook("error", Started(Hook), Fresh(Hook), task.blind, task.res, task.failed)
  BY <1>4 DEF OnHook, HooksInv, HooksShape, Fields, HookFields
<1>7. undone = OnHook("error", Deleting(Started(Hook)), Fresh(Hook), task.blind, task.res, task.failed)
  BY <1>3, <1>4 DEF DeleteAll, OnHook, HooksInv, HooksShape, Fields, HookFields
<1>8. Deleting(Started(Hook)) \in [DOMAIN Hook.kinds -> ObjectState]
  BY <1>2 DEF Deleting, ObjectState
<1>9. \/ task' = full /\ TNoFault
      \/ TFault /\ task' \in {Where("error"), torn, Deleted("error"), undone}
  BY Zenon DEF ApplyHook, CleanedUp, Where, Deleted
<1> HIDE DEF created, full, torn, undone
<1>10. CASE task' = full /\ TNoFault
  <2>1. ~task.blind /\ HasPolicy(Hook, "before-hook-creation") => AbsentHook(Hook)
    BY <1>1, HookAtWork DEF HooksInv, RanEach
  <2> QED BY <1>1, <1>2, <1>5, <1>10, <2>1, HookObjects, CountsFaults, StepOnHook
<1>11. CASE TFault /\ task' = Where("error")
  BY <1>1, <1>11, CountsFaults, StepWithout
<1>12. CASE TFault /\ task' = Deleted("error")
  BY <1>1, <1>12, CountsFaults, StepWithDeletion
<1>13. CASE TFault /\ task' = torn
  BY <1>1, <1>2, <1>6, <1>13, CountsFaults, StepOnHook
<1>14. CASE TFault /\ task' = undone
  BY <1>1, <1>2, <1>7, <1>8, <1>14, CountsFaults, StepOnHook
<1> QED BY <1>9, <1>10, <1>11, <1>12, <1>13, <1>14

(* Its resources are waited for.                                           *)
LEMMA WaitsHook ==
  ASSUME HooksInv, WaitFor
  PROVE  HooksInv'
<1>1. task.pc \in AtWork /\ task.pc = "wait"
  BY DEF WaitFor, AtWork
<1>2. PICK failed : task' = [task EXCEPT !.res = @ + 1, !.failed = failed]
  BY Zenon DEF WaitFor
<1> DEFINE res == task.res + 1
           h == Obj(Hook)
<1>3. task' = OnHook("wait", h, {}, task.blind, res, failed)
  <2>1. [task.objects EXCEPT ![Hook.rank] = Obj(Hook)] = task.objects /\ task.ran \cup {} = task.ran
    BY <1>1, HookObjects
  <2> QED BY <1>1, <1>2, <2>1 DEF OnHook, HooksInv, HooksShape, Fields, HookFields
<1>4. ~task.blind /\ HasPolicy(Hook, "before-hook-creation") =>
        \A i \in DOMAIN Hook.kinds : <<Hook.rank, i>> \in task.ran
  BY <1>1, HookAtWork DEF HooksInv, RanEach, RanAll, Hook
<1>5. tfaults' \in 0 .. tfaults
  BY CountsFaults, Zenon DEF WaitFor
<1>6. h \in [DOMAIN Hook.kinds -> ObjectState]
  BY <1>1, HookObjects
<1>7. ~task.blind /\ HasPolicy(Hook, "before-hook-creation") =>
        \A i \in DOMAIN Hook.kinds : <<Hook.rank, i>> \in task.ran \cup {}
  BY <1>4
<1> DEFINE none == {}
<1>8. task' = OnHook("wait", h, none, task.blind, res, failed) /\ (\A q \in none : q[1] = Hook.rank)
      /\ (~task.blind /\ HasPolicy(Hook, "before-hook-creation") =>
             \A i \in DOMAIN Hook.kinds : <<Hook.rank, i>> \in task.ran \cup none)
  BY <1>3, <1>7
<1> HIDE DEF res, h, none
<1> QED BY <1>1, <1>5, <1>6, <1>8, StepOnHook, SMTT(30)

(* The hook has passed: the next one, with this one deleted or not.        *)
LEMMA PassedHook ==
  ASSUME HooksInv, task.pc = "wait", NEW h \in [DOMAIN Hook.kinds -> ObjectState],
         Fields(task', HookFields), task'.kind = task.kind, task'.files = task.files,
         task'.phase = task.phase, task'.order = task.order, task'.at = task.at + 1,
         task'.passed = task.passed \cup {Hook.rank}, task'.blind = task.blind,
         task'.pc = (IF task.at = Len(task.order) THEN "ok" ELSE "before"),
         tfaults' = tfaults, task'.ran = task.ran,
         task'.objects = [task.objects EXCEPT ![Hook.rank] = h],
         HasPolicy(Hook, "hook-succeeded") => \A i \in DOMAIN Hook.kinds : h[i] \in {"absent", "ending"}
  PROVE  HooksInv'
<1>1. /\ Parsed /\ task.at \in 1 .. Len(task.order) /\ Hook \in PhaseHooks /\ Len(task.order) \in Nat
      /\ \A i \in 1 .. Len(task.order) : task.order[i] \in PhaseHooks /\ task.order[i] \in task.files
      /\ \A i \in 1 .. Len(task.order) : i # task.at => task.order[i].rank # Hook.rank
  BY HookAtWork DEF AtWork
<1>2. PhaseHooks' = PhaseHooks /\ Parsed'
  BY <1>1 DEF PhaseHooks, Parsed
<1>3. Hook \in task.files /\ Hook.rank \in DOMAIN task.objects
  BY <1>1 DEF Hook, HooksInv, HooksShape
<1>4. task'.objects[Hook.rank] = h /\ \A r \in DOMAIN task.objects : r # Hook.rank => task'.objects[r] = task.objects[r]
  BY <1>3
<1>5. HooksShape'
  <2>1. ASSUME NEW f \in task.files PROVE task'.objects[f.rank] \in [DOMAIN f.kinds -> ObjectState]
    <3>1. f.rank \in DOMAIN task.objects /\ (f.rank = Hook.rank => f = Hook)
      BY <1>3 DEF HooksInv, HooksShape
    <3>2. task.objects[f.rank] \in [DOMAIN f.kinds -> ObjectState]
      BY DEF HooksInv, HooksShape, Obj
    <3> QED BY <1>4, <3>1, <3>2
  <2>2. task'.objects = [r \in {f.rank : f \in task'.files} |-> task'.objects[r]]
    BY DEF HooksInv, HooksShape
  <2>3. task'.at \in Nat \ {0}
    BY <1>1
  <2>4. \A f \in task'.files : task'.objects[f.rank] \in [DOMAIN f.kinds -> ObjectState]
    BY <2>1
  <2> QED BY <2>2, <2>3, <2>4 DEF HooksInv, HooksShape, Obj
<1>6. InOrder'
  BY <1>2 DEF InOrder
<1>7. UpToHere'
  <2>1. /\ task.passed = {task.order[i].rank : i \in 1 .. task.at - 1}
        /\ \A q \in task.ran : \E i \in 1 .. Len(task.order) : i <= task.at /\ q[1] = task.order[i].rank
    BY <1>1 DEF HooksInv, UpToHere
  <2>2. task'.passed = {task.order[i].rank : i \in 1 .. task'.at - 1}
    BY <1>1, <2>1 DEF Hook
  <2>3. \A q \in task'.ran : \E i \in 1 .. Len(task.order) : i <= task'.at /\ q[1] = task.order[i].rank
    BY <1>1, <2>1
  <2>4. /\ task'.at <= Len(task.order) + 1 /\ (task'.pc = "ok" => task'.at = Len(task.order) + 1)
        /\ task'.pc \in AtWork => task'.at <= Len(task.order)
    BY <1>1 DEF AtWork
  <2> QED BY <2>2, <2>3, <2>4 DEF UpToHere
<1>8. \A i \in 1 .. Len(task.order) : i # task.at => task'.objects[task.order[i].rank] = task.objects[task.order[i].rank]
  BY <1>1, <1>4 DEF HooksInv, HooksShape
<1>9. RanEach'
  <2>1. ~task.blind => \A i \in 1 .. Len(task.order) :
           HasPolicy(task.order[i], "before-hook-creation") /\ i <= task.at => RanAll(task.order[i])
    BY <1>1 DEF HooksInv, RanEach
  <2>2. \A f : RanAll(f) => RanAll(f)'
    BY DEF RanAll
  <2>3. \A i \in 1 .. Len(task.order) : i < task'.at => i <= task.at
    BY <1>1
  <2> QED BY <1>1, <2>1, <2>2, <2>3 DEF RanEach
<1>10. Cleaned'
  <2>1. tfaults' = MaxTaskFaults => \A i \in 1 .. Len(task.order) :
           i < task.at /\ HasPolicy(task.order[i], "hook-succeeded") => LeavingHook(task.order[i])
    BY <1>1 DEF HooksInv, Cleaned
  <2>2. \A i \in 1 .. Len(task.order) : i < task.at /\ LeavingHook(task.order[i]) => LeavingHook(task.order[i])'
    BY <1>1, <1>8 DEF LeavingHook, Obj
  <2>3. HasPolicy(Hook, "hook-succeeded") =>
           \A i \in DOMAIN Hook.kinds : task'.objects[Hook.rank][i] \in {"absent", "ending"}
    BY <1>4
  <2>4. \A i \in 1 .. Len(task.order) : i < task'.at => i < task.at \/ i = task.at
    BY <1>1
  <2>5. task.order[task.at] = Hook
    BY DEF Hook
  <2>6. tfaults' = MaxTaskFaults => \A i \in 1 .. Len(task.order) :
           i < task'.at /\ HasPolicy(task.order[i], "hook-succeeded") => LeavingHook(task.order[i])'
    <3> SUFFICES ASSUME tfaults' = MaxTaskFaults, NEW i \in 1 .. Len(task.order),
                        i < task'.at, HasPolicy(task.order[i], "hook-succeeded")
                 PROVE  LeavingHook(task.order[i])'
      OBVIOUS
    <3>1. CASE i < task.at
      BY <2>1, <2>2, <3>1
    <3>2. CASE i = task.at
      BY <2>3, <2>5, <3>2 DEF LeavingHook, Obj
    <3> QED BY <2>4, <3>1, <3>2
  <2> QED BY <2>6 DEF Cleaned
<1> QED BY <1>5, <1>6, <1>7, <1>9, <1>10 DEF HooksInv

(* The hook is over.                                                       *)
LEMMA OverHook ==
  ASSUME HooksInv, HookOver
  PROVE  HooksInv'
<1>1. task.pc \in AtWork /\ task.pc = "wait"
  BY DEF HookOver, AtWork
<1> DEFINE kept == Succeeded
           gone == DeleteAll(Succeeded, Hook)
<1>2. \/ task' = Deleted("error") /\ TNoFault
      \/ task' = Where("error") /\ TNoFault /\ ~HasPolicy(Hook, "hook-failed")
      \/ task' = Where("error") /\ TFault
      \/ task' = kept /\ TNoFault /\ ~HasPolicy(Hook, "hook-succeeded")
      \/ task' = gone /\ TNoFault
  BY Zenon DEF HookOver, CleanedUp, Where, Deleted
<1>3. CASE task' = Deleted("error") /\ TNoFault
  BY <1>1, <1>3, CountsFaults, StepWithDeletion
<1>4. CASE task' = Where("error") /\ TNoFault /\ ~HasPolicy(Hook, "hook-failed")
  BY <1>1, <1>4, CountsFaults, StepWithout
<1>5. CASE task' = Where("error") /\ TFault
  BY <1>1, <1>5, CountsFaults, StepWithout
<1>6. /\ Fields(kept, HookFields) /\ kept.kind = task.kind /\ kept.files = task.files
      /\ kept.phase = task.phase /\ kept.order = task.order /\ kept.at = task.at + 1
      /\ kept.passed = task.passed \cup {Hook.rank} /\ kept.blind = task.blind
      /\ kept.pc = (IF task.at = Len(task.order) THEN "ok" ELSE "before")
      /\ kept.ran = task.ran /\ kept.objects = task.objects
  BY DEF Succeeded, HooksInv, HooksShape, Fields, HookFields
<1>7. gone = [kept EXCEPT !.objects = [@ EXCEPT ![Hook.rank] = Deleting(Obj(Hook))]]
  BY <1>6 DEF DeleteAll, Obj, Fields, HookFields
<1> HIDE DEF kept, gone
<1>8. /\ Fields(gone, HookFields) /\ gone.kind = task.kind /\ gone.files = task.files
      /\ gone.phase = task.phase /\ gone.order = task.order /\ gone.at = task.at + 1
      /\ gone.passed = task.passed \cup {Hook.rank} /\ gone.blind = task.blind
      /\ gone.pc = (IF task.at = Len(task.order) THEN "ok" ELSE "before")
      /\ gone.ran = task.ran /\ gone.objects = [task.objects EXCEPT ![Hook.rank] = Deleting(Obj(Hook))]
  BY <1>6, <1>7 DEF Fields, HookFields
<1>9. CASE task' = kept /\ TNoFault /\ ~HasPolicy(Hook, "hook-succeeded")
  <2>1. /\ task'.objects = [task.objects EXCEPT ![Hook.rank] = Obj(Hook)]
        /\ Obj(Hook) \in [DOMAIN Hook.kinds -> ObjectState]
    BY <1>1, <1>6, <1>9, HookObjects
  <2> QED BY <1>1, <1>6, <1>9, <2>1, PassedHook DEF TNoFault
<1>10. CASE task' = gone /\ TNoFault
  <2> DEFINE h == Deleting(Obj(Hook))
  <2>1. /\ \A i \in DOMAIN Hook.kinds : h[i] \in {"absent", "ending"}
        /\ h \in [DOMAIN Hook.kinds -> ObjectState]
        /\ task'.objects = [task.objects EXCEPT ![Hook.rank] = h]
    BY <1>1, <1>8, <1>10, HookObjects
  <2> HIDE DEF h
  <2> QED BY <1>1, <1>8, <1>10, <2>1, PassedHook DEF TNoFault
<1> QED BY <1>2, <1>3, <1>4, <1>5, <1>9, <1>10

(* The files are parsed and sorted.                                        *)
LEMMA ParsedHooks ==
  ASSUME HooksInv, ParseFiles
  PROVE  HooksInv'
<1>1. /\ task.pc = "parse" /\ task.ran = {} /\ task.passed = {} /\ task.at = 1 /\ task.order = <<>>
      /\ tfaults' = tfaults /\ tfaults \in 0 .. MaxTaskFaults
  BY DEF ParseFiles, TNoFault, HooksInv, InOrder, HooksShape
<1>2. CASE task' = Where("error")
  <2>1. /\ Fields(task', HookFields) /\ task'.kind = task.kind /\ task'.files = task.files
        /\ task'.phase = task.phase /\ task'.order = task.order /\ task'.at = task.at
        /\ task'.passed = task.passed /\ task'.blind = task.blind /\ task'.pc = "error"
        /\ task'.ran = task.ran /\ task'.objects = task.objects
    BY <1>2 DEF Where, HooksInv, HooksShape, Fields, HookFields
  <2>2. HooksShape'
    BY <1>1, <2>1 DEF HooksInv, HooksShape, Obj
  <2>3. InOrder' /\ UpToHere' /\ RanEach' /\ Cleaned'
    BY <1>1, <2>1 DEF InOrder, UpToHere, RanEach, Cleaned, AtWork
  <2> QED BY <2>2, <2>3 DEF HooksInv
<1>3. ASSUME NEW order \in ByWeight(PhaseHooks),
             task' = [task EXCEPT !.pc = IF order = <<>> THEN "ok" ELSE "before", !.order = order]
      PROVE  HooksInv'
  <2>1. IsFiniteSet(PhaseHooks)
    BY FS_Subset DEF HooksInv, HooksShape, PhaseHooks, OfPhase
  <2>2. order \in SetToSeqs(PhaseHooks) /\ \A i, j \in DOMAIN order : i < j => order[i].weight <= order[j].weight
    BY DEF ByWeight
  <2>3. order \in Seq(PhaseHooks) /\ Range(order) = PhaseHooks /\ \A i, j \in DOMAIN order : i # j => order[i] # order[j]
    BY <2>1, <2>2, OrderedSet DEF SetToSeqs, IsInjective
  <2>4. DOMAIN order = 1 .. Len(order) /\ Len(order) \in Nat /\ (order = <<>> <=> Len(order) = 0)
    BY <2>3
  <2>5. /\ Fields(task', HookFields) /\ task'.kind = task.kind /\ task'.files = task.files
        /\ task'.phase = task.phase /\ task'.order = order /\ task'.at = task.at
        /\ task'.passed = task.passed /\ task'.blind = task.blind
        /\ task'.pc = (IF order = <<>> THEN "ok" ELSE "before")
        /\ task'.ran = task.ran /\ task'.objects = task.objects
    BY <1>3 DEF HooksInv, HooksShape, Fields, HookFields
  <2> HIDE <1>3
  <2>6. HooksShape'
    BY <1>1, <2>5 DEF HooksInv, HooksShape, Obj
  <2>7. PhaseHooks' = PhaseHooks
    BY <2>5 DEF PhaseHooks
  <2>8. Parsed'
    BY <2>2, <2>3, <2>4, <2>5, <2>7 DEF Parsed
  <2>9. InOrder'
    BY <1>1, <2>5, <2>8 DEF InOrder
  <2>10. UpToHere'
    BY <1>1, <2>4, <2>5 DEF UpToHere, AtWork
  <2>11. RanEach' /\ Cleaned'
    BY <1>1, <2>5 DEF RanEach, Cleaned
  <2> QED BY <2>6, <2>9, <2>10, <2>11 DEF HooksInv
<1> QED BY <1>2, <1>3, Zenon DEF ParseFiles, PhaseHooks

(* The cluster moves a resource: what is absent stays so, what is being    *)
(* deleted comes back in no other state.                                   *)
LEMMA MovedHook ==
  ASSUME HooksInv, ClusterMoves
  PROVE  HooksInv'
<1> DEFINE Moves(f, i, e) == /\ Obj(f)[i] = (IF e = "absent" THEN "ending" ELSE "running")
                             /\ task' = [task EXCEPT !.objects[f.rank][i] = e]
<1>0. PICK f \in task.files : \E i \in DOMAIN Obj(f) : \E e \in {"done", "failed", "absent"} : Moves(f, i, e)
  BY Zenon DEF ClusterMoves
<1>1. PICK i \in DOMAIN Obj(f), e \in {"done", "failed", "absent"} : Moves(f, i, e)
  BY <1>0, Zenon
<1>2. task.pc \notin {"error"} /\ tfaults' = tfaults
  BY DEF ClusterMoves, TaskEnded, TNoFault
<1>3. f.rank \in DOMAIN task.objects /\ Obj(f) \in [DOMAIN f.kinds -> ObjectState] /\ i \in DOMAIN f.kinds
  BY <1>1 DEF HooksInv, HooksShape
<1>4. /\ Fields(task', HookFields) /\ task'.kind = task.kind /\ task'.files = task.files
      /\ task'.phase = task.phase /\ task'.order = task.order /\ task'.at = task.at
      /\ task'.passed = task.passed /\ task'.blind = task.blind /\ task'.pc = task.pc
      /\ task'.ran = task.ran /\ task'.objects = [task.objects EXCEPT ![f.rank] = [Obj(f) EXCEPT ![i] = e]]
  BY <1>1 DEF Obj, HooksInv, HooksShape, Fields, HookFields
<1>5. task'.objects[f.rank] = [Obj(f) EXCEPT ![i] = e]
  BY <1>3, <1>4
<1>6. ASSUME NEW g \in task.files, g # f PROVE task'.objects[g.rank] = task.objects[g.rank]
  BY <1>1, <1>3, <1>4, <1>6 DEF HooksInv, HooksShape
<1>7. task'.objects[f.rank] \in [DOMAIN f.kinds -> ObjectState]
  BY <1>1, <1>3, <1>5 DEF ObjectState
<1>8. ASSUME NEW g \in task.files, AbsentHook(g) PROVE AbsentHook(g)'
  BY <1>1, <1>3, <1>6, <1>8 DEF AbsentHook, Obj
<1>9. ASSUME NEW g \in task.files, LeavingHook(g) PROVE LeavingHook(g)'
  <2>1. CASE g = f
    BY <1>1, <1>3, <1>5, <1>9, <2>1 DEF LeavingHook, Obj
  <2> QED BY <1>6, <1>9, <2>1 DEF LeavingHook, Obj
<1>10. HooksShape'
  <2>1. \A g \in task.files : task'.objects[g.rank] \in [DOMAIN g.kinds -> ObjectState]
    BY <1>6, <1>7 DEF HooksInv, HooksShape, Obj
  <2>2. task'.objects = [r \in {g.rank : g \in task'.files} |-> task'.objects[r]]
    BY <1>4 DEF HooksInv, HooksShape
  <2> QED BY <1>2, <1>4, <2>1, <2>2 DEF HooksInv, HooksShape, Obj
<1>11. PhaseHooks' = PhaseHooks /\ Parsed' = Parsed /\ Hook' = Hook
  BY <1>4 DEF PhaseHooks, Parsed, Hook
<1>12. InOrder' /\ UpToHere'
  BY <1>4, <1>11 DEF HooksInv, InOrder, UpToHere
<1>13. RanEach'
  <2>1. task.pc = "apply" => Hook \in task.files
    BY HookAtWork DEF AtWork, Hook
  <2>2. \A g : RanAll(g) => RanAll(g)'
    BY <1>4 DEF RanAll
  <2> QED BY <1>4, <1>8, <1>11, <2>1, <2>2 DEF HooksInv, RanEach
<1>14. Cleaned'
  <2>1. Parsed => \A j \in 1 .. Len(task.order) : task.order[j] \in task.files
    BY DEF Parsed, PhaseHooks, OfPhase
  <2> QED BY <1>2, <1>4, <1>9, <1>11, <2>1 DEF HooksInv, Cleaned
<1> QED BY <1>10, <1>12, <1>13, <1>14 DEF HooksInv

(* Every step keeps the invariant.                                         *)
LEMMA HooksNext == HooksInv /\ [HookStep]_taskVars => HooksInv'
<1> SUFFICES ASSUME HooksInv, [HookStep]_taskVars PROVE HooksInv'
  OBVIOUS
<1>1. CASE UNCHANGED taskVars
  <2>1. task' = task /\ tfaults' = tfaults
    BY <1>1 DEF taskVars
  <2>2. HooksShape' /\ PhaseHooks' = PhaseHooks /\ Hook' = Hook
    BY <2>1 DEF HooksInv, HooksShape, Obj, PhaseHooks, Hook
  <2>3. Parsed' = Parsed
    BY <2>1, <2>2 DEF Parsed
  <2>4. InOrder' /\ UpToHere'
    BY <2>1, <2>3 DEF HooksInv, InOrder, UpToHere
  <2>5. RanEach'
    BY <2>1, <2>2, <2>3 DEF HooksInv, RanEach, RanAll, AbsentHook, Obj
  <2>6. Cleaned'
    BY <2>1, <2>2, <2>3 DEF HooksInv, Cleaned, LeavingHook, Obj
  <2> QED BY <2>2, <2>4, <2>5, <2>6 DEF HooksInv
<1> QED BY <1>1, BeforeHooks, AppliedHook, WaitsHook, OverHook, ParsedHooks, MovedHook DEF HookStep

(* No hook has run.                                                        *)
LEMMA HooksBegin ==
  ASSUME NEW files, NEW objects, NEW phase \in Phases, HookInputs(files, objects),
         task = HookTask(files, phase, objects), tfaults = MaxTaskFaults
  PROVE  HooksInv
<1>1. HooksShape
  <2>1. \A f \in files : f.weight \in Int
    BY DEF HookInputs, HookSource
  <2>2. task.files = files /\ task.objects = objects /\ task.kind = "hooks" /\ task.at = 1 /\ Fields(task, HookFields)
    BY DEF HookTask, Fields, HookFields
  <2>3. objects = [r \in {f.rank : f \in files} |-> objects[r]]
    BY DEF HookInputs
  <2>4. /\ IsFiniteSet(files) /\ \A f, g \in files : f.rank = g.rank => f = g
        /\ \A f \in files : objects[f.rank] \in [DOMAIN f.kinds -> ObjectState]
    BY DEF HookInputs
  <2>5. task.objects = [r \in {f.rank : f \in task.files} |-> task.objects[r]]
    BY <2>2, <2>3
  <2>6. tfaults \in 0 .. MaxTaskFaults
    BY TaskFaultsAssumption
  <2> QED BY <2>1, <2>2, <2>4, <2>5, <2>6 DEF HooksShape, Obj
<1>2. InOrder /\ UpToHere /\ RanEach /\ Cleaned
  BY DEF HookTask, InOrder, UpToHere, RanEach, Cleaned, AtWork, Parsed
<1> QED BY <1>1, <1>2 DEF HooksInv

(* The invariant is enough.                                                *)
LEMMA HooksPromise == HooksInv => HooksRunOnceInOrder
<1> SUFFICES ASSUME HooksInv PROVE HooksRunOnceInOrder
  OBVIOUS
<1>1. ~Parsed => task.ran = {} /\ task.passed = {} /\ task.pc # "ok"
  BY DEF HooksInv, InOrder
<1>2. CASE ~Parsed
  BY <1>1, <1>2 DEF HooksRunOnceInOrder, RanHook
<1>3. CASE Parsed
  <2>1. /\ Len(task.order) \in Nat /\ task.at \in Nat
        /\ \A i \in 1 .. Len(task.order) : task.order[i] \in PhaseHooks /\ task.order[i] \in task.files
        /\ \A f \in PhaseHooks : \E i \in 1 .. Len(task.order) : task.order[i] = f
    BY <1>3 DEF Parsed, PhaseHooks, OfPhase, Range, HooksInv, HooksShape
  <2>2. \A f, g \in PhaseHooks : f.rank = g.rank => f = g
    BY DEF HooksInv, HooksShape, PhaseHooks, OfPhase
  <2>3. ASSUME NEW f \in PhaseHooks, RanHook(f)
        PROVE  \E i \in 1 .. Len(task.order) : i <= task.at /\ task.order[i] = f
    BY <1>3, <2>1, <2>2, <2>3 DEF HooksInv, UpToHere, RanHook
  <2>4. ASSUME NEW f \in PhaseHooks
        PROVE  f.rank \in task.passed <=> \E i \in 1 .. Len(task.order) : i < task.at /\ task.order[i] = f
    <3>1. task.at <= Len(task.order) + 1 /\ task.passed = {task.order[i].rank : i \in 1 .. task.at - 1}
      BY <1>3 DEF HooksInv, UpToHere
    <3>2. \A i \in 1 .. task.at - 1 : i \in 1 .. Len(task.order) /\ i < task.at
      BY <2>1, <3>1
    <3>3. \A i \in 1 .. Len(task.order) : i < task.at => i \in 1 .. task.at - 1
      BY <2>1
    <3>4. \A i \in 1 .. Len(task.order) : task.order[i].rank = f.rank => task.order[i] = f
      BY <2>1, <2>2
    <3> QED BY <3>1, <3>2, <3>3, <3>4
  <2>5. ASSUME NEW f \in PhaseHooks, NEW g \in PhaseHooks, RanHook(f), g.weight < f.weight
        PROVE  g.rank \in task.passed
    <3>1. PICK i \in 1 .. Len(task.order) : i <= task.at /\ task.order[i] = f
      BY <2>3, <2>5
    <3>2. PICK j \in 1 .. Len(task.order) : task.order[j] = g
      BY <2>1
    <3>3. f.weight \in Int /\ g.weight \in Int
      BY <2>1, <3>1, <3>2 DEF HooksInv, HooksShape
    <3>4. j < i
      <4>1. ASSUME i < j PROVE FALSE
        BY <1>3, <2>5, <3>1, <3>2, <3>3, <4>1 DEF Parsed
      <4> QED BY <2>1, <2>5, <3>1, <3>2, <3>3, <4>1
    <3> QED BY <2>1, <2>4, <3>1, <3>2, <3>4
  <2>6. ASSUME NEW f \in PhaseHooks, RanHook(f), f.rank \notin task.passed
        PROVE  f = Hook /\ task.at \in 1 .. Len(task.order)
    BY <2>1, <2>3, <2>4, <2>6 DEF Hook
  <2>7. ASSUME task.pc = "ok", ~task.blind, NEW f \in PhaseHooks
        PROVE  f.rank \in task.passed /\ (HasPolicy(f, "before-hook-creation") => RanAll(f))
    <3>1. task.at = Len(task.order) + 1
      BY <1>3, <2>7 DEF HooksInv, UpToHere
    <3> QED BY <1>3, <2>1, <2>4, <2>7, <3>1 DEF HooksInv, RanEach
  <2>8. ASSUME tfaults = MaxTaskFaults, NEW f \in PhaseHooks, f.rank \in task.passed,
               HasPolicy(f, "hook-succeeded")
        PROVE  LeavingHook(f)
    BY <1>3, <2>4, <2>8 DEF HooksInv, Cleaned
  <2>9. ASSUME tfaults = MaxTaskFaults, NEW f \in PhaseHooks, f.rank \notin task.passed, RanHook(f),
               task.pc = "error", HasPolicy(f, "hook-failed")
        PROVE  LeavingHook(f)
    BY <1>3, <2>6, <2>9 DEF HooksInv, Cleaned
  <2> QED BY <2>5, <2>6, <2>7, <2>8, <2>9 DEF HooksRunOnceInOrder, LeavingHook, RanAll
<1> QED BY <1>2, <1>3

(* ExecuteHooksWithTimeout: the hooks of a phase run in the order of their *)
(* weights, each once those before have passed, and their policies are     *)
(* kept, for any directory of hooks and any number of failures.            *)
THEOREM HooksKeepOrder == HookSpec => []HooksRunOnceInOrder
<1>1. (\E files, objects : \E phase \in Phases :
         HookInputs(files, objects) /\ task = HookTask(files, phase, objects)) /\ tfaults = MaxTaskFaults
      => HooksInv
  BY HooksBegin
<1> QED BY <1>1, HooksNext, HooksPromise, PTL DEF HookSpec

-----------------------------------------------------------------------------
(* Ownership.                                                              *)

OwnershipFields == {"kind", "pc", "object", "served", "take", "at", "tries", "mapped", "blind",
                    "raced", "taken", "has"}

(* A release that is about to write has consent, or is known to be blind   *)
(* or overtaken.                                                           *)
Cleared(t, c) == \/ t.take[c] \/ c \in t.blind \cup t.raced
                 \/ ~t.object.there \/ t.object.owner \in {c, Nobody}

OwnershipInv(t) ==
    /\ Fields(t, OwnershipFields) /\ t.kind = "ownership"
    /\ t.object \in [there : BOOLEAN, owner : Claimant \cup {Nobody}]
    /\ t.at = [c \in Claimant |-> t.at[c]]
    /\ \A c \in Claimant : t.at[c] = "patch" => Cleared(t, c)
    /\ \A p \in t.taken : t.take[p[1]] \/ p[1] \in t.blind \cup t.raced
    /\ t.object.there /\ t.object.owner # Nobody => t.object.owner \in t.has

(* A client that goes anywhere but to its write.                           *)
LEMMA MovedOwnership ==
  ASSUME NEW t, OwnershipInv(t), NEW c \in Claimant, NEW s, s = "patch" => Cleared(t, c)
  PROVE  OwnershipInv([t EXCEPT !.at[c] = s])
BY DEF OwnershipInv, Fields, OwnershipFields, Cleared

(* What no part of the invariant speaks of.                                *)
LEMMA CountedOwnership ==
  ASSUME NEW t, OwnershipInv(t), NEW c \in Claimant, NEW n
  PROVE  /\ OwnershipInv([t EXCEPT !.tries[c] = n])
         /\ OwnershipInv([t EXCEPT !.mapped[c] = n])
         /\ OwnershipInv([t EXCEPT !.pc = n])
         /\ OwnershipInv([t EXCEPT !.blind = @ \cup {c}])
BY DEF OwnershipInv, Fields, OwnershipFields, Cleared

(* A write: those it overtakes are known, and the stamp is its own.        *)
LEMMA WrittenOwnership ==
  ASSUME OwnershipInv(task), NEW c \in Claimant, task.at[c] = "patch"
  PROVE  OwnershipInv(Written(c))
<1> DEFINE w == Written(c)
<1>1. /\ Fields(w, OwnershipFields) /\ w.kind = "ownership" /\ w.take = task.take
      /\ w.blind = task.blind /\ w.at = task.at
      /\ w.object = [there |-> TRUE, owner |-> c] /\ w.has = task.has \cup {c}
      /\ w.raced = task.raced \cup {d \in Claimant \ {c} : task.at[d] = "patch"}
      /\ w.taken = IF task.object.there /\ task.object.owner \notin {c, Nobody}
                   THEN task.taken \cup {<<c, task.object.owner>>} ELSE task.taken
  BY DEF Written, Overtakes, OwnershipInv, Fields, OwnershipFields
<1> HIDE DEF w
<1>2. Cleared(task, c)
  BY DEF OwnershipInv
<1>3. \A p \in w.taken : w.take[p[1]] \/ p[1] \in w.blind \cup w.raced
  BY <1>1, <1>2 DEF OwnershipInv, Cleared
<1>4. \A d \in Claimant : w.at[d] = "patch" => Cleared(w, d)
  BY <1>1, <1>2 DEF Cleared
<1> QED BY <1>1, <1>3, <1>4 DEF OwnershipInv, w

(* One lemma for each step of a client.                                    *)
LEMMA CheckOwnership ==
  ASSUME OwnershipInv(task), NEW c \in Claimant, MapKind(c) \/ CheckOwner(c)
  PROVE  OwnershipInv(task')
<1>1. CASE MapKind(c)
  <2>1. OwnershipInv(Moved(c, "check")) /\ OwnershipInv(Moved(c, "refused"))
    BY MovedOwnership DEF Moved
  <2>2. OwnershipInv([Moved(c, "check") EXCEPT !.mapped[c] = TRUE])
    BY <2>1, CountedOwnership
  <2> QED BY <1>1, <2>1, <2>2 DEF MapKind
<1>2. CASE CheckOwner(c)
  <2>1. CASE task' = Moved(c, "patch") /\ Cleared(task, c)
    BY <2>1, MovedOwnership DEF Moved
  <2>2. CASE task' = Moved(c, "refused")
    BY <2>2, MovedOwnership DEF Moved
  <2>3. CASE task' = [Moved(c, "patch") EXCEPT !.blind = @ \cup {c}]
    <3>1. OwnershipInv([task EXCEPT !.blind = @ \cup {c}])
      BY CountedOwnership
    <3>2. Cleared([task EXCEPT !.blind = @ \cup {c}], c)
      BY DEF Cleared, OwnershipInv, Fields, OwnershipFields
    <3>3. OwnershipInv([[task EXCEPT !.blind = @ \cup {c}] EXCEPT !.at[c] = "patch"])
      BY <3>1, <3>2, MovedOwnership
    <3>4. task' = [[task EXCEPT !.blind = @ \cup {c}] EXCEPT !.at[c] = "patch"]
      BY <2>3 DEF Moved, OwnershipInv, Fields, OwnershipFields
    <3> QED BY <3>3, <3>4
  <2> QED BY <1>2, <2>1, <2>2, <2>3 DEF CheckOwner, Cleared, Foreign
<1> QED BY <1>1, <1>2

(* The write itself: it lands, is retried, or is refused.                  *)
LEMMA WriteOwnership ==
  ASSUME OwnershipInv(task), NEW c \in Claimant, ApplyObject(c)
  PROVE  OwnershipInv(task')
<1>1. OwnershipInv(Written(c))
  BY WrittenOwnership DEF ApplyObject
<1>2. CASE task' = [Written(c) EXCEPT !.at[c] = "applied"]
  BY <1>1, <1>2, MovedOwnership
<1>3. ASSUME NEW t \in {task, Written(c)},
             task' = IF task.tries[c] + 1 < MaxTries THEN [t EXCEPT !.tries[c] = @ + 1]
                     ELSE [t EXCEPT !.at[c] = "refused"]
      PROVE  OwnershipInv(task')
  <2>1. OwnershipInv(t)
    BY <1>1
  <2> QED BY <1>3, <2>1, MovedOwnership, CountedOwnership
<1>4. CASE task' = Moved(c, "refused")
  BY <1>4, MovedOwnership DEF Moved
<1> QED BY <1>2, <1>3, <1>4 DEF ApplyObject

(* What others do to the object between the steps of a client.             *)
LEMMA LeaveOwnership ==
  ASSUME OwnershipInv(task), NEW c \in Claimant,
         DeleteObject(c) \/ \E d \in Claimant : Restamp(c, d)
  PROVE  OwnershipInv(task')
<1>1. CASE task' = task
  BY <1>1
<1>2. CASE task' = Overtakes([Moved(c, "start") EXCEPT !.object = [there |-> FALSE, owner |-> Nobody],
                                                        !.has = {}], c)
  <2>1. /\ Fields(task', OwnershipFields) /\ task'.kind = "ownership" /\ task'.take = task.take
        /\ task'.blind = task.blind /\ task'.taken = task.taken /\ task.raced \subseteq task'.raced
        /\ task'.object = [there |-> FALSE, owner |-> Nobody]
        /\ task'.at = [d \in Claimant |-> task'.at[d]]
    BY <1>2 DEF Overtakes, Moved, OwnershipInv, Fields, OwnershipFields
  <2> QED BY <2>1 DEF OwnershipInv, Cleared
<1>3. ASSUME NEW d \in Claimant, c # d, c \in task.has,
             task' = Overtakes([task EXCEPT !.object.owner = IF task.object.there THEN d ELSE @,
                                            !.at[c] = "start", !.at[d] = "applied",
                                            !.has = (@ \ {c}) \cup {d}], d)
      PROVE  OwnershipInv(task')
  <2>1. /\ Fields(task', OwnershipFields) /\ task'.kind = "ownership" /\ task'.take = task.take
        /\ task'.blind = task.blind /\ task'.taken = task.taken
        /\ task'.object = [there |-> task.object.there,
                           owner |-> IF task.object.there THEN d ELSE task.object.owner]
        /\ task'.at = [[task.at EXCEPT ![c] = "start"] EXCEPT ![d] = "applied"]
        /\ task'.has = (task.has \ {c}) \cup {d}
    BY <1>3 DEF Overtakes, OwnershipInv, Fields, OwnershipFields
  <2>2. task'.raced = task.raced \cup {e \in Claimant \ {d} : task'.at[e] = "patch"}
    BY <1>3 DEF Overtakes, OwnershipInv, Fields, OwnershipFields
  <2>3. \A e \in Claimant : task'.at[e] = "patch" => e \in task'.raced
    BY <2>1, <2>2 DEF OwnershipInv
  <2>4. \A p \in task'.taken : task'.take[p[1]] \/ p[1] \in task'.blind \cup task'.raced
    BY <2>1, <2>2 DEF OwnershipInv
  <2>5. task'.object \in [there : BOOLEAN, owner : Claimant \cup {Nobody}]
    BY <2>1 DEF OwnershipInv
  <2>6. task'.object.there => task'.object.owner \in task'.has
    BY <2>1 DEF OwnershipInv
  <2>7. task'.at = [e \in Claimant |-> task'.at[e]]
    BY <2>1 DEF OwnershipInv
  <2> QED BY <2>1, <2>3, <2>4, <2>5, <2>6, <2>7 DEF OwnershipInv, Cleared
<1> QED BY <1>1, <1>2, <1>3 DEF DeleteObject, Restamp

(* Every step keeps the invariant.                                         *)
LEMMA StepOwnership ==
  ASSUME OwnershipInv(task), OwnershipStep
  PROVE  OwnershipInv(task')
<1>1. CASE ReleaseEnds
  <2>1. task' = [task EXCEPT !.pc = "ok"]
    BY <1>1 DEF ReleaseEnds
  <2> QED BY <2>1 DEF OwnershipInv, Fields, OwnershipFields, Cleared
<1> QED BY <1>1, CheckOwnership, WriteOwnership, LeaveOwnership DEF OwnershipStep

(* The client has read nothing and written nothing yet.                    *)
LEMMA BeginOwnership ==
  ASSUME NEW object \in Findable, NEW served, NEW take
  PROVE  OwnershipInv(OwnershipTask(object, served, take))
<1> DEFINE t == OwnershipTask(object, served, take)
<1>1. Fields(t, OwnershipFields)
  BY DEF OwnershipTask, Fields, OwnershipFields
<1>2. /\ t.kind = "ownership" /\ t.object = object /\ t.at = [c \in Claimant |-> "start"]
      /\ t.taken = {} /\ t.has = {c \in Claimant : object.owner = c}
  BY DEF OwnershipTask
<1>3. object \in [there : BOOLEAN, owner : Claimant \cup {Nobody}]
  <2>1. CASE object = Unclaimed
    BY <2>1 DEF Unclaimed
  <2>2. CASE object \in [there : {TRUE}, owner : Claimant \cup {Nobody}]
    BY <2>2
  <2> QED BY <2>1, <2>2 DEF Findable
<1> HIDE DEF t
<1>4. t.object.there /\ t.object.owner # Nobody => t.object.owner \in t.has
  BY <1>2, <1>3
<1> QED BY <1>1, <1>2, <1>3, <1>4 DEF OwnershipInv, t

(* What is to be shown of a task that begins and goes on.                  *)
LEMMA OwnershipAlways == OwnershipSpec => []OwnershipInv(task)
<1> DEFINE Inv == OwnershipInv(task)
<1>1. (\E object \in Findable, served \in BOOLEAN, take \in [Claimant -> BOOLEAN] :
         task = OwnershipTask(object, served, take)) => Inv
  BY BeginOwnership
<1>2. Inv /\ [OwnershipStep]_taskVars => Inv'
  BY StepOwnership DEF taskVars
<1> QED BY <1>1, <1>2, PTL DEF OwnershipSpec

(* The invariant is enough.                                                *)
LEMMA OwnershipPromise == OwnershipInv(task) => OwnershipNeedsConsent
BY DEF OwnershipInv, OwnershipNeedsConsent

(* checkOwnership: see OwnershipNeedsConsent.                              *)
THEOREM Consent == OwnershipSpec => []OwnershipNeedsConsent
BY OwnershipAlways, OwnershipPromise, PTL

-----------------------------------------------------------------------------
(* Rollout: what a controller reports is a count of the pods there were,   *)
(* so those that are up beyond the new ones are old ones.                  *)

Counts == [total : Nat, updated : Nat, up : Nat, upNew : Nat]
AnyWorkload ==
    [kind : Workloads, generation : Nat, desired : Nat, old : Nat, new : Nat, oldUp : Nat,
     newUp : Nat, observed : Nat, stalled : BOOLEAN, seen : Counts]
SoundWorkload ==
    {o \in AnyWorkload : /\ o.oldUp = o.old
                         /\ o.seen.updated <= o.seen.total
                         /\ o.seen.up + o.seen.updated <= o.seen.total + o.seen.upNew}
AnyPlain == [kind : {"Pod", "PersistentVolumeClaim", "LoadBalancer", "Job"}, phase : ObjectPhases]
Settled == Other("ConfigMap", "applied")
WaitObject == SoundWorkload \cup AnyPlain \cup {Settled}

(* What the wait may count as ready: the words of ReadyIsRolledOut.        *)
RolledOut(o) ==
    IF o.kind \in {"Deployment", "StatefulSet"}
    THEN /\ o.observed = o.generation
         /\ o.seen.total = o.seen.updated /\ o.seen.upNew >= o.desired
    ELSE o.kind \notin Workloads => o.phase \notin {"pending", "failed", "lost"}

RolloutFields == {"kind", "pc", "at", "objects", "verdicts"}
RolloutInv(t) ==
    /\ Fields(t, RolloutFields) /\ t.kind = "rollout"
    /\ t.objects \in Seq(WaitObject) /\ t.verdicts \in Seq(WaitObject)
    /\ \A i \in 1 .. Len(t.verdicts) : RolledOut(t.verdicts[i])
    /\ t.at = Len(t.verdicts) + 1 /\ t.at <= Len(t.objects) + 1
    /\ t.pc = "ok" => t.at > Len(t.objects)

(* waitForResource: "ready" means it.                                      *)
LEMMA ReadinessIsTrue ==
  ASSUME NEW o \in WaitObject, Readiness(o) = "ready"
  PROVE  RolledOut(o)
<1>1. CASE o \in SoundWorkload
  <2>1. o.kind \in Workloads
    BY <1>1 DEF SoundWorkload, AnyWorkload
  <2>2. CASE o.kind = "Deployment"
    <3>1. DeploymentReady(o) = "ready"
      BY <2>2 DEF Readiness
    <3> QED BY <1>1, <2>2, <3>1 DEF SoundWorkload, AnyWorkload, Counts, DeploymentReady, Verdict, RolledOut
  <2>3. CASE o.kind = "StatefulSet"
    <3>1. StatefulSetReady(o) = "ready"
      BY <2>3 DEF Readiness
    <3> QED BY <1>1, <2>3, <3>1 DEF SoundWorkload, AnyWorkload, Counts, StatefulSetReady, Verdict, RolledOut
  <2> QED BY <2>1, <2>2, <2>3 DEF Workloads, RolledOut
<1>2. CASE o \in AnyPlain
  <2>1. /\ o.kind \in {"Pod", "PersistentVolumeClaim", "LoadBalancer", "Job"}
        /\ PhaseReady(o) = "ready"
    BY <1>2 DEF AnyPlain, Readiness
  <2>2. o.phase \notin {"pending", "failed", "lost"}
    <3>1. CASE o.kind = "Pod"
      BY <2>1, <3>1 DEF PhaseReady, Verdict
    <3>2. CASE o.kind = "PersistentVolumeClaim"
      BY <2>1, <3>2 DEF PhaseReady, Verdict
    <3>3. CASE o.kind = "LoadBalancer"
      BY <2>1, <3>3 DEF PhaseReady, Verdict
    <3>4. CASE o.kind = "Job"
      BY <2>1, <3>4 DEF PhaseReady, Verdict
    <3> QED BY <2>1, <3>1, <3>2, <3>3, <3>4
  <2> QED BY <2>1, <2>2 DEF RolledOut
<1>3. CASE o = Settled
  BY <1>3 DEF Settled, Other, RolledOut
<1> QED BY <1>1, <1>2, <1>3 DEF WaitObject

(* A controller changes its object and nothing else.                       *)
LEMMA ObjectRollout ==
  ASSUME RolloutInv(task), NEW i \in DOMAIN task.objects, NEW o \in WaitObject, Becomes(i, o)
  PROVE  RolloutInv(task')
<1>1. task' = [task EXCEPT !.objects = [@ EXCEPT ![i] = o]]
  BY DEF Becomes, RolloutInv, Fields, RolloutFields
<1>2. /\ [task.objects EXCEPT ![i] = o] \in Seq(WaitObject)
      /\ Len([task.objects EXCEPT ![i] = o]) = Len(task.objects)
  BY DEF RolloutInv
<1> QED BY <1>1, <1>2 DEF RolloutInv, Fields, RolloutFields

(* WriteStatus counts the pods there are.                                  *)
LEMMA StatusRollout ==
  ASSUME RolloutInv(task), NEW i \in DOMAIN task.objects,
         WriteStatus(i) \/ Roll(i) \/ Settle(i)
  PROVE  RolloutInv(task')
<1> DEFINE o == task.objects[i]
<1>0. o \in WaitObject
  BY DEF RolloutInv
<1>1. CASE WriteStatus(i)
  <2> DEFINE r == [o EXCEPT !.observed = o.generation,
                          !.seen = [total |-> o.old + o.new, updated |-> o.new,
                                    up |-> o.oldUp + o.newUp, upNew |-> o.newUp]]
  <2>1. Becomes(i, r) /\ o.kind \in Workloads
    BY <1>1 DEF WriteStatus
  <2>2. o \in SoundWorkload
    BY <1>0, <2>1 DEF WaitObject, AnyPlain, Settled, Other, Workloads
  <2>3. r \in SoundWorkload
    <3>1. /\ r \in AnyWorkload /\ r.old = o.old /\ r.oldUp = o.oldUp
          /\ r.seen = [total |-> o.old + o.new, updated |-> o.new,
                       up |-> o.oldUp + o.newUp, upNew |-> o.newUp]
      <4>1. [total |-> o.old + o.new, updated |-> o.new, up |-> o.oldUp + o.newUp, upNew |-> o.newUp]
              \in Counts
        BY <2>2 DEF SoundWorkload, AnyWorkload, Counts
      <4>2. \A s \in Counts : LET q == [o EXCEPT !.observed = o.generation, !.seen = s]
                             IN  q \in AnyWorkload /\ q.old = o.old /\ q.oldUp = o.oldUp /\ q.seen = s
        BY <2>2 DEF SoundWorkload, AnyWorkload
      <4> QED BY <4>1, <4>2
    <3>2. o.old \in Nat /\ o.new \in Nat /\ o.newUp \in Nat /\ o.oldUp = o.old
      BY <2>2 DEF SoundWorkload, AnyWorkload
    <3> HIDE DEF r
    <3> QED BY <3>1, <3>2 DEF SoundWorkload
  <2> QED BY <2>1, <2>3, ObjectRollout DEF WaitObject
<1>2. CASE Roll(i)
  <2>1. o \in SoundWorkload
    BY <1>0, <1>2 DEF Roll, WaitObject, AnyPlain, Settled, Other, Workloads
  <2>2. \A n \in Nat : /\ [o EXCEPT !.new = n] \in WaitObject
                       /\ [o EXCEPT !.newUp = n] \in WaitObject
    BY <2>1 DEF SoundWorkload, AnyWorkload, Counts, WaitObject
  <2>3. [o EXCEPT !.stalled = TRUE] \in WaitObject
    BY <2>1 DEF SoundWorkload, AnyWorkload, Counts, WaitObject
  <2>4. /\ o.new + 1 \in Nat /\ o.newUp + 1 \in Nat
        /\ o.oldUp = o.old /\ o.old > 0 => o.old - 1 \in Nat
    BY <2>1 DEF SoundWorkload, AnyWorkload
  <2>5. CASE Becomes(i, [o EXCEPT !.new = @ + 1])
    BY <2>2, <2>4, <2>5, ObjectRollout
  <2>6. CASE Becomes(i, [o EXCEPT !.newUp = @ + 1])
    BY <2>2, <2>4, <2>6, ObjectRollout
  <2>7. CASE o.old > 0 /\ Becomes(i, [o EXCEPT !.old = @ - 1, !.oldUp = @ - 1])
    <3>1. [o EXCEPT !.old = @ - 1, !.oldUp = @ - 1] \in WaitObject
      <4>1. [o EXCEPT !.old = @ - 1, !.oldUp = @ - 1] = [o EXCEPT !.old = o.old - 1, !.oldUp = o.old - 1]
        BY <2>1, <2>4 DEF SoundWorkload, AnyWorkload
      <4>2. [o EXCEPT !.old = o.old - 1, !.oldUp = o.old - 1] \in WaitObject
        BY <2>1, <2>4, <2>7 DEF SoundWorkload, AnyWorkload, Counts, WaitObject
      <4> QED BY <4>1, <4>2
    <3> QED BY <2>7, <3>1, ObjectRollout
  <2>8. CASE Becomes(i, [o EXCEPT !.stalled = TRUE])
    BY <2>3, <2>8, ObjectRollout
  <2> QED BY <1>2, <2>5, <2>6, <2>7, <2>8 DEF Roll
<1>3. CASE Settle(i)
  <2>1. o \in AnyPlain
    BY <1>0, <1>3 DEF Settle, WaitObject, SoundWorkload, AnyWorkload, Workloads, Settled, Other
  <2>2. \A p \in ObjectPhases : [o EXCEPT !.phase = p] \in WaitObject
    BY <2>1 DEF AnyPlain, WaitObject
  <2> QED BY <1>3, <2>2, ObjectRollout DEF Settle
<1> QED BY <1>1, <1>2, <1>3

(* Every step keeps the invariant.                                         *)
LEMMA StepRollout ==
  ASSUME RolloutInv(task), RolloutStep
  PROVE  RolloutInv(task')
<1>1. CASE Poll
  <2>1. CASE task' = [task EXCEPT !.pc = "error"]
    BY <2>1 DEF RolloutInv, Fields, RolloutFields
  <2>2. CASE Readiness(Waited) = "ready" /\ task' = [task EXCEPT !.at = @ + 1, !.verdicts = Append(@, Waited)]
    <3>1. Waited \in WaitObject /\ RolledOut(Waited)
      BY <1>1, <2>2, ReadinessIsTrue DEF Poll, RolloutInv, Waited
    <3> DEFINE v == Append(task.verdicts, Waited)
    <3>2. /\ v \in Seq(WaitObject) /\ Len(v) = Len(task.verdicts) + 1
          /\ \A k \in 1 .. Len(v) : RolledOut(v[k])
      BY <3>1 DEF RolloutInv
    <3>3. /\ Fields(task', RolloutFields) /\ task'.kind = "rollout" /\ task'.pc = task.pc
          /\ task'.objects = task.objects /\ task'.verdicts = v /\ task'.at = task.at + 1
      BY <2>2 DEF RolloutInv, Fields, RolloutFields
    <3>4. task.pc = "wait" /\ task.at <= Len(task.objects)
      BY <1>1 DEF Poll
    <3>5. Len(task.objects) \in Nat /\ Len(task.verdicts) \in Nat
      BY DEF RolloutInv
    <3> HIDE DEF v
    <3> QED BY <3>2, <3>3, <3>4, <3>5 DEF RolloutInv
  <2> QED BY <1>1, <2>1, <2>2 DEF Poll
<1>2. CASE AllReady
  BY <1>2 DEF AllReady, RolloutInv, Fields, RolloutFields
<1> QED BY <1>1, <1>2, StatusRollout DEF RolloutStep

(* No controller has seen the new generation yet.                          *)
LEMMA BeginRollout ==
  ASSUME NEW objects \in Seq(WaitInputs)
  PROVE  RolloutInv(RolloutTask(objects))
<1>1. ASSUME NEW kind \in Workloads, NEW running \in Nat, NEW desired \in Nat
      PROVE  Scaled(NewWorkload(kind, running), desired) \in WaitObject
  <2>1. NewWorkload(kind, running) \in SoundWorkload
    BY DEF NewWorkload, SoundWorkload, AnyWorkload, Counts
  <2>2. ASSUME NEW o \in SoundWorkload PROVE Scaled(o, desired) \in SoundWorkload
    BY DEF Scaled, SoundWorkload, AnyWorkload
  <2> QED BY <2>1, <2>2 DEF WaitObject
<1>2. \A o \in WaitInputs : o \in WaitObject
  <2>1. \A k \in {"Pod", "PersistentVolumeClaim", "LoadBalancer", "Job"}, p \in ObjectPhases :
           Other(k, p) \in WaitObject
    BY DEF Other, WaitObject, AnyPlain
  <2>2. Other("ConfigMap", "applied") \in WaitObject
    BY DEF WaitObject, Settled
  <2> QED BY <1>1, <2>1, <2>2 DEF WaitInputs, ObjectPhases
<1>3. objects \in Seq(WaitObject)
  BY <1>2
<1>4. <<>> \in Seq(WaitObject) /\ Len(<<>>) = 0
  OBVIOUS
<1> QED BY <1>3, <1>4 DEF RolloutTask, RolloutInv, Fields, RolloutFields

(* What is to be shown of a task that begins and goes on.                  *)
LEMMA RolloutAlways == RolloutSpec => []RolloutInv(task)
<1> DEFINE Inv == RolloutInv(task)
<1>1. (\E objects \in Seq(WaitInputs) : task = RolloutTask(objects)) => Inv
  BY BeginRollout
<1>2. Inv /\ [RolloutStep]_taskVars => Inv'
  BY StepRollout DEF taskVars
<1> QED BY <1>1, <1>2, PTL DEF RolloutSpec

(* The invariant is enough.                                                *)
LEMMA RolloutPromise == RolloutInv(task) => ReadyIsRolledOut
BY DEF RolloutInv, ReadyIsRolledOut, RolledOut

(* WaitForReady: see ReadyIsRolledOut.                                     *)
THEOREM RolledOutWhenReady == RolloutSpec => []ReadyIsRolledOut
BY RolloutAlways, RolloutPromise, PTL

-----------------------------------------------------------------------------
(* Kinds.                                                                  *)

KindsFields == {"kind", "pc", "docs", "objects", "script", "op", "defined", "cache", "todo", "waiting",
                "before", "found", "skipped", "result"}
Left == Range(task.todo)

KindsShape ==
    /\ Fields(task, KindsFields) /\ task.kind = "kinds"
    /\ task.docs \in Seq([kind : BuiltIn \cup Custom, keep : BOOLEAN])
    /\ task.objects \subseteq DOMAIN task.docs /\ task.todo \in Seq(DOMAIN task.docs)
    /\ task.waiting \in Seq(DOMAIN task.docs)
    /\ task.script \in Seq(KindOps) /\ task.op \in KindOps \cup {"none"}

(* Custom objects exist only while their definition is served.             *)
DefinedFirst == \A i \in task.objects : KindOf(i) \in Custom => task.defined = "served"

(* What an operation has done of its promise, and what it has left to do.  *)
LooksOnly == task.op \in {"dry", "diff", "snapshot"} \cup Lookups => task.objects = task.before
ApplyGoesOn == task.op = "apply" => DOMAIN task.docs \subseteq task.objects \cup Left
CrdsGoOn == task.op = "crds" =>
    /\ Left \subseteq Definitions
    /\ Definitions # {} => task.defined = "served" \/ task.todo # <<>> \/ task.waiting # <<>>
KeptRemoved ==
    \A i \in task.before \ task.objects :
       task.docs[i].keep => \E j \in task.before \ task.objects : i \in RemovedWith(j) /\ ~task.docs[j].keep
DeleteGoesOn == task.op = "delete" =>
    /\ task.objects \subseteq task.before /\ \A i \in Left : ~task.docs[i].keep
    /\ \A i \in task.objects : task.docs[i].keep \/ i \in Left
    /\ KeptRemoved
LooksGoOn == task.op \in {"diff", "snapshot"} \cup Lookups =>
    /\ task.found \subseteq task.objects \cap Visible(task.op)
    /\ task.objects \cap Visible(task.op) \subseteq task.found \cup Left \/ (task.op = "snapshot" /\ task.skipped)

(* ... and what it has promised when it is over.                           *)
Promised == task.op = "none" =>
    /\ task.result = <<"apply", "ok">> => task.objects = DOMAIN task.docs
    /\ task.result = <<"crds", "ok">> /\ Definitions # {} => task.defined = "served"
    /\ task.result = <<"delete", "ok">> => \A i \in task.objects : task.docs[i].keep
    /\ task.result[1] = "delete" => KeptRemoved
    /\ \A op \in {"diff"} \cup Lookups : task.result = <<op, "ok">> => task.found = task.objects \cap Visible(op)
    /\ task.result = <<"snapshot", "ok">> =>
         task.found \subseteq task.objects /\ (task.found # task.objects => task.skipped)

KindsInv == /\ KindsShape /\ DefinedFirst /\ LooksOnly /\ ApplyGoesOn /\ CrdsGoOn /\ DeleteGoesOn
            /\ LooksGoOn /\ Promised

(* resolveNamespace: what the client can map and what exists is found.     *)
LEMMA FoundWhereItLives ==
  ASSUME KindsInv, NEW i \in task.objects, CanMap(KindOf(i))
  PROVE  There(i)
<1>1. KindOf(i) \in BuiltIn \cup Custom
  <2>1. task.docs[i] \in [kind : BuiltIn \cup Custom, keep : BOOLEAN]
    <3> DEFINE S == [kind : BuiltIn \cup Custom, keep : BOOLEAN]
    <3>1. task.docs \in Seq(S) /\ i \in DOMAIN task.docs
      BY DEF KindsInv, KindsShape
    <3> HIDE DEF S
    <3>2. task.docs[i] \in S
      BY <3>1
    <3> QED BY <3>2 DEF S
  <2> QED BY <2>1 DEF KindOf
<1>2. KindOf(i) \in Served
  BY <1>1 DEF KindsInv, DefinedFirst, Served
<1> DEFINE k == KindOf(i)
<1>3. k \in CacheFor(k)
  BY <1>2 DEF CacheFor
<1> HIDE DEF k
<1>4. ResolveScope(k, CacheFor(k)) = ScopeOf(k)
  BY <1>3 DEF ResolveScope
<1> QED BY <1>2, <1>4 DEF There, Addressed, k

(* What a lookup may see depends on the documents alone.                   *)
LEMMA SameVisible ==
  ASSUME task'.docs = task.docs
  PROVE  \A op : Visible(op)' = Visible(op)
BY DEF Visible, KindOf

(* EndsOp: an operation that fails, and one that has nothing left to do.   *)
LEMMA EndsWithPromise ==
  ASSUME KindsInv, task.op # "none", NEW c, NEW w \in Seq(DOMAIN task.docs), NEW how \in {"ok", "error"},
         task' = [task EXCEPT !.op = "none", !.result = <<task.op, how>>, !.cache = c, !.waiting = w],
         how = "ok" => task.todo = <<>> /\ task.waiting = <<>>
  PROVE  KindsInv'
<1>1. /\ Fields(task', KindsFields) /\ task'.kind = task.kind /\ task'.docs = task.docs
      /\ task'.objects = task.objects /\ task'.script = task.script /\ task'.op = "none"
      /\ task'.defined = task.defined /\ task'.todo = task.todo /\ task'.waiting = w
      /\ task'.before = task.before /\ task'.found = task.found /\ task'.skipped = task.skipped
      /\ task'.result = <<task.op, how>>
  BY DEF KindsInv, KindsShape, Fields, KindsFields
<1>2. KindsShape'
  BY <1>1 DEF KindsInv, KindsShape
<1>3. DefinedFirst' /\ (KeptRemoved' <=> KeptRemoved) /\ Definitions' = Definitions
  BY <1>1 DEF KindsInv, DefinedFirst, KeptRemoved, RemovedWith, KindOf, Definitions
<1>4. how = "ok" => Left = {}
  BY DEF Left, Range
<1>5. Promised'
  <2>1. CASE how = "error"
    BY <1>1, <1>3, <2>1 DEF Promised, KindsInv, DeleteGoesOn
  <2>2. CASE how = "ok"
    <3>1. task.op = "apply" => task'.objects = DOMAIN task'.docs
      BY <1>1, <1>4, <2>2 DEF KindsInv, KindsShape, ApplyGoesOn
    <3>2. task.op = "crds" /\ Definitions # {} => task'.defined = "served"
      BY <1>1, <2>2 DEF KindsInv, CrdsGoOn
    <3>3. task.op = "delete" => KeptRemoved /\ \A i \in task'.objects : task'.docs[i].keep
      BY <1>1, <1>4, <2>2 DEF KindsInv, DeleteGoesOn
    <3> HIDE <1>1
    <3>6. task.op \in {"diff", "snapshot"} \cup Lookups =>
             task.found \subseteq task.objects \cap Visible(task.op)
             /\ (task.found = task.objects \cap Visible(task.op) \/ (task.op = "snapshot" /\ task.skipped))
      <4>1. Left = {}
        BY <1>4, <2>2
      <4> QED BY <4>1 DEF KindsInv, LooksGoOn
    <3>7. \A op : Visible(op)' = Visible(op)
      BY <1>1, SameVisible
    <3>4. \A op \in {"diff"} \cup Lookups :
             task.op = op => task'.found = task'.objects \cap Visible(op)'
      BY <1>1, <3>6, <3>7 DEF Lookups
    <3>5. task.op = "snapshot" => task'.found \subseteq task'.objects
                                  /\ (task'.found # task'.objects => task'.skipped)
      <4>1. task.op = "snapshot" => Visible(task.op) = DOMAIN task.docs
        BY DEF Visible
      <4>2. task.objects \subseteq DOMAIN task.docs
        BY DEF KindsInv, KindsShape
      <4> QED BY <1>1, <3>6, <4>1, <4>2
    <3> QED BY <1>1, <1>3, <2>2, <3>1, <3>2, <3>3, <3>4, <3>5 DEF Promised
  <2> QED BY <2>1, <2>2
<1>6. LooksOnly' /\ ApplyGoesOn' /\ CrdsGoOn' /\ DeleteGoesOn' /\ LooksGoOn'
  BY <1>1 DEF LooksOnly, ApplyGoesOn, CrdsGoOn, DeleteGoesOn, LooksGoOn, Lookups
<1> QED BY <1>2, <1>3, <1>5, <1>6 DEF KindsInv

(* The first document is taken: what is left is the rest.                  *)
LEMMA TakesDoc ==
  ASSUME KindsInv, Working
  PROVE  /\ Tail(task.todo) \in Seq(DOMAIN task.docs) /\ Doc \in DOMAIN task.docs
         /\ Left = {Doc} \cup Range(Tail(task.todo))
BY FirstAndRest DEF KindsInv, KindsShape, Working, Doc, Left

(* A call that fails ends the operation with an error.                     *)
LEMMA FailsKinds ==
  ASSUME KindsInv, CallFails
  PROVE  KindsInv'
<1>1. CASE task.op # "snapshot"
  <2>1. task' = [task EXCEPT !.op = "none", !.result = <<task.op, "error">>, !.cache = task.cache,
                             !.waiting = task.waiting]
    BY <1>1 DEF CallFails, EndsOp, KindsInv, KindsShape, Fields, KindsFields
  <2>2. task.op # "none" /\ task.waiting \in Seq(DOMAIN task.docs)
    BY DEF CallFails, Working, KindsInv, KindsShape
  <2> QED BY <2>1, <2>2, EndsWithPromise
<1>2. CASE task.op = "snapshot"
  <2>1. task' = [OnTo(task) EXCEPT !.skipped = TRUE]
    BY <1>2 DEF CallFails
  <2>2. /\ Fields(task', KindsFields) /\ task'.kind = task.kind /\ task'.docs = task.docs
        /\ task'.objects = task.objects /\ task'.script = task.script /\ task'.op = task.op
        /\ task'.defined = task.defined /\ task'.todo = Tail(task.todo) /\ task'.waiting = task.waiting
        /\ task'.before = task.before /\ task'.found = task.found /\ task'.skipped = TRUE
    BY <2>1 DEF OnTo, KindsInv, KindsShape, Fields, KindsFields
  <2>3. Tail(task.todo) \in Seq(DOMAIN task.docs)
    BY TakesDoc DEF CallFails
  <2>4. KindsShape'
    BY <2>2, <2>3 DEF KindsInv, KindsShape
  <2>5. DefinedFirst'
    BY <2>2 DEF KindsInv, DefinedFirst, KindOf
  <2>6. LooksOnly' /\ ApplyGoesOn' /\ CrdsGoOn' /\ DeleteGoesOn' /\ LooksGoOn' /\ Promised'
    BY <1>2, <2>2, SameVisible
       DEF KindsInv, LooksOnly, ApplyGoesOn, CrdsGoOn, DeleteGoesOn, LooksGoOn, Promised
  <2> QED BY <2>4, <2>5, <2>6 DEF KindsInv
<1> QED BY <1>1, <1>2

(* applyResource, dryRunApplyResource of an object that is elsewhere.      *)
LEMMA RefusesKinds ==
  ASSUME KindsInv, Working,
         task' = EndsOp([task EXCEPT !.cache = CacheFor(KindOf(Doc))], "error")
  PROVE  KindsInv'
<1>1. task' = [task EXCEPT !.op = "none", !.result = <<task.op, "error">>, !.cache = CacheFor(KindOf(Doc)),
                           !.waiting = task.waiting]
  BY DEF EndsOp, KindsInv, KindsShape, Fields, KindsFields
<1>2. task.op # "none" /\ task.waiting \in Seq(DOMAIN task.docs)
  BY DEF Working, KindsInv, KindsShape
<1> QED BY <1>1, <1>2, EndsWithPromise

(* applyResource: the object is there afterwards.                          *)
LEMMA AppliesKinds ==
  ASSUME KindsInv, Apply1
  PROVE  KindsInv'
<1> DEFINE crd == KindOf(Doc) = "CustomResourceDefinition"
<1>1. CASE ~Addressed(Doc)
  BY <1>1, RefusesKinds DEF Apply1
<1>2. CASE Addressed(Doc)
  <2>0. Working /\ task.op \in {"apply", "crds"}
    BY DEF Apply1
  <2>1. task' = [OnTo([task EXCEPT !.cache = CacheFor(KindOf(Doc))]) EXCEPT
                   !.objects = @ \cup {Doc},
                   !.defined = IF crd /\ @ = "no" THEN "applied" ELSE @,
                   !.waiting = IF ~crd THEN @ ELSE IF task.op = "apply" THEN <<Doc>> ELSE Append(@, Doc)]
    BY <1>2 DEF Apply1
  <2> HIDE DEF crd
  <2>2. /\ Fields(task', KindsFields) /\ task'.kind = task.kind /\ task'.docs = task.docs
        /\ task'.objects = task.objects \cup {Doc} /\ task'.script = task.script /\ task'.op = task.op
        /\ task'.defined = (IF crd /\ task.defined = "no" THEN "applied" ELSE task.defined)
        /\ task'.todo = Tail(task.todo)
        /\ task'.waiting = (IF ~crd THEN task.waiting
                            ELSE IF task.op = "apply" THEN <<Doc>> ELSE Append(task.waiting, Doc))
        /\ task'.before = task.before /\ task'.found = task.found /\ task'.skipped = task.skipped
    BY <2>1 DEF OnTo, KindsInv, KindsShape, Fields, KindsFields
  <2> HIDE <2>1
  <2>3. /\ Tail(task.todo) \in Seq(DOMAIN task.docs) /\ Doc \in DOMAIN task.docs
        /\ Left = {Doc} \cup Range(Tail(task.todo))
    BY <2>0, TakesDoc
  <2>4. task'.waiting \in Seq(DOMAIN task.docs) /\ (crd => task'.waiting # <<>>)
    <3> DEFINE D == DOMAIN task.docs
    <3>1. task.waiting \in Seq(D) /\ Doc \in D
      BY <2>3 DEF KindsInv, KindsShape
    <3> HIDE DEF D
    <3>2. <<Doc>> \in Seq(D) /\ <<Doc>> # <<>>
      BY <3>1
    <3>3. Append(task.waiting, Doc) \in Seq(D) /\ Append(task.waiting, Doc) # <<>>
      BY <3>1
    <3> QED BY <2>2, <3>1, <3>2, <3>3 DEF D
  <2>5. KindsShape'
    BY <2>2, <2>3, <2>4 DEF KindsInv, KindsShape
  <2>6. DefinedFirst'
    <3>1. KindOf(Doc) \in Custom => task.defined = "served"
      BY <1>2 DEF Addressed, Served, Custom, BuiltIn
    <3>2. task'.defined = "served" <=> task.defined = "served"
      BY <2>2
    <3> QED BY <2>2, <3>1, <3>2 DEF KindsInv, DefinedFirst, KindOf
  <2>7. ApplyGoesOn'
    BY <2>2, <2>3 DEF KindsInv, ApplyGoesOn, Left
  <2>8. CrdsGoOn'
    <3> SUFFICES ASSUME task.op = "crds"
                 PROVE  Range(Tail(task.todo)) \subseteq Definitions /\ task'.waiting # <<>>
      BY <2>2 DEF CrdsGoOn, Definitions, KindOf, Left
    <3>1. Left \subseteq Definitions
      BY DEF KindsInv, CrdsGoOn
    <3>2. crd
      BY <2>3, <3>1 DEF Definitions, crd
    <3> QED BY <2>3, <2>4, <3>1, <3>2
  <2>9. LooksOnly' /\ DeleteGoesOn' /\ LooksGoOn' /\ Promised'
    BY <2>0, <2>2 DEF LooksOnly, DeleteGoesOn, LooksGoOn, Promised, Lookups
  <2> QED BY <2>5, <2>6, <2>7, <2>8, <2>9 DEF KindsInv
<1> QED BY <1>1, <1>2

(* waitForCRDEstablished, the server, and the end of an operation.         *)
LEMMA WaitsKinds ==
  ASSUME KindsInv, Established \/ Serve
  PROVE  KindsInv'
<1>1. /\ Fields(task', KindsFields) /\ task'.kind = task.kind /\ task'.docs = task.docs
      /\ task'.objects = task.objects /\ task'.script = task.script /\ task'.op = task.op
      /\ task'.defined = "served" /\ task'.todo = task.todo
      /\ task'.waiting = task.waiting \/ (task.waiting # <<>> /\ task'.waiting = Tail(task.waiting))
      /\ task'.before = task.before /\ task'.found = task.found /\ task'.skipped = task.skipped
      /\ task'.result = task.result
  <2>1. CASE Serve
    BY <2>1 DEF Serve, KindsInv, KindsShape, Fields, KindsFields
  <2>2. CASE Established
    <3>1. PICK c : task' = [task EXCEPT !.waiting = Tail(@), !.cache = c]
      <4>1. task' = [task EXCEPT !.waiting = Tail(@)] => task' = [task EXCEPT !.waiting = Tail(@), !.cache = task.cache]
        BY DEF KindsInv, KindsShape, Fields, KindsFields
      <4> QED BY <2>2, <4>1 DEF Established
    <3> QED BY <2>2, <3>1 DEF Established, Waits, KindsInv, KindsShape, Fields, KindsFields
  <2> QED BY <2>1, <2>2
<1>2. task'.waiting \in Seq(DOMAIN task.docs)
  <2>1. task.waiting # <<>> => Tail(task.waiting) \in Seq(DOMAIN task.docs)
    BY FirstAndRest DEF KindsInv, KindsShape
  <2> QED BY <1>1, <2>1 DEF KindsInv, KindsShape
<1>3. KindsShape'
  BY <1>1, <1>2 DEF KindsInv, KindsShape
<1>4. (KeptRemoved' <=> KeptRemoved) /\ Definitions' = Definitions /\ Left' = Left
  BY <1>1 DEF KeptRemoved, RemovedWith, KindOf, Definitions, Left
<1>5. DefinedFirst' /\ LooksOnly' /\ ApplyGoesOn' /\ CrdsGoOn'
  BY <1>1, <1>4 DEF KindsInv, DefinedFirst, LooksOnly, ApplyGoesOn, CrdsGoOn
<1>6. DeleteGoesOn' /\ LooksGoOn' /\ Promised'
  BY <1>1, <1>4, SameVisible DEF KindsInv, DeleteGoesOn, LooksGoOn, Promised
<1> QED BY <1>3, <1>5, <1>6 DEF KindsInv

(* The operation ends, or the CRDs are waited for.                         *)
LEMMA EndsKinds ==
  ASSUME KindsInv, NotEstablished \/ OpDone \/ ScriptDone
  PROVE  KindsInv'
<1>0. <<>> \in Seq(DOMAIN task.docs) /\ task.waiting \in Seq(DOMAIN task.docs)
  BY DEF KindsInv, KindsShape
<1>1. CASE NotEstablished
  <2>1. task' = [task EXCEPT !.op = "none", !.result = <<task.op, "error">>, !.cache = task.cache,
                             !.waiting = <<>>]
    BY <1>1 DEF NotEstablished, EndsOp, KindsInv, KindsShape, Fields, KindsFields
  <2>2. task.op # "none"
    BY <1>1 DEF NotEstablished, Waits
  <2> QED BY <1>0, <2>1, <2>2, EndsWithPromise
<1>2. CASE OpDone
  <2>1. task' = [task EXCEPT !.op = "none", !.result = <<task.op, "ok">>, !.cache = task.cache,
                             !.waiting = task.waiting]
    BY <1>2 DEF OpDone, EndsOp, KindsInv, KindsShape, Fields, KindsFields
  <2>2. task.op # "none" /\ task.todo = <<>> /\ task.waiting = <<>>
    BY <1>2 DEF OpDone
  <2> QED BY <1>0, <2>1, <2>2, EndsWithPromise
<1>3. CASE ScriptDone
  <2>1. /\ Fields(task', KindsFields) /\ task'.kind = task.kind /\ task'.docs = task.docs
        /\ task'.objects = task.objects /\ task'.script = task.script /\ task'.op = task.op
        /\ task'.defined = task.defined /\ task'.todo = task.todo /\ task'.waiting = task.waiting
        /\ task'.before = task.before /\ task'.found = task.found /\ task'.skipped = task.skipped
        /\ task'.result = task.result
    BY <1>3 DEF ScriptDone, KindsInv, KindsShape, Fields, KindsFields
  <2>2. (KeptRemoved' <=> KeptRemoved) /\ Definitions' = Definitions /\ Left' = Left
    BY <2>1 DEF KeptRemoved, RemovedWith, KindOf, Definitions, Left
  <2>3. KindsShape' /\ DefinedFirst' /\ LooksOnly' /\ ApplyGoesOn' /\ CrdsGoOn'
    BY <2>1, <2>2 DEF KindsInv, KindsShape, DefinedFirst, LooksOnly, ApplyGoesOn, CrdsGoOn, KindOf
  <2>4. DeleteGoesOn' /\ LooksGoOn' /\ Promised'
    BY <2>1, <2>2, SameVisible DEF KindsInv, DeleteGoesOn, LooksGoOn, Promised
  <2> QED BY <2>3, <2>4 DEF KindsInv
<1> QED BY <1>1, <1>2, <1>3

(* SortByInstallOrder, SortByUninstallOrder: an operation goes through     *)
(* every document it is about.                                             *)
LEMMA StartsKinds ==
  ASSUME KindsInv, StartOp
  PROVE  KindsInv'
<1> DEFINE op == Head(task.script)
<1>1. op \in KindOps /\ Tail(task.script) \in Seq(KindOps)
  BY FirstAndRest DEF StartOp, KindsInv, KindsShape
<1> HIDE DEF op
<1>2. PICK todo \in ByRank(Documents(op), OrderOf(op)) :
        task' = [task EXCEPT !.op = op, !.script = Tail(@), !.todo = todo, !.waiting = <<>>,
                             !.before = task.objects, !.found = {}, !.skipped = FALSE]
  BY DEF StartOp, op
<1>3. IsFiniteSet(Documents(op)) /\ Documents(op) \subseteq DOMAIN task.docs
  <2>1. Documents(op) \subseteq DOMAIN task.docs
    <3>1. CASE op = "crds"
      BY <3>1 DEF Documents, Definitions
    <3>2. CASE op = "delete"
      BY <3>2 DEF Documents
    <3>3. CASE op \notin {"crds", "delete"}
      BY <3>3 DEF Documents
    <3> QED BY <3>1, <3>2, <3>3
  <2>2. IsFiniteSet(DOMAIN task.docs)
    <3>1. Len(task.docs) \in Nat /\ DOMAIN task.docs = 1 .. Len(task.docs)
      BY DEF KindsInv, KindsShape
    <3> QED BY <3>1, FS_Interval
  <2> QED BY <2>1, <2>2, FS_Subset
<1>4. todo \in Seq(Documents(op)) /\ Range(todo) = Documents(op)
  BY <1>3, OrderedSet DEF ByRank
<1>5. todo \in Seq(DOMAIN task.docs) /\ (Documents(op) # {} => todo # <<>>)
  BY <1>3, <1>4 DEF Range
<1>6. /\ Fields(task', KindsFields) /\ task'.kind = task.kind /\ task'.docs = task.docs
      /\ task'.objects = task.objects /\ task'.script = Tail(task.script) /\ task'.op = op
      /\ task'.defined = task.defined /\ task'.todo = todo /\ task'.waiting = <<>>
      /\ task'.before = task.objects /\ task'.found = {} /\ task'.skipped = FALSE
  BY <1>2 DEF KindsInv, KindsShape, Fields, KindsFields
<1>7. KindsShape'
  BY <1>1, <1>5, <1>6 DEF KindsInv, KindsShape
<1>8. Definitions' = Definitions /\ Left' = Documents(op)
  BY <1>4, <1>6 DEF Definitions, KindOf, Left
<1>9. DefinedFirst' /\ LooksOnly' /\ Promised'
  BY <1>1, <1>6 DEF KindsInv, DefinedFirst, KindOf, LooksOnly, Promised, KindOps, Lookups
<1>10. ApplyGoesOn' /\ LooksGoOn'
  <2>1. op \in {"apply", "diff", "snapshot"} \cup Lookups => Documents(op) = DOMAIN task.docs
    BY DEF Documents, Lookups
  <2> QED BY <1>6, <1>8, <2>1 DEF ApplyGoesOn, LooksGoOn, KindsInv, KindsShape
<1>11. CrdsGoOn'
  <2>1. op = "crds" => Documents(op) = Definitions
    BY DEF Documents
  <2> QED BY <1>5, <1>6, <1>8, <2>1 DEF CrdsGoOn
<1>12. DeleteGoesOn'
  <2>1. op = "delete" => Documents(op) = {i \in DOMAIN task.docs : ~task.docs[i].keep}
    BY DEF Documents
  <2>2. KeptRemoved'
    BY <1>6 DEF KeptRemoved
  <2> QED BY <1>6, <1>8, <2>1, <2>2 DEF DeleteGoesOn, KindsInv, KindsShape
<1> QED BY <1>7, <1>9, <1>10, <1>11, <1>12 DEF KindsInv

(* dryRunApplyResource, serverSideDiffResource, SnapshotResources, Lookup: *)
(* what exists is found, and nothing changes.                              *)
LEMMA LooksKinds ==
  ASSUME KindsInv, DryRun1 \/ Read1
  PROVE  KindsInv'
<1>1. CASE DryRun1 /\ ~Addressed(Doc)
  BY <1>1, RefusesKinds DEF DryRun1
<1>2. CASE ~(DryRun1 /\ ~Addressed(Doc))
  <2>0. Working /\ CanMap(KindOf(Doc)) /\ task.op \in {"dry", "diff", "snapshot"} \cup Lookups
    BY DEF DryRun1, Read1
  <2>1. /\ Tail(task.todo) \in Seq(DOMAIN task.docs) /\ Doc \in DOMAIN task.docs
        /\ Left = {Doc} \cup Range(Tail(task.todo))
    BY <2>0, TakesDoc
  <2>2. Doc \in task.objects => There(Doc)
    BY <2>0, FoundWhereItLives
  <2>3. /\ Fields(task', KindsFields) /\ task'.kind = task.kind /\ task'.docs = task.docs
        /\ task'.objects = task.objects /\ task'.script = task.script /\ task'.op = task.op
        /\ task'.defined = task.defined /\ task'.todo = Tail(task.todo) /\ task'.waiting = task.waiting
        /\ task'.before = task.before /\ task'.skipped = task.skipped
        /\ task'.found = IF Doc \in task.objects \cap Visible(task.op) THEN task.found \cup {Doc} ELSE task.found
    <3>1. CASE DryRun1
      <4>1. Doc \in Visible(task.op)
        BY <2>1, <3>1 DEF Visible, DryRun1
      <4>2. task' = [OnTo([task EXCEPT !.cache = CacheFor(KindOf(Doc))]) EXCEPT
                       !.found = IF Doc \in task.objects \cap Visible(task.op) THEN @ \cup {Doc} ELSE @]
        BY <1>2, <3>1, <4>1 DEF DryRun1
      <4> QED BY <4>2 DEF OnTo, KindsInv, KindsShape, Fields, KindsFields
    <3>2. CASE Read1
      <4>1. There(Doc) <=> Doc \in task.objects
        BY <2>2 DEF There
      <4>3. (IF task.op = "snapshot" THEN There(Doc) ELSE LookedUp(Doc)) <=> Doc \in task.objects \cap Visible(task.op)
        <5>1. CASE task.op = "snapshot"
          BY <2>1, <4>1, <5>1 DEF Visible
        <5>2. CASE task.op # "snapshot"
          BY <2>2, <4>1, <5>2 DEF LookedUp, There, Addressed
        <5> QED BY <5>1, <5>2
      <4>2. task' = [OnTo(task) EXCEPT !.cache = CacheFor(KindOf(Doc)),
                                       !.found = IF Doc \in task.objects \cap Visible(task.op) THEN @ \cup {Doc} ELSE @]
        BY <3>2, <4>3 DEF Read1
      <4> QED BY <4>2 DEF OnTo, KindsInv, KindsShape, Fields, KindsFields
    <3> QED BY <3>1, <3>2
  <2>4. KindsShape'
    BY <2>1, <2>3 DEF KindsInv, KindsShape
  <2>5. DefinedFirst' /\ LooksOnly'
    BY <2>3 DEF KindsInv, DefinedFirst, KindOf, LooksOnly
  <2>6. LooksGoOn'
    <3>1. Visible(task.op)' = Visible(task.op)
      BY <2>3, SameVisible
    <3> QED BY <2>1, <2>3, <3>1 DEF KindsInv, LooksGoOn, Left
  <2>7. ApplyGoesOn' /\ CrdsGoOn' /\ DeleteGoesOn' /\ Promised'
    BY <2>0, <2>3 DEF ApplyGoesOn, CrdsGoOn, DeleteGoesOn, Promised, Lookups
  <2> QED BY <2>4, <2>5, <2>6, <2>7 DEF KindsInv
<1> QED BY <1>1, <1>2

(* deleteResource: what exists is found, and goes with what it defines.    *)
LEMMA DeletesKinds ==
  ASSUME KindsInv, Delete1
  PROVE  KindsInv'
<1> DEFINE goes == IF Doc \in task.objects THEN RemovedWith(Doc) ELSE {}
           crd == Doc \in task.objects /\ KindOf(Doc) = "CustomResourceDefinition"
<1>0. Working /\ CanMap(KindOf(Doc)) /\ task.op = "delete"
  BY DEF Delete1
<1>1. /\ Tail(task.todo) \in Seq(DOMAIN task.docs) /\ Doc \in DOMAIN task.docs
      /\ Left = {Doc} \cup Range(Tail(task.todo))
  BY <1>0, TakesDoc
<1>2. There(Doc) <=> Doc \in task.objects
  BY <1>0, FoundWhereItLives DEF There
<1>3. task' = [OnTo(task) EXCEPT !.cache = CacheFor(KindOf(Doc)), !.objects = @ \ goes,
                                 !.defined = IF crd THEN "no" ELSE @]
  <2>1. task.objects \ {} = task.objects
    OBVIOUS
  <2>2. (IF There(Doc) THEN task.objects \ RemovedWith(Doc) ELSE task.objects) = task.objects \ goes
    BY <1>2
  <2>3. OnTo(task).objects = task.objects
    BY DEF OnTo, KindsInv, KindsShape, Fields, KindsFields
  <2> HIDE DEF goes
  <2> QED BY <1>2, <2>2, <2>3 DEF Delete1
<1> HIDE DEF goes, crd
<1>4. /\ Fields(task', KindsFields) /\ task'.kind = task.kind /\ task'.docs = task.docs
      /\ task'.objects = task.objects \ goes /\ task'.script = task.script /\ task'.op = "delete"
      /\ task'.defined = (IF crd THEN "no" ELSE task.defined)
      /\ task'.todo = Tail(task.todo) /\ task'.waiting = task.waiting
      /\ task'.before = task.before /\ task'.found = task.found /\ task'.skipped = task.skipped
  BY <1>0, <1>3 DEF OnTo, KindsInv, KindsShape, Fields, KindsFields
<1> HIDE <1>3
<1>5. KindsShape'
  <2>1. task.objects \ goes \subseteq DOMAIN task.docs
    BY DEF KindsInv, KindsShape
  <2>2. task'.op \in KindOps \cup {"none"}
    BY <1>4 DEF KindOps
  <2> QED BY <1>1, <1>4, <2>1, <2>2 DEF KindsInv, KindsShape
<1>6. DefinedFirst'
  <2>1. \A i \in task.objects : crd /\ KindOf(i) \in Custom => i \in goes
    BY DEF goes, crd, RemovedWith, KindsInv, KindsShape
  <2> QED BY <1>4, <2>1 DEF KindsInv, DefinedFirst, KindOf
<1>7. DeleteGoesOn'
  <2>1. /\ task.objects \subseteq task.before /\ \A i \in Left : ~task.docs[i].keep
        /\ \A i \in task.objects : task.docs[i].keep \/ i \in Left
        /\ KeptRemoved
    BY <1>0 DEF KindsInv, DeleteGoesOn
  <2>2. Doc \in task.objects => Doc \in goes
    BY DEF goes, RemovedWith
  <2>3. \A i : i \in goes => Doc \in task.objects /\ i \in RemovedWith(Doc)
    BY DEF goes
  <2>4. ~task.docs[Doc].keep
    BY <1>1, <2>1
  <2>5. \A i, j : i \in RemovedWith(j)' <=> i \in RemovedWith(j)
    BY <1>4 DEF RemovedWith, KindOf
  <2>6. KeptRemoved'
    <3> SUFFICES ASSUME NEW i \in task.before \ task'.objects, task.docs[i].keep
                 PROVE  \E j \in task.before \ task'.objects : i \in RemovedWith(j) /\ ~task.docs[j].keep
      BY <1>4, <2>5 DEF KeptRemoved
    <3>1. CASE i \in task.objects
      <4>1. i \in RemovedWith(Doc) /\ Doc \in task.objects /\ Doc \notin task'.objects
        BY <1>4, <2>2, <2>3, <3>1
      <4> QED BY <2>1, <2>4, <4>1
    <3>2. CASE i \notin task.objects
      <4>1. PICK j \in task.before \ task.objects : i \in RemovedWith(j) /\ ~task.docs[j].keep
        BY <2>1, <3>2 DEF KeptRemoved
      <4> QED BY <1>4, <4>1
    <3> QED BY <3>1, <3>2
  <2> QED BY <1>1, <1>4, <2>1, <2>2, <2>6 DEF DeleteGoesOn, Left
<1>8. LooksOnly' /\ ApplyGoesOn' /\ CrdsGoOn' /\ LooksGoOn' /\ Promised'
  BY <1>4 DEF LooksOnly, ApplyGoesOn, CrdsGoOn, LooksGoOn, Promised, Lookups
<1> QED BY <1>5, <1>6, <1>7, <1>8 DEF KindsInv

(* Every step keeps the invariant.                                         *)
LEMMA StepKinds ==
  ASSUME KindsInv, KindsStep
  PROVE  KindsInv'
BY StartsKinds, EndsKinds, WaitsKinds, FailsKinds, AppliesKinds, LooksKinds, DeletesKinds DEF KindsStep

(* A custom object is there only if its definition is.                     *)
LEMMA BeginKinds ==
  ASSUME NEW docs, NEW present, NEW script, KindInputs(docs, present, script),
         task = KindsTask(docs, present, script)
  PROVE  KindsInv
<1>1. Fields(task, KindsFields)
  BY DEF KindsTask, Fields, KindsFields
<1>2. /\ task.kind = "kinds" /\ task.docs = docs /\ task.objects = present /\ task.script = script
      /\ task.op = "none" /\ task.todo = <<>> /\ task.waiting = <<>> /\ task.result = <<"none", "ok">>
      /\ task.defined = IF \E i \in present : docs[i].kind = "CustomResourceDefinition" THEN "served" ELSE "no"
  BY DEF KindsTask
<1>3. KindsShape
  BY <1>1, <1>2 DEF KindsShape, KindInputs
<1>4. DefinedFirst
  BY <1>2 DEF DefinedFirst, KindInputs, KindOf
<1> QED BY <1>2, <1>3, <1>4
           DEF KindsInv, LooksOnly, ApplyGoesOn, CrdsGoOn, DeleteGoesOn, LooksGoOn, Promised, Lookups

(* What is to be shown of a task that begins and goes on.                  *)
LEMMA KindsAlways == KindsSpec => []KindsInv
<1>1. (\E docs, present, script :
         KindInputs(docs, present, script) /\ task = KindsTask(docs, present, script)) => KindsInv
  BY BeginKinds
<1>2. KindsInv /\ [KindsStep]_taskVars => KindsInv'
  <2>1. CASE UNCHANGED taskVars
    BY <2>1, SameVisible
       DEF taskVars, KindsInv, KindsShape, DefinedFirst, LooksOnly, ApplyGoesOn, CrdsGoOn, DeleteGoesOn,
                LooksGoOn, Promised, KeptRemoved, RemovedWith, Definitions, Left, KindOf
  <2> QED BY <2>1, StepKinds
<1> QED BY <1>1, <1>2, PTL DEF KindsSpec

(* The invariant is enough.                                                *)
LEMMA KindsPromise == KindsInv => ObjectsWhereTheyLive
BY DEF KindsInv, ObjectsWhereTheyLive, DefinedFirst, LooksOnly, Promised, KeptRemoved

(* ApplyManifests and the operations beside it: see ObjectsWhereTheyLive.  *)
THEOREM ObjectsFound == KindsSpec => []ObjectsWhereTheyLive
BY KindsAlways, KindsPromise, PTL

-----------------------------------------------------------------------------
(* ReleaseTests.                                                           *)

TestFields == {"kind", "pc", "status", "tests", "objects", "parallel", "retries", "at", "attempt",
               "res", "bad", "good", "undeleted"}
Tests(t) == DOMAIN t.tests
Pieces(t, i) == {t.tests[i][k].id : k \in DOMAIN t.tests[i]}

TestsShape(t) ==
    /\ Fields(t, TestFields) /\ t.kind = "tests" /\ t.tests \in Seq(Seq(TestPiece))
    /\ t.at \in [Tests(t) -> {"queued", "passed", "failed"} \cup Busy]
    /\ t.attempt \in [Tests(t) -> Nat] /\ t.res \in [Tests(t) -> Nat] /\ t.bad \in [Tests(t) -> BOOLEAN]
    /\ t.good = [i \in Tests(t) |-> t.good[i]]
    /\ t.objects \in [DOMAIN t.objects -> TestObject]
    /\ \A i \in Tests(t) : Pieces(t, i) \subseteq DOMAIN t.objects
    /\ t.retries \in Int /\ t.parallel \in Int

(* What this attempt has seen end well, up to the resource it waits for.   *)
HasSeen(t, i) ==
    /\ t.at[i] = "watch" /\ ~t.bad[i] =>
          \A k \in DOMAIN t.tests[i] : k < t.res[i] => t.tests[i][k].id \in t.good[i]
    /\ (t.at[i] = "clean" /\ ~t.bad[i]) \/ t.at[i] = "passed" => Pieces(t, i) \subseteq t.good[i]

(* A resource is on its way out, unless its deletion failed or a test asks *)
(* to keep it; as long as a test that has it is applied it may be there.   *)
AskedToKeep(t, o) == \E i \in Tests(t) : \E k \in DOMAIN t.tests[i] : t.tests[i][k].id = o /\ t.tests[i][k].keep
Leaving(t, o) == \/ t.objects[o].st = "absent" \/ t.objects[o].ending
                 \/ o \in t.undeleted \/ AskedToKeep(t, o)
PutThere == {"watch", "retry", "clean"}
InUse(t, o) == \E j \in Tests(t) : t.at[j] \in PutThere /\ o \in Pieces(t, j)
Over == {"passed", "failed"}
CleansUp(t) == \A i \in Tests(t) : t.at[i] \in Over => \A o \in Pieces(t, i) : Leaving(t, o) \/ InUse(t, o)

BusyTests(t) == {i \in Tests(t) : t.at[i] \in Busy}
Room(t) == IF t.parallel < 1 THEN 1 ELSE t.parallel

TestsInv(t) ==
    /\ TestsShape(t)
    /\ \A i \in Tests(t) : HasSeen(t, i)
    /\ CleansUp(t)
    /\ Cardinality(BusyTests(t)) <= Room(t)
    /\ t.pc = "ok" => \A i \in Tests(t) : t.at[i] = "passed"

(* What a worker leaves alone: the other tests, and the command.           *)
Turn(t, u, i) ==
    /\ Fields(u, TestFields) /\ u.kind = t.kind /\ u.pc = t.pc /\ u.tests = t.tests
    /\ u.parallel = t.parallel /\ u.retries = t.retries
    /\ u.at \in [Tests(t) -> {"queued", "passed", "failed"} \cup Busy]
    /\ u.attempt \in [Tests(t) -> Nat] /\ u.res \in [Tests(t) -> Nat] /\ u.bad \in [Tests(t) -> BOOLEAN]
    /\ u.good = [j \in Tests(t) |-> u.good[j]]
    /\ \A j \in Tests(t) \ {i} : /\ u.at[j] = t.at[j] /\ u.bad[j] = t.bad[j]
                               /\ u.res[j] = t.res[j] /\ u.good[j] = t.good[j]

(* What is on its way out and is left alone stays so.                      *)
LEMMA StaysLeaving ==
  ASSUME NEW t, NEW u, u.tests = t.tests, t.undeleted \subseteq u.undeleted
  PROVE  /\ \A o : AskedToKeep(u, o) <=> AskedToKeep(t, o)
         /\ \A o : u.objects[o] = t.objects[o] /\ Leaving(t, o) => Leaving(u, o)
<1>1. \A o : AskedToKeep(u, o) <=> AskedToKeep(t, o)
  BY DEF AskedToKeep, Tests
<1> QED BY <1>1 DEF Leaving

(* A step of the worker of one test: the other tests are as they were,     *)
(* what was gone is gone or in the use of this one, and what it no longer  *)
(* uses is gone.                                                           *)
LEMMA WorkerTests ==
  ASSUME NEW t, NEW u, TestsInv(t), t.pc = "tests", NEW i \in Tests(t), Turn(t, u, i),
         u.objects \in [DOMAIN t.objects -> TestObject], HasSeen(u, i),
         \/ t.at[i] \in Busy \/ u.at[i] \notin Busy
         \/ Cardinality(BusyTests(t)) < Room(t),
         \A o \in DOMAIN t.objects : Leaving(t, o) => Leaving(u, o) \/ (o \in Pieces(t, i) /\ u.at[i] \in PutThere),
         t.at[i] \in PutThere /\ u.at[i] \notin PutThere => \A o \in Pieces(t, i) : Leaving(u, o),
         u.at[i] \in Over => t.at[i] \in PutThere
  PROVE  TestsInv(u)
<1>0. TestsShape(u)
  <2>1. Tests(u) = Tests(t) /\ \A j \in Tests(t) : Pieces(u, j) = Pieces(t, j)
    BY DEF Turn, Tests, Pieces
  <2>2. DOMAIN u.objects = DOMAIN t.objects /\ u.objects \in [DOMAIN u.objects -> TestObject]
    OBVIOUS
  <2>3. TestsShape(t)
    BY DEF TestsInv
  <2> QED BY <2>1, <2>2, <2>3 DEF Turn, TestsShape
<1>1. \A j \in Tests(u) : HasSeen(u, j)
  <2>1. u.tests = t.tests /\ Tests(u) = Tests(t) /\ \A j \in Tests(t) : Pieces(u, j) = Pieces(t, j)
    BY DEF Turn, Tests, Pieces
  <2>2. ASSUME NEW j \in Tests(t) \ {i} PROVE HasSeen(u, j)
    <3>1. HasSeen(t, j) /\ u.at[j] = t.at[j] /\ u.bad[j] = t.bad[j] /\ u.res[j] = t.res[j] /\ u.good[j] = t.good[j]
      BY DEF Turn, TestsInv
    <3> QED BY <2>1, <3>1 DEF HasSeen
  <2> QED BY <2>1, <2>2
<1>2. CleansUp(u)
  <2>1. /\ Tests(u) = Tests(t)
        /\ \A j \in Tests(t) : Pieces(u, j) = Pieces(t, j) /\ Pieces(t, j) \subseteq DOMAIN t.objects
    <3>1. Tests(u) = Tests(t) /\ \A j \in Tests(t) : Pieces(u, j) = Pieces(t, j)
      BY DEF Turn, Tests, Pieces
    <3>2. \A j \in Tests(t) : Pieces(t, j) \subseteq DOMAIN t.objects
      BY DEF TestsInv, TestsShape
    <3> QED BY <3>1, <3>2
  <2> SUFFICES ASSUME NEW j \in Tests(t), u.at[j] \in Over, NEW o \in Pieces(t, j)
               PROVE  Leaving(u, o) \/ InUse(u, o)
    BY <2>1 DEF CleansUp
  <2>2. CASE j = i
    <3>1. u.at[i] \notin PutThere
      BY <2>2 DEF Over, PutThere
    <3> QED BY <2>2, <3>1
  <2>3. CASE j # i /\ Leaving(t, o)
    BY <2>1, <2>3 DEF InUse
  <2>4. CASE j # i /\ InUse(t, o)
    <3>1. PICK m \in Tests(t) : t.at[m] \in PutThere /\ o \in Pieces(t, m)
      BY <2>4 DEF InUse
    <3>2. CASE u.at[m] \in PutThere
      BY <2>1, <3>1, <3>2 DEF InUse
    <3>3. CASE u.at[m] \notin PutThere
      BY <3>1, <3>3 DEF Turn
    <3> QED BY <3>2, <3>3
  <2> QED BY <2>2, <2>3, <2>4 DEF Turn, TestsInv, CleansUp
<1>3. Cardinality(BusyTests(u)) <= Room(u)
  <2>1. IsFiniteSet(Tests(t))
    BY FS_Interval DEF Tests, TestsInv, TestsShape
  <2>2. IsFiniteSet(BusyTests(t)) /\ Cardinality(BusyTests(t)) \in Nat
    BY <2>1, FS_Subset, FS_CardinalityType DEF BusyTests
  <2>3. Room(u) = Room(t) /\ Room(t) \in Int /\ Cardinality(BusyTests(t)) <= Room(t)
    BY DEF Turn, Room, TestsInv, TestsShape
  <2>4. CASE t.at[i] \in Busy \/ u.at[i] \notin Busy
    <3>1. BusyTests(u) \subseteq BusyTests(t)
      BY <2>4 DEF Turn, BusyTests, Tests
    <3>2. Cardinality(BusyTests(u)) <= Cardinality(BusyTests(t)) /\ Cardinality(BusyTests(u)) \in Nat
      BY <2>2, <3>1, FS_Subset, FS_CardinalityType
    <3> QED BY <2>2, <2>3, <3>2
  <2>5. CASE Cardinality(BusyTests(t)) < Room(t)
    <3>1. BusyTests(u) \subseteq BusyTests(t) \cup {i}
      BY DEF Turn, BusyTests, Tests
    <3>2. /\ IsFiniteSet(BusyTests(t) \cup {i})
          /\ Cardinality(BusyTests(t) \cup {i}) <= Cardinality(BusyTests(t)) + 1
          /\ Cardinality(BusyTests(t) \cup {i}) \in Nat
      <4> DEFINE B == BusyTests(t)
      <4>1. IsFiniteSet(B) /\ Cardinality(B) \in Nat
        BY <2>2
      <4> HIDE DEF B
      <4>2. /\ IsFiniteSet(B \cup {i})
            /\ Cardinality(B \cup {i}) = IF i \in B THEN Cardinality(B) ELSE Cardinality(B) + 1
        BY <4>1, FS_AddElement
      <4> QED BY <4>1, <4>2 DEF B
    <3>3. Cardinality(BusyTests(u)) <= Cardinality(BusyTests(t) \cup {i}) /\ Cardinality(BusyTests(u)) \in Nat
      BY <3>1, <3>2, FS_Subset, FS_CardinalityType
    <3> QED BY <2>2, <2>3, <2>5, <3>2, <3>3
  <2> QED BY <2>4, <2>5
<1> QED BY <1>0, <1>1, <1>2, <1>3 DEF Turn, TestsInv

(* What the applies and the deletions make of the cluster.                 *)
LEMMA AppliedObjects ==
  ASSUME TestsInv(task), NEW i \in Tests(task), NEW n \in 0 .. Len(task.tests[i])
  PROVE  /\ AppliedTo(i, n) \in [DOMAIN task.objects -> TestObject]
         /\ \A o \in DOMAIN task.objects :
              o \notin Pieces(task, i) => AppliedTo(i, n)[o] = task.objects[o]
<1>1. \A o \in DOMAIN task.objects : task.objects[o] \in TestObject
  BY DEF TestsInv, TestsShape
<1>2. [st |-> "running", ending |-> FALSE] \in TestObject
  BY DEF TestObject
<1>3. task.tests[i] \in Seq(TestPiece)
  BY DEF TestsInv, TestsShape, Tests
<1>4. \A k \in 1 .. n : task.tests[i][k].id \in Pieces(task, i)
  BY <1>3 DEF Pieces
<1> QED BY <1>1, <1>2, <1>4 DEF AppliedTo

(* DeleteManifests: those before the n-th are deleted.                     *)
LEMMA DeletedObjects ==
  ASSUME TestsInv(task), NEW i \in Tests(task), NEW n \in Nat
  PROVE  /\ Deletes(i, n) \in [DOMAIN task.objects -> TestObject]
         /\ \A o \in DOMAIN task.objects :
              \/ Deletes(i, n)[o] = task.objects[o]
              \/ Deletes(i, n)[o] = [st |-> task.objects[o].st, ending |-> TRUE]
         /\ \A k \in n + 1 .. Len(task.tests[i]) :
              LET o == task.tests[i][k].id
              IN  \/ task.objects[o].st = "absent" \/ task.tests[i][k].keep
                  \/ Deletes(i, n)[o] = [st |-> task.objects[o].st, ending |-> TRUE]
<1>1. \A o \in DOMAIN task.objects : task.objects[o] \in TestObject
  BY DEF TestsInv, TestsShape
<1>2. \A o \in DOMAIN task.objects : [st |-> task.objects[o].st, ending |-> TRUE] \in TestObject
  BY <1>1 DEF TestObject
<1>3. task.tests[i] \in Seq(TestPiece)
  BY DEF TestsInv, TestsShape, Tests
<1>4. \A k \in n + 1 .. Len(task.tests[i]) : task.tests[i][k].id \in DOMAIN task.objects
  <2> SUFFICES ASSUME NEW k \in n + 1 .. Len(task.tests[i]) PROVE task.tests[i][k].id \in Pieces(task, i)
    BY DEF TestsInv, TestsShape
  <2> QED BY <1>3 DEF Pieces
<1>5. \A o \in DOMAIN task.objects :
        \/ Deletes(i, n)[o] = task.objects[o]
        \/ Deletes(i, n)[o] = [st |-> task.objects[o].st, ending |-> TRUE]
  BY DEF Deletes
<1>6. DOMAIN Deletes(i, n) = DOMAIN task.objects /\ Deletes(i, n) = [o \in DOMAIN task.objects |-> Deletes(i, n)[o]]
  BY DEF Deletes
<1>7. Deletes(i, n) \in [DOMAIN task.objects -> TestObject]
  BY <1>1, <1>2, <1>5, <1>6
<1>8. \A k \in n + 1 .. Len(task.tests[i]) :
        LET o == task.tests[i][k].id
        IN  \/ task.objects[o].st = "absent" \/ task.tests[i][k].keep
            \/ Deletes(i, n)[o] = [st |-> task.objects[o].st, ending |-> TRUE]
  BY <1>4 DEF Deletes, Unkept
<1> QED BY <1>5, <1>7, <1>8

(* One lemma for each step of a worker.                                    *)
LEMMA TakesTest ==
  ASSUME TestsInv(task), NEW i \in Tests(task), task.pc = "tests", TakeTest(i)
  PROVE  TestsInv(task')
<1>1. task' = [task EXCEPT !.at = [@ EXCEPT ![i] = "apply"]]
  BY DEF TakeTest, WithTest, TestsInv, TestsShape, Fields, TestFields
<1>2. Cardinality(BusyTests(task)) < Room(task) /\ task.at[i] = "queued"
  BY DEF TakeTest, BusyTests, Room, Workers, Tests, TestsInv, TestsShape
<1>3. /\ Fields(task', TestFields) /\ task'.kind = task.kind /\ task'.attempt = task.attempt
      /\ task'.at = [task.at EXCEPT ![i] = "apply"] /\ task'.retries = task.retries
      /\ task'.tests = task.tests /\ task'.parallel = task.parallel /\ task'.pc = task.pc
      /\ task'.bad = task.bad /\ task'.res = task.res /\ task'.good = task.good
      /\ task'.objects = task.objects /\ task'.undeleted = task.undeleted
  BY <1>1 DEF TestsInv, TestsShape, Fields, TestFields
<1>4. Turn(task, task', i) /\ task'.objects \in [DOMAIN task.objects -> TestObject] /\ task'.at[i] = "apply"
  BY <1>3 DEF Turn, TestsInv, TestsShape, Busy
<1>5. HasSeen(task', i)
  BY <1>4 DEF HasSeen
<1>6. \A o \in DOMAIN task.objects : Leaving(task, o) => Leaving(task', o)
  BY <1>3, StaysLeaving
<1> QED BY <1>2, <1>4, <1>5, <1>6, WorkerTests DEF PutThere, Over

(* executeOneTest: the resources of an attempt are there, or some of them. *)
LEMMA AppliesTest ==
  ASSUME TestsInv(task), NEW i \in Tests(task), task.pc = "tests", ApplyTest(i)
  PROVE  TestsInv(task')
<1>1. ASSUME NEW n \in 0 .. Len(task.tests[i]), Turn(task, task', i), task'.undeleted = task.undeleted,
             task'.objects = AppliedTo(i, n), task'.at[i] \in PutThere, HasSeen(task', i)
      PROVE  TestsInv(task')
  <2>1. \A o \in DOMAIN task.objects : Leaving(task, o) => Leaving(task', o) \/ o \in Pieces(task, i)
    <3>1. \A o \in DOMAIN task.objects : o \notin Pieces(task, i) => task'.objects[o] = task.objects[o]
      BY <1>1, AppliedObjects
    <3>2. task'.tests = task.tests /\ task.undeleted \subseteq task'.undeleted
      BY <1>1 DEF Turn
    <3> QED BY <3>1, <3>2, StaysLeaving
  <2>2. task.at[i] \in Busy
    BY DEF ApplyTest, Busy
  <2> QED BY <1>1, <2>1, <2>2, AppliedObjects, WorkerTests DEF PutThere, Over
<1>2. task.tests[i] \in Seq(TestPiece) /\ Len(task.tests[i]) \in 0 .. Len(task.tests[i])
  BY DEF TestsInv, TestsShape, Tests
<1>3. CASE task' = [task EXCEPT !.objects = AppliedTo(i, Len(task.tests[i])), !.at[i] = "watch",
                                !.res[i] = 1, !.bad[i] = FALSE, !.good[i] = {}]
  <2>1. /\ Fields(task', TestFields) /\ task'.kind = task.kind /\ task'.attempt = task.attempt
        /\ task'.at = [task.at EXCEPT ![i] = "watch"] /\ task'.retries = task.retries
        /\ task'.tests = task.tests /\ task'.parallel = task.parallel /\ task'.pc = task.pc
        /\ task'.bad = [task.bad EXCEPT ![i] = FALSE] /\ task'.res = [task.res EXCEPT ![i] = 1]
        /\ task'.good = [task.good EXCEPT ![i] = {}]
        /\ task'.objects = AppliedTo(i, Len(task.tests[i])) /\ task'.undeleted = task.undeleted
    BY <1>3 DEF TestsInv, TestsShape, Fields, TestFields
  <2>2. Turn(task, task', i) /\ task'.at[i] = "watch" /\ task'.res[i] = 1
    <3>1. /\ task'.at \in [Tests(task) -> {"queued", "passed", "failed"} \cup Busy] /\ task'.at[i] = "watch"
          /\ \A j \in Tests(task) \ {i} : task'.at[j] = task.at[j]
      BY <2>1 DEF TestsInv, TestsShape, Busy
    <3>2. /\ task'.res \in [Tests(task) -> Nat] /\ task'.res[i] = 1
          /\ \A j \in Tests(task) \ {i} : task'.res[j] = task.res[j]
      BY <2>1 DEF TestsInv, TestsShape
    <3>3. /\ task'.bad \in [Tests(task) -> BOOLEAN]
          /\ \A j \in Tests(task) \ {i} : task'.bad[j] = task.bad[j]
      BY <2>1 DEF TestsInv, TestsShape
    <3>4. /\ task'.good = [j \in Tests(task) |-> task'.good[j]]
          /\ \A j \in Tests(task) \ {i} : task'.good[j] = task.good[j]
      BY <2>1 DEF TestsInv, TestsShape
    <3>5. task'.attempt \in [Tests(task) -> Nat]
      BY <2>1 DEF TestsInv, TestsShape
    <3> QED BY <2>1, <3>1, <3>2, <3>3, <3>4, <3>5 DEF Turn
  <2>3. HasSeen(task', i)
    BY <1>2, <2>1, <2>2 DEF HasSeen, Tests
  <2> QED BY <1>1, <1>2, <2>1, <2>2, <2>3 DEF PutThere
<1>4. ASSUME NEW n \in 0 .. Len(task.tests[i]),
             task' = TriedAgain([task EXCEPT !.objects = AppliedTo(i, n)], i)
      PROVE  TestsInv(task')
  <2>1. PICK w \in {"retry", "clean"} :
          task' = [[task EXCEPT !.objects = AppliedTo(i, n)] EXCEPT !.at[i] = w, !.bad[i] = TRUE]
    BY <1>4 DEF TriedAgain
  <2>2. /\ Fields(task', TestFields) /\ task'.kind = task.kind /\ task'.attempt = task.attempt
        /\ task'.at = [task.at EXCEPT ![i] = w] /\ task'.retries = task.retries
        /\ task'.tests = task.tests /\ task'.parallel = task.parallel /\ task'.pc = task.pc
        /\ task'.bad = [task.bad EXCEPT ![i] = TRUE] /\ task'.res = task.res /\ task'.good = task.good
        /\ task'.objects = AppliedTo(i, n) /\ task'.undeleted = task.undeleted
    BY <2>1 DEF TestsInv, TestsShape, Fields, TestFields
  <2>3. Turn(task, task', i) /\ task'.at[i] = w /\ task'.bad[i]
    BY <2>2 DEF Turn, TestsInv, TestsShape, Busy
  <2>4. HasSeen(task', i)
    BY <2>3 DEF HasSeen
  <2> QED BY <1>1, <2>2, <2>3, <2>4 DEF PutThere
<1> QED BY <1>3, <1>4 DEF ApplyTest

(* waitForPodCompletion, WaitForJob: only what has ended well is good.     *)
LEMMA WatchesTest ==
  ASSUME TestsInv(task), NEW i \in Tests(task), task.pc = "tests", WatchTest(i)
  PROVE  TestsInv(task')
<1>1. PICK fails \in BOOLEAN : task' = Judged(i, fails)
  <2>1. (task.objects[Watched(i).id].st # "done") \in BOOLEAN
    OBVIOUS
  <2> QED BY <2>1 DEF WatchTest
<1> DEFINE piece == Watched(i).id
<1>2. /\ task.at[i] = "watch" /\ task.tests[i] \in Seq(TestPiece) /\ task.res[i] \in Nat
      /\ task.res[i] <= Len(task.tests[i]) /\ piece = task.tests[i][task.res[i]].id
  <2>1. task.at[i] = "watch" /\ task.res[i] <= Len(task.tests[i])
    BY Zenon DEF WatchTest
  <2>2. task.tests[i] \in Seq(TestPiece) /\ task.res[i] \in Nat
    BY DEF TestsInv, TestsShape, Tests
  <2> QED BY <2>1, <2>2 DEF Watched
<1> HIDE DEF piece
<1>3. /\ Fields(task', TestFields) /\ task'.kind = task.kind /\ task'.attempt = task.attempt
      /\ task'.at = task.at /\ task'.retries = task.retries
      /\ task'.tests = task.tests /\ task'.parallel = task.parallel /\ task'.pc = task.pc
      /\ task'.bad = [task.bad EXCEPT ![i] = task.bad[i] \/ fails]
      /\ task'.res = [task.res EXCEPT ![i] = task.res[i] + 1]
      /\ task'.good = [task.good EXCEPT ![i] = IF fails THEN task.good[i] ELSE task.good[i] \cup {piece}]
      /\ task'.objects = task.objects /\ task'.undeleted = task.undeleted
  BY <1>1 DEF Judged, TestsInv, TestsShape, Fields, TestFields, piece
<1>4. Turn(task, task', i)
  <2>1. task'.bad \in [Tests(task) -> BOOLEAN] /\ \A j \in Tests(task) \ {i} : task'.bad[j] = task.bad[j]
    BY <1>3 DEF TestsInv, TestsShape
  <2>2. task'.res \in [Tests(task) -> Nat] /\ \A j \in Tests(task) \ {i} : task'.res[j] = task.res[j]
    BY <1>2, <1>3 DEF TestsInv, TestsShape
  <2>3. /\ task'.good = [j \in Tests(task) |-> task'.good[j]]
        /\ \A j \in Tests(task) \ {i} : task'.good[j] = task.good[j]
    BY <1>3 DEF TestsInv, TestsShape
  <2> QED BY <1>3, <2>1, <2>2, <2>3 DEF Turn, TestsInv, TestsShape
<1>5. HasSeen(task', i)
  <2>1. task'.at[i] = "watch" /\ task'.tests[i] = task.tests[i] /\ task'.res[i] = task.res[i] + 1
    BY <1>2, <1>3 DEF TestsInv, TestsShape
  <2>2. ~task'.bad[i] => ~task.bad[i] /\ ~fails
    BY <1>3 DEF TestsInv, TestsShape
  <2>3. ~fails => task'.good[i] = task.good[i] \cup {piece}
    BY <1>3 DEF TestsInv, TestsShape
  <2>4. ~task.bad[i] => \A k \in DOMAIN task.tests[i] : k < task.res[i] => task.tests[i][k].id \in task.good[i]
    BY <1>2 DEF TestsInv, HasSeen
  <2> QED BY <1>2, <2>1, <2>2, <2>3, <2>4 DEF HasSeen
<1>6. \A o \in DOMAIN task.objects : Leaving(task, o) => Leaving(task', o)
  BY <1>3, StaysLeaving
<1> QED BY <1>2, <1>3, <1>4, <1>5, <1>6, WorkerTests DEF PutThere, Over, Busy, TestsInv, TestsShape

(* The test has ended: passed, tried again, or failed.                     *)
LEMMA JudgesTest ==
  ASSUME TestsInv(task), NEW i \in Tests(task), task.pc = "tests", JudgeTest(i)
  PROVE  TestsInv(task')
<1>1. PICK w \in {"retry", "clean"}, b \in BOOLEAN :
        /\ task' = [task EXCEPT !.at = [@ EXCEPT ![i] = w], !.bad = [@ EXCEPT ![i] = b]]
        /\ ~b => ~task.bad[i]
  <2>1. CASE task.bad[i]
    BY <2>1 DEF JudgeTest, TriedAgain, TestsInv, TestsShape, Fields, TestFields
  <2>2. CASE ~task.bad[i]
    <3>1. [task.bad EXCEPT ![i] = FALSE] = task.bad
      BY <2>2 DEF TestsInv, TestsShape
    <3>2. task' = [task EXCEPT !.at = [@ EXCEPT ![i] = "clean"]]
      BY <2>2 DEF JudgeTest, WithTest, TestsInv, TestsShape, Fields, TestFields
    <3>3. task' = [task EXCEPT !.at = [@ EXCEPT ![i] = "clean"], !.bad = task.bad]
      BY <3>2 DEF TestsInv, TestsShape, Fields, TestFields
    <3> QED BY <2>2, <3>1, <3>3
  <2> QED BY <2>1, <2>2
<1>2. /\ Fields(task', TestFields) /\ task'.kind = task.kind /\ task'.attempt = task.attempt
      /\ task'.at = [task.at EXCEPT ![i] = w] /\ task'.retries = task.retries
      /\ task'.tests = task.tests /\ task'.parallel = task.parallel /\ task'.pc = task.pc
      /\ task'.bad = [task.bad EXCEPT ![i] = b] /\ task'.res = task.res /\ task'.good = task.good
      /\ task'.objects = task.objects /\ task'.undeleted = task.undeleted
  BY <1>1 DEF TestsInv, TestsShape, Fields, TestFields
<1>3. Turn(task, task', i) /\ task'.at[i] = w /\ task'.bad[i] = b
  BY <1>2 DEF Turn, TestsInv, TestsShape, Busy
<1>4. /\ task.at[i] = "watch" /\ task.res[i] > Len(task.tests[i]) /\ task.res[i] \in Nat
      /\ task.tests[i] \in Seq(TestPiece)
  BY DEF JudgeTest, TestsInv, TestsShape, Tests
<1>5. HasSeen(task', i)
  <2>1. ~task.bad[i] => Pieces(task, i) \subseteq task.good[i]
    BY <1>4 DEF TestsInv, HasSeen, Pieces
  <2> QED BY <1>1, <1>2, <1>3, <2>1 DEF HasSeen, Pieces
<1>6. \A o \in DOMAIN task.objects : Leaving(task, o) => Leaving(task', o)
  BY <1>2, StaysLeaving
<1>7. task'.objects \in [DOMAIN task.objects -> TestObject]
  BY <1>2 DEF TestsInv, TestsShape
<1> QED BY <1>3, <1>4, <1>5, <1>6, <1>7, WorkerTests DEF PutThere, Over, Busy

(* DeleteManifests: what it does not reach is known to be left.            *)
LEMMA DeletesTest ==
  ASSUME TestsInv(task), NEW i \in Tests(task), task.pc = "tests", RetryTest(i) \/ CleanTest(i)
  PROVE  TestsInv(task')
<1>1. PICK w \in {"apply", "passed", "failed"}, a \in [Tests(task) -> Nat] :
        /\ DeleteTest(i, [task EXCEPT !.at = [@ EXCEPT ![i] = w], !.attempt = a])
        /\ w = "passed" => task.at[i] = "clean" /\ ~task.bad[i]
  <2>1. CASE RetryTest(i)
    <3>1. [WithTest(i, "apply") EXCEPT !.attempt[i] = @ + 1]
          = [task EXCEPT !.at = [@ EXCEPT ![i] = "apply"],
                         !.attempt = [task.attempt EXCEPT ![i] = task.attempt[i] + 1]]
      BY DEF WithTest, TestsInv, TestsShape, Fields, TestFields
    <3>2. [task.attempt EXCEPT ![i] = task.attempt[i] + 1] \in [Tests(task) -> Nat]
      BY DEF TestsInv, TestsShape
    <3> QED BY <2>1, <3>1, <3>2 DEF RetryTest
  <2>2. CASE CleanTest(i)
    <3>1. \A w : WithTest(i, w) = [task EXCEPT !.at = [@ EXCEPT ![i] = w], !.attempt = task.attempt]
      BY DEF WithTest, TestsInv, TestsShape, Fields, TestFields
    <3>2. task.attempt \in [Tests(task) -> Nat]
      BY DEF TestsInv, TestsShape
    <3> QED BY <2>2, <3>1, <3>2 DEF CleanTest
  <2> QED BY <2>1, <2>2
<1>2. task.at[i] \in {"retry", "clean"} /\ task.tests[i] \in Seq(TestPiece)
  BY DEF RetryTest, CleanTest, TestsInv, TestsShape, Tests
<1>3. PICK n, ke :
        /\ n \in 0 .. Len(task.tests[i])
        /\ task' = [task EXCEPT !.at = [@ EXCEPT ![i] = w], !.attempt = a, !.objects = Deletes(i, n),
                                !.undeleted = ke]
        /\ task.undeleted \subseteq ke /\ \A k \in 1 .. n : task.tests[i][k].id \in ke
  <2> DEFINE next == [task EXCEPT !.at = [@ EXCEPT ![i] = w], !.attempt = a]
  <2>1. next.undeleted = task.undeleted
    BY DEF TestsInv, TestsShape, Fields, TestFields
  <2>2. CASE task' = [next EXCEPT !.objects = Deletes(i, 0)]
    <3>1. task' = [task EXCEPT !.at = [@ EXCEPT ![i] = w], !.attempt = a, !.objects = Deletes(i, 0),
                               !.undeleted = task.undeleted]
      BY <2>2 DEF TestsInv, TestsShape, Fields, TestFields
    <3>2. 0 \in 0 .. Len(task.tests[i]) /\ 1 .. 0 = {}
      BY <1>2
    <3> QED BY <3>1, <3>2
  <2>3. ASSUME NEW n \in 1 .. Len(task.tests[i]),
               task' = [next EXCEPT !.objects = Deletes(i, n),
                                    !.undeleted = @ \cup {task.tests[i][k].id : k \in 1 .. n}]
        PROVE  task' = [task EXCEPT !.at = [@ EXCEPT ![i] = w], !.attempt = a, !.objects = Deletes(i, n),
                                    !.undeleted = task.undeleted \cup {task.tests[i][k].id : k \in 1 .. n}]
    BY <2>3 DEF TestsInv, TestsShape, Fields, TestFields
  <2>4. \A n \in 1 .. Len(task.tests[i]) :
          /\ n \in 0 .. Len(task.tests[i])
          /\ \A k \in 1 .. n : task.tests[i][k].id \in task.undeleted \cup {task.tests[i][m].id : m \in 1 .. n}
    BY <1>2
  <2> HIDE DEF next
  <2>5. CASE \E n \in 1 .. Len(task.tests[i]) :
               task' = [next EXCEPT !.objects = Deletes(i, n),
                                    !.undeleted = @ \cup {task.tests[i][k].id : k \in 1 .. n}]
    BY <2>3, <2>4, <2>5
  <2>6. DeleteTest(i, next)
    BY <1>1 DEF next
  <2> QED BY <2>2, <2>5, <2>6 DEF DeleteTest
<1>4. /\ Fields(task', TestFields) /\ task'.kind = task.kind /\ task'.attempt = a
      /\ task'.at = [task.at EXCEPT ![i] = w] /\ task'.retries = task.retries
      /\ task'.tests = task.tests /\ task'.parallel = task.parallel /\ task'.pc = task.pc
      /\ task'.bad = task.bad /\ task'.res = task.res /\ task'.good = task.good
      /\ task'.objects = Deletes(i, n) /\ task'.undeleted = ke
  BY <1>3 DEF TestsInv, TestsShape, Fields, TestFields
<1>9. /\ n \in Nat /\ n <= Len(task.tests[i])
      /\ task.undeleted \subseteq ke /\ \A k \in 1 .. n : task.tests[i][k].id \in ke
  BY <1>2, <1>3
<1>5. Turn(task, task', i) /\ task'.at[i] = w
  BY <1>4 DEF Turn, TestsInv, TestsShape, Busy
<1>6. HasSeen(task', i)
  BY <1>1, <1>4, <1>5 DEF TestsInv, HasSeen, Pieces
<1>10. /\ Deletes(i, n) \in [DOMAIN task.objects -> TestObject]
       /\ \A o \in DOMAIN task.objects :
            \/ task'.objects[o] = task.objects[o]
            \/ task'.objects[o] = [st |-> task.objects[o].st, ending |-> TRUE]
       /\ \A k \in n + 1 .. Len(task.tests[i]) :
            LET o == task.tests[i][k].id
            IN  \/ task.objects[o].st = "absent" \/ task.tests[i][k].keep
                \/ task'.objects[o] = [st |-> task.objects[o].st, ending |-> TRUE]
  <2>1. task'.objects = Deletes(i, n)
    BY <1>4
  <2> HIDE <1>4
  <2>2. n \in Nat
    BY <1>9
  <2>3. /\ Deletes(i, n) \in [DOMAIN task.objects -> TestObject]
        /\ \A o \in DOMAIN task.objects :
             \/ Deletes(i, n)[o] = task.objects[o]
             \/ Deletes(i, n)[o] = [st |-> task.objects[o].st, ending |-> TRUE]
        /\ \A k \in n + 1 .. Len(task.tests[i]) :
             LET o == task.tests[i][k].id
             IN  \/ task.objects[o].st = "absent" \/ task.tests[i][k].keep
                 \/ Deletes(i, n)[o] = [st |-> task.objects[o].st, ending |-> TRUE]
    BY <2>2, DeletedObjects
  <2> QED BY <2>1, <2>3
<1>11. ASSUME NEW o, task'.objects[o] = [st |-> task.objects[o].st, ending |-> TRUE]
       PROVE  Leaving(task', o)
  BY <1>11 DEF Leaving
<1>12. task'.undeleted = ke
  BY <1>4
<1>7. ASSUME NEW o \in DOMAIN task.objects, Leaving(task, o)
      PROVE  Leaving(task', o)
  <2>1. CASE task'.objects[o] = task.objects[o]
    BY <1>4, <1>7, <1>9, <1>12, <2>1, StaysLeaving
  <2> QED BY <1>10, <1>11, <2>1
<1>8. \A o \in Pieces(task, i) : Leaving(task', o)
  <2>1. ASSUME NEW k \in DOMAIN task.tests[i] PROVE Leaving(task', task.tests[i][k].id)
    <3>1. k \in 1 .. n \/ k \in n + 1 .. Len(task.tests[i])
      BY <1>2, <1>9
    <3>2. task.tests[i][k].id \in DOMAIN task.objects
      BY DEF TestsInv, TestsShape, Pieces
    <3>3. CASE k \in 1 .. n
      BY <1>4, <1>9, <3>3 DEF Leaving
    <3>4. CASE k \in n + 1 .. Len(task.tests[i])
      <4> DEFINE o == task.tests[i][k].id
      <4>1. CASE task'.objects[o] = task.objects[o] /\ task.objects[o].st = "absent"
        BY <4>1 DEF Leaving
      <4>2. CASE task.tests[i][k].keep
        <5>1. AskedToKeep(task, o)
          BY <4>2 DEF AskedToKeep, Tests
        <5>2. task'.tests = task.tests /\ task.undeleted \subseteq task'.undeleted
          BY <1>4, <1>9, <1>12
        <5>3. AskedToKeep(task', o) <=> AskedToKeep(task, o)
          BY <5>2, StaysLeaving
        <5> QED BY <5>1, <5>3 DEF Leaving
      <4> QED BY <1>10, <1>11, <3>2, <3>4, <4>1, <4>2
    <3> QED BY <3>1, <3>3, <3>4
  <2> QED BY <2>1 DEF Pieces
<1> QED BY <1>2, <1>4, <1>5, <1>6, <1>7, <1>8, <1>9, <1>10, WorkerTests DEF PutThere, Over, Busy

(* The steps that are of no worker.                                        *)
LEMMA OtherTests ==
  ASSUME TestsInv(task), LastRevision \/ (task.pc = "tests" /\ (TestsOver \/ TestObjectMoves))
  PROVE  TestsInv(task')
<1>1. ASSUME NEW s, task' = [task EXCEPT !.pc = s],
             s = "ok" => \A i \in Tests(task) : task.at[i] = "passed"
      PROVE  TestsInv(task')
  <2>1. /\ Fields(task', TestFields) /\ task'.kind = task.kind /\ task'.attempt = task.attempt
        /\ task'.at = task.at /\ task'.retries = task.retries
        /\ task'.tests = task.tests /\ task'.parallel = task.parallel /\ task'.pc = s
        /\ task'.bad = task.bad /\ task'.res = task.res /\ task'.good = task.good
        /\ task'.objects = task.objects /\ task'.undeleted = task.undeleted
    BY <1>1 DEF TestsInv, TestsShape, Fields, TestFields
  <2>2. /\ Tests(task') = Tests(task) /\ \A i \in Tests(task) : Pieces(task', i) = Pieces(task, i)
        /\ \A o : Leaving(task', o) <=> Leaving(task, o)
    BY <2>1, StaysLeaving DEF Tests, Pieces, Leaving
  <2>3. \A o : InUse(task', o) <=> InUse(task, o)
    BY <2>1, <2>2 DEF InUse
  <2>4. CleansUp(task')
    BY <2>1, <2>2, <2>3 DEF TestsInv, CleansUp
  <2>5. TestsShape(task')
    BY <2>1, <2>2 DEF TestsInv, TestsShape
  <2>6. \A i \in Tests(task') : HasSeen(task', i)
    BY <2>1, <2>2 DEF TestsInv, HasSeen
  <2>7. BusyTests(task') = BusyTests(task) /\ Room(task') = Room(task)
    BY <2>1 DEF BusyTests, Room, Tests
  <2> QED BY <1>1, <2>1, <2>2, <2>4, <2>5, <2>6, <2>7 DEF TestsInv
<1>2. CASE LastRevision
  <2>1. PICK s \in {"error", "tests"} : task' = [task EXCEPT !.pc = s]
    BY <1>2 DEF LastRevision
  <2> QED BY <1>1, <2>1
<1>3. CASE TestsOver
  <2>1. PICK s \in {"error", "ok"} : task' = [task EXCEPT !.pc = s] /\ (s = "ok" => "failed" \notin Range(task.at))
    BY <1>3 DEF TestsOver
  <2>2. s = "ok" => \A i \in Tests(task) : task.at[i] = "passed"
    BY <1>3, <2>1 DEF TestsOver, Range, Tests, TestsInv, TestsShape
  <2> QED BY <1>1, <2>1, <2>2
<1>4. CASE TestObjectMoves /\ task.pc = "tests"
  <2>1. PICK o \in DOMAIN task.objects, q \in TestObject :
          /\ task' = [task EXCEPT !.objects[o] = q]
          /\ Leaving(task, o) => \/ q.st = "absent" \/ q.ending
                                  \/ o \in task.undeleted \/ AskedToKeep(task, o)
    <3>1. PICK o \in DOMAIN task.objects :
            \/ /\ task.objects[o].st = "running"
               /\ \E e \in {"done", "failed"} :
                    task' = [task EXCEPT !.objects[o] = [st |-> e, ending |-> task.objects[o].ending]]
            \/ task' = [task EXCEPT !.objects[o] = [st |-> "absent", ending |-> FALSE]]
      BY <1>4 DEF TestObjectMoves
    <3>2. task.objects[o] \in TestObject
      BY DEF TestsInv, TestsShape
    <3>3. \A e \in {"done", "failed"} : [st |-> e, ending |-> task.objects[o].ending] \in TestObject
      BY <3>2 DEF TestObject
    <3>4. [st |-> "absent", ending |-> FALSE] \in TestObject
      BY DEF TestObject
    <3> QED BY <3>1, <3>3, <3>4 DEF Leaving
  <2>2. task' = [task EXCEPT !.objects = [@ EXCEPT ![o] = q]]
    BY <2>1 DEF TestsInv, TestsShape, Fields, TestFields
  <2>3. /\ Fields(task', TestFields) /\ task'.kind = task.kind /\ task'.attempt = task.attempt
        /\ task'.at = task.at /\ task'.retries = task.retries
        /\ task'.tests = task.tests /\ task'.parallel = task.parallel /\ task'.pc = task.pc
        /\ task'.bad = task.bad /\ task'.res = task.res /\ task'.good = task.good
        /\ task'.objects = [task.objects EXCEPT ![o] = q] /\ task'.undeleted = task.undeleted
    BY <2>2 DEF TestsInv, TestsShape, Fields, TestFields
  <2>4. task'.objects \in [DOMAIN task.objects -> TestObject] /\ DOMAIN task'.objects = DOMAIN task.objects
    BY <2>3 DEF TestsInv, TestsShape
  <2>5. \A p \in DOMAIN task.objects : Leaving(task, p) => Leaving(task', p)
    <3>1. \A p \in DOMAIN task.objects : p # o => task'.objects[p] = task.objects[p]
      BY <2>3
    <3>2. o \in DOMAIN task'.objects /\ task'.objects[o] = q
      BY <2>3, <2>4
    <3>3. task'.undeleted = task.undeleted /\ (AskedToKeep(task', o) <=> AskedToKeep(task, o))
      BY <2>3, StaysLeaving
    <3>4. Leaving(task, o) => Leaving(task', o)
      BY <2>1, <3>2, <3>3 DEF Leaving
    <3> QED BY <2>3, <3>1, <3>4, StaysLeaving
  <2>6. TestsShape(task')
    BY <2>3, <2>4 DEF TestsInv, TestsShape, Tests, Pieces
  <2>7. CleansUp(task')
    <3>1. Tests(task') = Tests(task) /\ \A i \in Tests(task) : Pieces(task', i) = Pieces(task, i)
      BY <2>3 DEF Tests, Pieces
    <3>2. \A p : InUse(task', p) <=> InUse(task, p)
      BY <2>3, <3>1 DEF InUse
    <3>3. \A i \in Tests(task) : Pieces(task, i) \subseteq DOMAIN task.objects
      BY DEF TestsInv, TestsShape
    <3> QED BY <2>3, <2>5, <3>1, <3>2, <3>3 DEF TestsInv, CleansUp
  <2>8. BusyTests(task') = BusyTests(task) /\ Room(task') = Room(task)
    BY <2>3 DEF BusyTests, Room, Tests
  <2>9. \A i \in Tests(task') : HasSeen(task', i)
    BY <2>3 DEF TestsInv, HasSeen, Pieces, Tests
  <2> QED BY <1>4, <2>3, <2>6, <2>7, <2>8, <2>9 DEF TestsInv
<1> QED BY <1>2, <1>3, <1>4

(* No test has begun.                                                      *)
LEMMA BeginTests ==
  ASSUME NEW tests, NEW objects, NEW status, NEW parallel \in Int, NEW retries \in Int,
         TestInputs(tests, objects)
  PROVE  TestsInv(TestsTask(status, tests, objects, parallel, retries))
<1> DEFINE t == TestsTask(status, tests, objects, parallel, retries)
<1>1. Fields(t, TestFields)
  BY DEF TestsTask, Fields, TestFields
<1>2. /\ t.kind = "tests" /\ t.tests = tests /\ t.objects = objects /\ t.pc = "last"
      /\ t.at = [i \in DOMAIN tests |-> "queued"] /\ t.attempt = [i \in DOMAIN tests |-> 0]
      /\ t.res = [i \in DOMAIN tests |-> 1] /\ t.bad = [i \in DOMAIN tests |-> FALSE]
      /\ t.good = [i \in DOMAIN tests |-> {}] /\ t.parallel = parallel /\ t.retries = retries
  BY DEF TestsTask
<1> HIDE DEF t
<1>3. \A i \in Tests(t) : Pieces(t, i) \subseteq DOMAIN t.objects
  BY <1>2 DEF TestInputs, Tests, Pieces
<1>4. TestsShape(t)
  BY <1>1, <1>2, <1>3 DEF TestsShape, Tests, TestInputs
<1>5. BusyTests(t) = {}
  BY <1>2 DEF BusyTests, Tests, Busy
<1>6. Cardinality(BusyTests(t)) <= Room(t)
  <2>1. Cardinality(BusyTests(t)) = 0
    BY <1>5, FS_EmptySet
  <2> QED BY <1>2, <2>1 DEF Room
<1> QED BY <1>2, <1>4, <1>6 DEF TestsInv, CleansUp, HasSeen, Over, Tests, t

(* Every step keeps the invariant.                                         *)
LEMMA StepTests ==
  ASSUME TestsInv(task), ReleaseTestStep
  PROVE  TestsInv(task')
BY OtherTests, TakesTest, AppliesTest, WatchesTest, JudgesTest, DeletesTest DEF ReleaseTestStep, Tests

(* What is to be shown of a task that begins and goes on.                  *)
LEMMA TestsAlways == TestsSpec => []TestsInv(task)
<1> DEFINE Inv == TestsInv(task)
<1>1. (\E tests, objects : \E status \in {"deployed", "failed"}, parallel \in Int, retries \in Int :
         TestInputs(tests, objects) /\ task = TestsTask(status, tests, objects, parallel, retries)) => Inv
  BY BeginTests
<1>2. Inv /\ [ReleaseTestStep]_taskVars => Inv'
  BY StepTests DEF taskVars
<1> QED BY <1>1, <1>2, PTL DEF TestsSpec

(* The invariant is enough.                                                *)
LEMMA TestsPromise == TestsInv(task) => TestsTellTheTruth
<1> SUFFICES ASSUME TestsInv(task) PROVE TestsTellTheTruth
  OBVIOUS
<1>1. \A i \in Tests(task) : task.at[i] = "passed" =>
         \A k \in DOMAIN task.tests[i] : task.tests[i][k].id \in task.good[i]
  BY DEF TestsInv, HasSeen, Pieces
<1>2. (\A i \in Tests(task) : task.at[i] \in {"passed", "failed"}) =>
         \A i \in Tests(task) : \A k \in DOMAIN task.tests[i] : Leaving(task, task.tests[i][k].id)
  BY DEF TestsInv, CleansUp, InUse, Over, PutThere, Pieces
<1>3. Cardinality({i \in DOMAIN task.tests : task.at[i] \in Busy}) <= Workers
  BY DEF TestsInv, BusyTests, Room, Workers, Tests
<1>4. \A i \in Tests(task) : \A k \in DOMAIN task.tests[i] :
        AskedToKeep(task, task.tests[i][k].id) => task.tests[i][k].id \in Spared
  BY DEF TestsInv, TestsShape, AskedToKeep, Spared, Tests, Pieces
<1> QED BY <1>1, <1>2, <1>3, <1>4 DEF TestsTellTheTruth, TestsInv, Tests, Leaving

(* runTest: see TestsTellTheTruth.                                         *)
THEOREM TruthOfTests == TestsSpec => []TestsTellTheTruth
BY TestsAlways, TestsPromise, PTL

-----------------------------------------------------------------------------
(* ApplyManifests, WaitForReady, checkOwnership, DeleteManifests and       *)
(* RunReleaseTests: what the client reports of the cluster is so, and it   *)
(* takes nobody's objects, whatever it is asked to do.                     *)
THEOREM ClientWord == ClientSpec => []ClientKeepsItsWord
<1>1. OwnershipInv(task) => ClientKeepsItsWord
  BY OwnershipPromise
     DEF OwnershipInv, ClientKeepsItsWord, ReadyIsRolledOut, ObjectsWhereTheyLive, TestsTellTheTruth
<1>2. RolloutInv(task) => ClientKeepsItsWord
  BY RolloutPromise
     DEF RolloutInv, ClientKeepsItsWord, OwnershipNeedsConsent, ObjectsWhereTheyLive, TestsTellTheTruth
<1>3. KindsInv => ClientKeepsItsWord
  BY KindsPromise
     DEF KindsInv, KindsShape, ClientKeepsItsWord, ReadyIsRolledOut, OwnershipNeedsConsent, TestsTellTheTruth
<1>4. TestsInv(task) => ClientKeepsItsWord
  BY TestsPromise
     DEF TestsInv, TestsShape, ClientKeepsItsWord, ReadyIsRolledOut, OwnershipNeedsConsent, ObjectsWhereTheyLive
<1> QED BY <1>1, <1>2, <1>3, <1>4, OwnershipAlways, RolloutAlways, KindsAlways, TestsAlways, PTL
           DEF ClientSpec

-----------------------------------------------------------------------------
(* Drift: comparing, reconciling and adopting objects.                     *)

(* A set of positions has a first one.                                     *)
LEMMA FirstPosition ==
  ASSUME NEW S \in SUBSET Nat, S # {}
  PROVE  \E v \in S : \A w \in S : v <= w
<1>1. PICK v \in S : \A w \in S : ~(<<w, v>> \in OpToRel(<, Nat))
  BY NatLessThanWellFounded, WFMin
<1>2. ASSUME NEW w \in S, w < v PROVE FALSE
  <2>1. <<w, v>> \in Nat \X Nat /\ <<w, v>>[1] < <<w, v>>[2]
    BY <1>2
  <2>2. <<w, v>> \in OpToRel(<, Nat)
    BY <2>1, Zenon DEF OpToRel
  <2> QED BY <1>1, <2>2
<1> QED BY <1>2

(* What is above a path: its beginnings.                                   *)
LEMMA Beginnings ==
  ASSUME NEW S, NEW p \in Seq(S), NEW i \in 1 .. Len(p)
  PROVE  /\ SubSeq(p, 1, i) \in Seq(S) /\ Len(SubSeq(p, 1, i)) = i
         /\ i < Len(p) => SubSeq(p, 1, i) \in Above(p)
         /\ i = Len(p) => SubSeq(p, 1, i) = p
         /\ \A j \in 1 .. i : SubSeq(SubSeq(p, 1, i), 1, j) = SubSeq(p, 1, j)
<1> DEFINE q == SubSeq(p, 1, i)
<1>1. Len(p) \in Nat /\ i \in Nat /\ i >= 1 /\ i <= Len(p)
  OBVIOUS
<1>2. q \in Seq(S) /\ Len(q) = i /\ \A k \in 1 .. i : q[k] = p[k]
  BY <1>1
<1>3. i = Len(p) => q = p
  BY <1>1, <1>2, SeqEqual
<1>4. ASSUME NEW j \in 1 .. i PROVE SubSeq(q, 1, j) = SubSeq(p, 1, j)
  <2>1. SubSeq(q, 1, j) \in Seq(S) /\ Len(SubSeq(q, 1, j)) = j /\ \A k \in 1 .. j : SubSeq(q, 1, j)[k] = q[k]
    BY <1>1, <1>2
  <2>2. SubSeq(p, 1, j) \in Seq(S) /\ Len(SubSeq(p, 1, j)) = j /\ \A k \in 1 .. j : SubSeq(p, 1, j)[k] = p[k]
    BY <1>1
  <2>3. \A k \in 1 .. j : q[k] = p[k]
    BY <1>1, <1>2
  <2> HIDE DEF q
  <2> QED BY <2>1, <2>2, <2>3, SeqEqual
<1>5. i < Len(p) => q \in Above(p)
  BY <1>1 DEF Above
<1> QED BY <1>2, <1>3, <1>4, <1>5

(* walkCompare: wherever a path differs, the comparison says something.    *)
LEMMA DifferenceIsSeen ==
  ASSUME NEW want, NEW live, BodyIs(want), NEW p \in DOMAIN want, Differs(want, live, p)
  PROVE  Differences(want, live) # {}
<1> DEFINE Bad == {i \in 1 .. Len(p) : Differs(want, live, SubSeq(p, 1, i))}
<1>1. p \in Seq(Range(p)) /\ Len(p) \in 1 .. Len(p) /\ Above(p) \subseteq DOMAIN want
  BY DEF BodyIs
<1>2. Len(p) \in Bad
  BY <1>1, Beginnings
<1>3. Bad \in SUBSET Nat /\ Bad # {}
  BY <1>2
<1>4. PICK i \in Bad : \A j \in Bad : i <= j
  BY <1>3, FirstPosition
<1> DEFINE q == SubSeq(p, 1, i)
<1>5. i \in 1 .. Len(p) /\ Differs(want, live, q)
  BY <1>4
<1>6. q \in DOMAIN want
  <2>1. i < Len(p) \/ i = Len(p)
    BY <1>1, <1>5
  <2>2. (i < Len(p) => q \in Above(p)) /\ (i = Len(p) => q = p)
    BY <1>1, <1>5, Beginnings
  <2> QED BY <1>1, <2>1, <2>2
<1>7. Len(q) = i
  BY <1>1, <1>5, Beginnings
<1>8. ASSUME NEW r \in Above(q) PROVE ~Differs(want, live, r)
  <2>1. PICK j \in 1 .. i - 1 : r = SubSeq(q, 1, j)
    BY <1>7 DEF Above
  <2>2. j \in 1 .. i /\ j \in 1 .. Len(p) /\ j < i
    BY <1>5, <2>1
  <2>3. r = SubSeq(p, 1, j)
    BY <1>1, <1>5, <2>1, <2>2, Beginnings
  <2>4. j \notin Bad
    BY <1>4, <1>5, <2>2
  <2> QED BY <2>2, <2>3, <2>4
<1> QED BY <1>5, <1>6, <1>8 DEF Differences

(* What is at a path in both alike is no difference.                       *)
LEMMA AlikeDoesNotDiffer ==
  ASSUME NEW want, NEW live, NEW p \in DOMAIN want, p \in DOMAIN live, live[p] = want[p],
         IsItem(live, p) = IsItem(want, p)
  PROVE  ~Differs(want, live, p)
BY DEF Differs, ItemNames

(* A body differs from itself nowhere.                                     *)
LEMMA SameBody ==
  ASSUME NEW body
  PROVE  Differences(body, body) = {}
BY AlikeDoesNotDiffer DEF Differences

(* The path of which one is the next, if it is above it at all.            *)
LEMMA FrontIsAbove ==
  ASSUME NEW body, BodyIs(body), NEW p \in DOMAIN body
  PROVE  Front(p) \in DOMAIN body \/ Front(p) = <<>>
<1>1. p \in Seq(Range(p)) /\ Above(p) \subseteq DOMAIN body /\ Len(p) \in Nat
  BY DEF BodyIs
<1>2. CASE Len(p) >= 2
  <2>1. Len(p) - 1 \in 1 .. Len(p) - 1
    BY <1>1, <1>2
  <2>2. Front(p) \in Above(p)
    BY <2>1 DEF Front, Above
  <2> QED BY <1>1, <2>2
<1>3. CASE Len(p) < 2
  BY <1>1, <1>3 DEF Front
<1> QED BY <1>1, <1>2, <1>3

(* Server-side apply, of one declared path: as declared, or a list with    *)
(* keys that had more items.                                               *)
LEMMA MergedAt ==
  ASSUME NEW want, NEW live, NEW p \in DOMAIN want
  PROVE  /\ p \in DOMAIN Merged(want, live)
         /\ \/ Merged(want, live)[p] = want[p]
            \/ IsKeyed(want[p]) /\ IsKeyed(Merged(want, live)[p]) /\ p \in Lengthened(want, live)
<1>1. p \in DOMAIN Merged(want, live)
  BY DEF Merged
<1>2. CASE p \in Stays(want, live) /\ IsKeyed(want[p]) /\ IsKeyed(live[p])
  <2>1. Merged(want, live)[p] = WithOthers(want[p], live[p])
    BY <1>2 DEF Merged
  <2>2. CASE Others(want[p], live[p]) = {}
    BY <1>1, <2>1, <2>2 DEF WithOthers
  <2>3. CASE Others(want[p], live[p]) # {}
    <3>1. \E names : Merged(want, live)[p] = KeyedList(names)
      BY <2>1, <2>3 DEF WithOthers
    <3>2. IsKeyed(Merged(want, live)[p])
      BY <3>1 DEF KeyedList, IsKeyed
    <3>3. p \in Lengthened(want, live)
      BY <1>2, <2>3 DEF Lengthened, Stays
    <3> QED BY <1>1, <1>2, <3>2, <3>3
  <2> QED BY <2>2, <2>3
<1>3. CASE ~(p \in Stays(want, live) /\ IsKeyed(want[p]) /\ IsKeyed(live[p]))
  BY <1>1, <1>3 DEF Merged
<1> QED BY <1>2, <1>3

(* ApplyManifests: all that is declared is there again, and nothing else   *)
(* differs but such a list.                                                *)
LEMMA MergedFits ==
  ASSUME NEW want, NEW live, BodyIs(want), BodyIs(live)
  PROVE  /\ Restored(want, Merged(want, live))
         /\ Differences(want, Merged(want, live)) \subseteq Lengthened(want, live)
<1> DEFINE m == Merged(want, live)
<1>1. \A p \in DOMAIN want :
        /\ p \in DOMAIN m
        /\ m[p] = want[p] \/ (IsKeyed(want[p]) /\ IsKeyed(m[p]) /\ p \in Lengthened(want, live))
  BY MergedAt
<1>2. <<>> \notin DOMAIN m /\ <<>> \notin DOMAIN want
  BY DEF Merged, Stays, BodyIs
<1> HIDE DEF m
<1>3. ASSUME NEW p \in DOMAIN want PROVE IsItem(m, p) = IsItem(want, p)
  <2>1. CASE Front(p) \in DOMAIN want
    <3>1. Front(p) \in DOMAIN m /\ m[Front(p)].t = want[Front(p)].t
      BY <1>1, <2>1 DEF IsKeyed
    <3> QED BY <2>1, <3>1 DEF IsItem
  <2>2. CASE Front(p) = <<>>
    BY <1>2, <2>2 DEF IsItem
  <2> QED BY <2>1, <2>2, FrontIsAbove
<1>4. ASSUME NEW p \in Differences(want, m) PROVE p \in Lengthened(want, live)
  <2>1. p \in DOMAIN want /\ Differs(want, m, p)
    BY DEF Differences
  <2>2. m[p] # want[p]
    BY <1>1, <1>3, <2>1, AlikeDoesNotDiffer
  <2> QED BY <1>1, <2>1, <2>2
<1>5. Restored(want, m)
  BY <1>1 DEF Restored
<1> QED BY <1>4, <1>5 DEF m

(* And a field beside what is declared stays.                              *)
LEMMA MergedKeeps ==
  ASSUME NEW want, NEW live, NEW p \in DOMAIN live, Len(p) = 1
  PROVE  p \in DOMAIN Merged(want, live)
<1>1. Above(p) = {}
  BY DEF Above
<1> QED BY <1>1 DEF Merged, Stays

(* The same of whole objects, found or created.                            *)
LEMMA AppliedFits ==
  ASSUME NEW want, NEW live, ObjectIs(want), ObjectIs(live), want.status # Missing.status
  PROVE  /\ Closed(want, live, Applied(want, live))
         /\ live # Missing => \A p \in DOMAIN live.spec : Len(p) = 1 => p \in DOMAIN Applied(want, live).spec
<1>1. CASE live = Missing
  <2>1. Applied(want, live) = want
    BY <1>1 DEF Applied
  <2>2. CompareSpec(want, want) = {}
    BY SameBody DEF CompareSpec
  <2>3. Restored(want.spec, want.spec) /\ Restored(want.meta, want.meta)
    BY DEF Restored
  <2> QED BY <1>1, <2>1, <2>2, <2>3 DEF Closed
<1>2. CASE live # Missing
  <2> DEFINE x == Applied(want, live)
  <2>1. x.spec = Merged(want.spec, live.spec) /\ x.meta = Merged(want.meta, live.meta) /\ x.status = want.status
    BY <1>2 DEF Applied, ObjectIs
  <2> HIDE DEF x
  <2>2. /\ Restored(want.spec, x.spec) /\ Differences(want.spec, x.spec) \subseteq Lengthened(want.spec, live.spec)
        /\ Restored(want.meta, x.meta) /\ Differences(want.meta, x.meta) \subseteq Lengthened(want.meta, live.meta)
    BY <2>1, MergedFits DEF ObjectIs
  <2>3. \A p \in DOMAIN live.spec : Len(p) = 1 => p \in DOMAIN x.spec
    BY <2>1, MergedKeeps
  <2>4. x # Missing
    BY <2>1
  <2>5. Closed(want, live, x)
    BY <2>2, <2>4 DEF Closed, CompareSpec
  <2> QED BY <2>3, <2>5 DEF x
<1> QED BY <1>1, <1>2

(* The place of a name in a list is the place of no other.                 *)
PlaceIn(names, name) == CHOOSE n \in DOMAIN names : names[n] = name
LEMMA PlaceIsOfOne ==
  ASSUME NEW names, NEW a \in Range(names), NEW b \in Range(names), PlaceIn(names, a) = PlaceIn(names, b)
  PROVE  a = b
<1>1. \A c \in Range(names) : names[PlaceIn(names, c)] = c
  BY DEF Range, PlaceIn
<1> QED BY <1>1

(* flattenLeaves: where a body differs from another nowhere, what has the  *)
(* same place in both is at the same path.                                 *)
LEMMA SamePlace ==
  ASSUME NEW want, NEW live, BodyIs(want), BodyIs(live), Differences(want, live) = {},
         NEW p \in DOMAIN want, NEW q \in DOMAIN live, Numbered(want, p) = Numbered(live, q)
  PROVE  p = q
<1>1. /\ p \in Seq(Range(p)) /\ Len(p) \in Nat /\ Above(p) \subseteq DOMAIN want
      /\ q \in Seq(Range(q)) /\ Len(q) \in Nat /\ Above(q) \subseteq DOMAIN live
  BY DEF BodyIs
<1>2. Len(q) = Len(p)
  <2>1. DOMAIN Numbered(want, p) = 1 .. Len(p) /\ DOMAIN Numbered(live, q) = 1 .. Len(q)
    BY DEF Numbered
  <2>2. 1 .. Len(p) = 1 .. Len(q)
    BY <2>1
  <2> QED BY <1>1, <2>2
<1>3. \A x \in DOMAIN want : ~Differs(want, live, x)
  BY DifferenceIsSeen
<1>4. SUFFICES ASSUME \E i \in 1 .. Len(p) : p[i] # q[i] PROVE FALSE
  <2>1. SUFFICES ASSUME \A i \in 1 .. Len(p) : p[i] = q[i] PROVE p = q
    OBVIOUS
  <2>2. p \in Seq(Range(p) \cup Range(q)) /\ q \in Seq(Range(p) \cup Range(q))
    BY <1>1
  <2> QED BY <1>2, <2>1, <2>2, SeqEqual
<1>5. PICK i \in 1 .. Len(p) : p[i] # q[i] /\ \A j \in 1 .. i - 1 : p[j] = q[j]
  <2> DEFINE Apart == {k \in 1 .. Len(p) : p[k] # q[k]}
  <2>1. Apart \in SUBSET Nat /\ Apart # {}
    BY <1>4
  <2>2. PICK k \in Apart : \A m \in Apart : k <= m
    BY <2>1, FirstPosition
  <2>3. \A j \in 1 .. k - 1 : j \in 1 .. Len(p) /\ j \notin Apart
    BY <1>1, <2>2
  <2> QED BY <2>2, <2>3
<1> DEFINE x == SubSeq(p, 1, i)
           y == SubSeq(q, 1, i)
<1>6. /\ x \in Seq(Range(p)) /\ Len(x) = i /\ x \in DOMAIN want /\ x[i] = p[i]
      /\ y \in Seq(Range(q)) /\ Len(y) = i /\ y \in DOMAIN live /\ y[i] = q[i]
  <2>1. /\ x \in Seq(Range(p)) /\ Len(x) = i /\ (i < Len(p) => x \in Above(p)) /\ (i = Len(p) => x = p)
        /\ y \in Seq(Range(q)) /\ Len(y) = i /\ (i < Len(q) => y \in Above(q)) /\ (i = Len(q) => y = q)
    BY <1>1, <1>2, Beginnings
  <2>2. x[i] = p[i] /\ y[i] = q[i] /\ (i < Len(p) \/ i = Len(p))
    BY <1>1, <1>2
  <2> HIDE DEF x, y
  <2>3. x \in DOMAIN want /\ y \in DOMAIN live
    BY <1>1, <1>2, <2>1, <2>2
  <2> QED BY <2>1, <2>2, <2>3
<1>7. Front(x) = Front(y)
  <2>1. \A j \in 1 .. i - 1 : x[j] = p[j] /\ y[j] = q[j]
    BY <1>1, <1>2
  <2> HIDE DEF x, y
  <2> DEFINE S == Range(p) \cup Range(q)
  <2>2. x \in Seq(S) /\ y \in Seq(S) /\ i - 1 \in 0 .. i
    BY <1>6
  <2> HIDE DEF S
  <2>3. /\ Front(x) \in Seq(S) /\ Len(Front(x)) = i - 1 /\ \A j \in 1 .. i - 1 : Front(x)[j] = x[j]
        /\ Front(y) \in Seq(S) /\ Len(Front(y)) = i - 1 /\ \A j \in 1 .. i - 1 : Front(y)[j] = y[j]
    BY <1>6, <2>2 DEF Front
  <2>4. \A j \in 1 .. i - 1 : Front(x)[j] = Front(y)[j]
    BY <1>5, <2>1, <2>3
  <2> QED BY <2>3, <2>4, SeqEqual
<1>8. /\ Numbered(want, p)[i] = IF IsItem(want, x) THEN <<"", PlaceIn(want[Front(x)].names, p[i])>> ELSE <<p[i], 0>>
      /\ Numbered(live, q)[i] = IF IsItem(live, y) THEN <<"", PlaceIn(live[Front(y)].names, q[i])>> ELSE <<q[i], 0>>
  BY <1>2 DEF Numbered, PlaceIn, x, y
<1> HIDE DEF x, y
<1>9. IsItem(live, x) = IsItem(want, x) /\ IsItem(live, y) = IsItem(live, x)
  BY <1>3, <1>6, <1>7 DEF Differs, IsItem
<1>10. CASE ~IsItem(want, x)
  BY <1>5, <1>8, <1>9, <1>10
<1>11. CASE IsItem(want, x)
  <2>1. Front(x) \in DOMAIN want /\ want[Front(x)].t = "list" /\ live[Front(x)].t = "list"
    BY <1>9, <1>11 DEF IsItem
  <2>2. live[Front(x)].names = want[Front(x)].names
    BY <1>3, <2>1 DEF Differs, ItemNames
  <2>3. Last(x) = p[i] /\ Last(y) = q[i]
    BY <1>6 DEF Last
  <2>4. p[i] \in Range(want[Front(x)].names) /\ q[i] \in Range(want[Front(x)].names)
    BY <1>6, <1>7, <1>9, <1>11, <2>2, <2>3 DEF BodyIs
  <2>5. <<"", PlaceIn(want[Front(x)].names, p[i])>> = <<"", PlaceIn(want[Front(x)].names, q[i])>>
    BY <1>7, <1>8, <1>9, <1>11, <2>2, Zenon
  <2>6. PlaceIn(want[Front(x)].names, p[i]) = PlaceIn(want[Front(x)].names, q[i])
    BY <2>5
  <2> QED BY <1>5, <2>4, <2>6, PlaceIsOfOne
<1> QED BY <1>10, <1>11

(* And what is declared has one place in both.                             *)
LEMMA SameNumbers ==
  ASSUME NEW want, NEW live, BodyIs(want), Differences(want, live) = {}, NEW p \in DOMAIN want
  PROVE  Numbered(want, p) = Numbered(live, p)
<1>1. p \in Seq(Range(p)) /\ Len(p) \in Nat /\ Above(p) \subseteq DOMAIN want
  BY DEF BodyIs
<1>2. \A x \in DOMAIN want : ~Differs(want, live, x)
  BY DifferenceIsSeen
<1>3. ASSUME NEW i \in 1 .. Len(p) PROVE Numbered(want, p)[i] = Numbered(live, p)[i]
  <2> DEFINE x == SubSeq(p, 1, i)
  <2>1. x \in DOMAIN want
    <3>1. (i < Len(p) => x \in Above(p)) /\ (i = Len(p) => x = p) /\ (i < Len(p) \/ i = Len(p))
      BY <1>1, Beginnings
    <3> QED BY <1>1, <3>1
  <2>2. /\ Numbered(want, p)[i] = IF IsItem(want, x) THEN <<"", PlaceIn(want[Front(x)].names, p[i])>> ELSE <<p[i], 0>>
        /\ Numbered(live, p)[i] = IF IsItem(live, x) THEN <<"", PlaceIn(live[Front(x)].names, p[i])>> ELSE <<p[i], 0>>
    BY DEF Numbered, PlaceIn
  <2> HIDE DEF x
  <2>3. IsItem(live, x) = IsItem(want, x)
    BY <1>2, <2>1 DEF Differs
  <2>4. IsItem(want, x) => live[Front(x)].names = want[Front(x)].names
    BY <1>2, <2>3 DEF IsItem, Differs, ItemNames
  <2> QED BY <2>2, <2>3, <2>4
<1>4. Numbered(want, p) = [i \in 1 .. Len(p) |-> Numbered(want, p)[i]]
      /\ Numbered(live, p) = [i \in 1 .. Len(p) |-> Numbered(live, p)[i]]
  BY DEF Numbered
<1> QED BY <1>3, <1>4

(* threeWay: a tag of cluster drift is on a resource that has drifted.     *)
LEMMA TagInBody ==
  ASSUME NEW want, NEW live, NEW part \in {"spec", "meta"}, BodyIs(want[part]), BodyIs(live[part]),
         NEW l \in LeavesOf(want, part), l \in LeavesOf(live, part), At(want, l) # At(live, l)
  PROVE  Differences(want[part], live[part]) # {}
<1> SUFFICES ASSUME Differences(want[part], live[part]) = {} PROVE FALSE
  OBVIOUS
<1> DEFINE w == want[part]
           v == live[part]
<1>1. l[1] = part
  BY DEF LeavesOf
<1>2. \A x \in DOMAIN w : ~Differs(w, v, x)
  BY DifferenceIsSeen
<1>3. \A p \in Scalars(w) : p \in Scalars(v) /\ v[p] = w[p] /\ Numbered(w, p) = Numbered(v, p)
  <2> SUFFICES ASSUME NEW p \in Scalars(w) PROVE p \in Scalars(v) /\ v[p] = w[p] /\ Numbered(w, p) = Numbered(v, p)
    OBVIOUS
  <2>1. p \in DOMAIN v /\ v[p] = w[p]
    BY <1>2 DEF Scalars, Differs
  <2> QED BY <2>1, SameNumbers DEF Scalars
<1>4. PICK p \in Scalars(w) : l = <<part, Numbered(w, p)>>
  BY DEF LeavesOf
<1>5. ASSUME NEW q \in Scalars(v), Numbered(v, q) = l[2] PROVE q = p
  <2>1. Numbered(w, p) = Numbered(v, q) /\ p \in DOMAIN w /\ q \in DOMAIN v
    BY <1>4, <1>5 DEF Scalars
  <2> QED BY <2>1, SamePlace
<1>6. ASSUME NEW q \in Scalars(w), Numbered(w, q) = l[2] PROVE q = p
  BY <1>3, <1>5, <1>6
<1>7. At(want, l) = {w[p].v} /\ At(live, l) = {v[p].v}
  BY <1>1, <1>3, <1>4, <1>5, <1>6 DEF At
<1> QED BY <1>3, <1>7

(* The same of whole objects.                                              *)
LEMMA TagIsDrift ==
  ASSUME NEW want, NEW live, ObjectIs(want), ObjectIs(live), ClusterDrift(want, want, live) # {}
  PROVE  CompareSpec(want, live) # {}
<1>1. PICK l : l \in Leaves(want) /\ l \in Leaves(live) /\ At(want, l) # At(live, l)
  BY DEF ClusterDrift
<1>2. \A part \in {"spec", "meta"} : BodyIs(want[part]) /\ BodyIs(live[part])
  BY DEF ObjectIs
<1>3. PICK part \in {"spec", "meta"} : l \in LeavesOf(want, part)
  BY <1>1 DEF Leaves
<1>4. l \in LeavesOf(live, part)
  BY <1>1, <1>3 DEF Leaves, LeavesOf
<1>5. PICK q : q \in Differences(want[part], live[part])
  BY <1>1, <1>2, <1>3, <1>4, TagInBody
<1>6. <<part, q>> \in CompareSpec(want, live)
  BY <1>5 DEF CompareSpec
<1> QED BY <1>6

ReconcileFields == {"kind", "pc", "manifest", "live", "first", "todo", "drift", "edited"}
(* Reconcile: what was compared and what not, and that until it applies    *)
(* anything an object is as it was or was deleted by somebody else.        *)
ReconcileShape ==
    /\ Fields(task, ReconcileFields) /\ task.kind = "reconcile" /\ task.pc \in {"compare", "ok", "error"}
    /\ ReconcileInputs(task.manifest, task.first) /\ task.edited \in BOOLEAN
    /\ DOMAIN task.live = DOMAIN task.manifest /\ task.live = [r \in DOMAIN task.live |-> task.live[r]]
    /\ task.drift = DriftOf(task.manifest, task.first) \ task.todo
AsItWas(r) == task.live[r] = task.first[r]
UntilApplied ==
    task.pc = "compare" => \A r \in DOMAIN task.manifest :
        AsItWas(r) \/ (task.live[r] = Missing /\ r \notin task.todo /\ task.edited)
KeptAlone == \A r \in Kept(task.manifest) : task.live[r] # Missing => AsItWas(r)
ClosedAll ==
    task.pc = "ok" /\ task.drift # {} => \A r \in DOMAIN task.manifest \ Kept(task.manifest) :
        /\ Closed(task.manifest[r], task.first[r], task.live[r])
        /\ task.first[r] # Missing /\ ~task.edited =>
              \A p \in DOMAIN task.first[r].spec : Len(p) = 1 => p \in DOMAIN task.live[r].spec
Untouched == task.pc = "ok" /\ task.drift = {} /\ ~task.edited => task.live = task.first
ReconcileInv == ReconcileShape /\ UntilApplied /\ KeptAlone /\ ClosedAll /\ Untouched

AdoptFields == {"kind", "pc", "refs", "live", "at", "docs", "stored", "had"}
(* Adopt: the objects fetched so far, and whose the record is.             *)
AdoptInv ==
    /\ Fields(task, AdoptFields) /\ task.kind = "adopt" /\ AdoptInputs(task.refs, task.live)
    /\ task.at \in 1 .. Len(task.refs) + 1 /\ Len(task.docs) = task.at - 1
    /\ task.docs \in Seq(Range(task.docs))
    /\ \A i \in 1 .. Len(task.docs) : task.docs[i] = [task.live[task.refs[i]] EXCEPT !.status = "none"]
    /\ task.stored = "adopted" => task.at > Len(task.refs)
    /\ task.had => task.stored = "another"
DriftInv == ReconcileInv \/ AdoptInv

(* Reconcile has compared nothing yet.                                     *)
LEMMA DriftBegins ==
  ASSUME NEW manifest, NEW live, ReconcileInputs(manifest, live), task = ReconcileTask(manifest, live)
  PROVE  ReconcileInv
<1>1. /\ Fields(task, ReconcileFields) /\ task.kind = "reconcile" /\ task.pc = "compare" /\ task.manifest = manifest
      /\ task.live = live /\ task.first = live /\ task.todo = DOMAIN manifest /\ task.drift = {} /\ task.edited = FALSE
  BY DEF ReconcileTask, Fields, ReconcileFields
<1>2. DriftOf(manifest, live) \ DOMAIN manifest = {}
  BY DEF DriftOf
<1>3. DOMAIN live = DOMAIN manifest /\ live = [r \in DOMAIN live |-> live[r]]
  BY DEF ReconcileInputs
<1>4. Kept(manifest) \subseteq DOMAIN manifest
  BY DEF Kept
<1> QED BY <1>1, <1>2, <1>3, <1>4 DEF ReconcileInv, ReconcileShape, UntilApplied, AsItWas, KeptAlone, ClosedAll, Untouched

(* Adopt has fetched nothing yet.                                          *)
LEMMA AdoptBegins ==
  ASSUME NEW refs, NEW live, NEW exists \in BOOLEAN, AdoptInputs(refs, live), task = AdoptTask(refs, live, exists)
  PROVE  AdoptInv
<1>1. /\ Fields(task, AdoptFields) /\ task.kind = "adopt" /\ task.refs = refs /\ task.live = live /\ task.at = 1
      /\ task.docs = <<>> /\ task.stored = (IF exists THEN "another" ELSE "none") /\ task.had = exists
  BY DEF AdoptTask, Fields, AdoptFields
<1>2. Len(refs) \in Nat
  BY DEF AdoptInputs
<1>3. task.docs \in Seq(Range(task.docs)) /\ Len(task.docs) = 0
  BY <1>1
<1> QED BY <1>1, <1>2, <1>3 DEF AdoptInv

(* DriftAgainstManifest, of one resource: it is as it was at first, so     *)
(* that it has drifted exactly if it had.                                  *)
LEMMA CompareStep ==
  ASSUME ReconcileInv, Compare
  PROVE  ReconcileInv'
<1>1. PICK r \in task.todo :
         \/ task' = [task EXCEPT !.todo = @ \ {r},
                                 !.drift = IF r \in DriftOf(task.manifest, task.live) THEN @ \cup {r} ELSE @]
         \/ task' = [task EXCEPT !.pc = "error"]
  BY DEF Compare
<1>2. Fields(task, ReconcileFields) /\ task.pc = "compare"
  BY DEF ReconcileInv, ReconcileShape, Compare
<1>3. CASE task' = [task EXCEPT !.pc = "error"]
  <2>1. /\ Fields(task', ReconcileFields) /\ task'.kind = task.kind /\ task'.pc = "error" /\ task'.manifest = task.manifest
        /\ task'.live = task.live /\ task'.first = task.first /\ task'.todo = task.todo /\ task'.drift = task.drift
        /\ task'.edited = task.edited
    BY <1>2, <1>3 DEF Fields, ReconcileFields
  <2> QED BY <2>1 DEF ReconcileInv, ReconcileShape, UntilApplied, AsItWas, KeptAlone, ClosedAll, Untouched
<1>4. CASE task' = [task EXCEPT !.todo = @ \ {r},
                                !.drift = IF r \in DriftOf(task.manifest, task.live) THEN @ \cup {r} ELSE @]
  <2>1. /\ Fields(task', ReconcileFields) /\ task'.kind = task.kind /\ task'.pc = task.pc /\ task'.manifest = task.manifest
        /\ task'.live = task.live /\ task'.first = task.first /\ task'.todo = task.todo \ {r} /\ task'.edited = task.edited
        /\ task'.drift = IF r \in DriftOf(task.manifest, task.live) THEN task.drift \cup {r} ELSE task.drift
    BY <1>2, <1>4 DEF Fields, ReconcileFields
  <2>2. r \in DriftOf(task.manifest, task.live) <=> r \in DriftOf(task.manifest, task.first)
    <3>1. CASE r \in DOMAIN task.manifest
      <4>1. task.live[r] = task.first[r]
        BY <1>1, <1>2, <3>1 DEF ReconcileInv, UntilApplied, AsItWas
      <4> QED BY <4>1 DEF DriftOf
    <3>2. CASE r \notin DOMAIN task.manifest
      BY <3>2 DEF DriftOf
    <3> QED BY <3>1, <3>2
  <2>3. task'.drift = DriftOf(task.manifest, task.first) \ task'.todo
    BY <1>1, <2>1, <2>2 DEF ReconcileInv, ReconcileShape
  <2> QED BY <1>2, <2>1, <2>3 DEF ReconcileInv, ReconcileShape, UntilApplied, AsItWas, KeptAlone, ClosedAll, Untouched
<1> QED BY <1>1, <1>3, <1>4

(* Reconcile applies what is not to be kept, all of it or some.            *)
LEMMA ConvergeStep ==
  ASSUME ReconcileInv, Converge
  PROVE  ReconcileInv'
<1>1. Fields(task, ReconcileFields) /\ task.pc = "compare" /\ task.todo = {}
  BY DEF ReconcileInv, ReconcileShape, Converge
<1>2. /\ DOMAIN task.live = DOMAIN task.manifest /\ DOMAIN task.first = DOMAIN task.manifest
      /\ task.live = [r \in DOMAIN task.live |-> task.live[r]] /\ task.first = [r \in DOMAIN task.first |-> task.first[r]]
      /\ Kept(task.manifest) \subseteq DOMAIN task.manifest
  BY DEF ReconcileInv, ReconcileShape, ReconcileInputs, Kept
<1>3. \A r \in DOMAIN task.manifest : /\ ObjectIs(task.manifest[r]) /\ task.manifest[r].status # Missing.status
                                      /\ ObjectIs(task.live[r])
  <2>1. ObjectIs(Missing)
    BY DEF ObjectIs, Missing, BodyIs
  <2> QED BY <1>1, <1>2, <2>1 DEF ReconcileInv, ReconcileShape, ReconcileInputs, UntilApplied, AsItWas
<1>4. CASE task.drift = {} /\ task' = [task EXCEPT !.pc = "ok"]
  <2>1. /\ Fields(task', ReconcileFields) /\ task'.kind = task.kind /\ task'.pc = "ok" /\ task'.manifest = task.manifest
        /\ task'.live = task.live /\ task'.first = task.first /\ task'.todo = task.todo /\ task'.drift = task.drift
        /\ task'.edited = task.edited
    BY <1>1, <1>4 DEF Fields, ReconcileFields
  <2>2. ~task.edited => task.live = task.first
    BY <1>1, <1>2 DEF ReconcileInv, UntilApplied, AsItWas
  <2> QED BY <1>4, <2>1, <2>2 DEF ReconcileInv, ReconcileShape, UntilApplied, AsItWas, KeptAlone, ClosedAll, Untouched
<1>5. ASSUME NEW done \in SUBSET (DOMAIN task.manifest \ Kept(task.manifest)), NEW pc \in {"ok", "error"}, task.drift # {},
             pc = "ok" => done = DOMAIN task.manifest \ Kept(task.manifest),
             task' = [task EXCEPT !.pc = pc,
                        !.live = [r \in DOMAIN @ |-> IF r \in done THEN Applied(task.manifest[r], @[r]) ELSE @[r]]]
      PROVE  ReconcileInv'
  <2> DEFINE live == [r \in DOMAIN task.live |-> IF r \in done THEN Applied(task.manifest[r], task.live[r]) ELSE task.live[r]]
  <2>1. /\ Fields(task', ReconcileFields) /\ task'.kind = task.kind /\ task'.pc = pc /\ task'.manifest = task.manifest
        /\ task'.live = live /\ task'.first = task.first /\ task'.todo = task.todo /\ task'.drift = task.drift
        /\ task'.edited = task.edited
    BY <1>1, <1>5 DEF Fields, ReconcileFields
  <2>2. DOMAIN live = DOMAIN task.manifest /\ live = [r \in DOMAIN live |-> live[r]]
    BY <1>2
  <2>3. \A r \in Kept(task.manifest) : live[r] = task.live[r]
    BY <1>2
  <2>4. \A r \in done : /\ Closed(task.manifest[r], task.live[r], live[r])
                        /\ task.live[r] # Missing => \A p \in DOMAIN task.live[r].spec : Len(p) = 1 => p \in DOMAIN live[r].spec
    BY <1>2, <1>3, AppliedFits
  <2> HIDE DEF live
  <2>5. ReconcileShape'
    BY <1>5, <2>1, <2>2 DEF ReconcileInv, ReconcileShape
  <2>6. KeptAlone'
    BY <2>1, <2>3 DEF ReconcileInv, KeptAlone, AsItWas
  <2>7. ClosedAll'
    <3> SUFFICES ASSUME pc = "ok", NEW r \in DOMAIN task.manifest \ Kept(task.manifest)
                 PROVE  /\ Closed(task.manifest[r], task.first[r], live[r])
                        /\ task.first[r] # Missing /\ ~task.edited =>
                              \A p \in DOMAIN task.first[r].spec : Len(p) = 1 => p \in DOMAIN live[r].spec
      BY <2>1 DEF ClosedAll
    <3>1. r \in done
      BY <1>5
    <3>2. CASE task.live[r] = task.first[r]
      BY <2>4, <3>1, <3>2
    <3>3. CASE task.live[r] = Missing /\ task.edited
      <4>1. Closed(task.manifest[r], Missing, live[r])
        BY <2>4, <3>1, <3>3
      <4>2. Lengthened(task.manifest[r].spec, Missing.spec) = {} /\ Lengthened(task.manifest[r].meta, Missing.meta) = {}
        BY DEF Lengthened, Missing
      <4>3. Closed(task.manifest[r], task.first[r], live[r])
        BY <4>1, <4>2 DEF Closed
      <4> QED BY <3>3, <4>3
    <3> QED BY <1>1, <3>2, <3>3 DEF ReconcileInv, UntilApplied, AsItWas
  <2>8. UntilApplied' /\ Untouched'
    BY <1>5, <2>1 DEF UntilApplied, Untouched
  <2> QED BY <2>5, <2>6, <2>7, <2>8 DEF ReconcileInv
<1>6. CASE /\ task.drift # {}
           /\ task' = [task EXCEPT !.pc = "ok", !.live = [r \in DOMAIN @ |-> IF r \in Kept(task.manifest) THEN @[r]
                                                                             ELSE Applied(task.manifest[r], @[r])]]
  <2> DEFINE done == DOMAIN task.manifest \ Kept(task.manifest)
  <2>1. [r \in DOMAIN task.live |-> IF r \in Kept(task.manifest) THEN task.live[r] ELSE Applied(task.manifest[r], task.live[r])]
        = [r \in DOMAIN task.live |-> IF r \in done THEN Applied(task.manifest[r], task.live[r]) ELSE task.live[r]]
    BY <1>2
  <2>2. task' = [task EXCEPT !.pc = "ok",
                   !.live = [r \in DOMAIN @ |-> IF r \in done THEN Applied(task.manifest[r], @[r]) ELSE @[r]]]
    BY <1>6, <2>1
  <2> HIDE DEF done
  <2>3. done \in SUBSET (DOMAIN task.manifest \ Kept(task.manifest)) /\ done = DOMAIN task.manifest \ Kept(task.manifest)
    BY DEF done
  <2> QED BY <1>5, <1>6, <2>2, <2>3
<1>7. CASE /\ task.drift # {}
           /\ \E done \in SUBSET (DOMAIN task.manifest \ Kept(task.manifest)) :
                task' = [task EXCEPT !.pc = "error",
                           !.live = [r \in DOMAIN @ |-> IF r \in done THEN Applied(task.manifest[r], @[r]) ELSE @[r]]]
  BY <1>5, <1>7
<1> QED BY <1>4, <1>6, <1>7 DEF Converge

(* Somebody deletes what was compared.                                     *)
LEMMA EditLiveStep ==
  ASSUME ReconcileInv, EditLive
  PROVE  ReconcileInv'
<1>1. PICK r \in DOMAIN task.manifest \ task.todo : task' = [task EXCEPT !.edited = TRUE, !.live[r] = Missing]
  BY DEF EditLive
<1>2. Fields(task, ReconcileFields) /\ task.pc = "compare" /\ DOMAIN task.live = DOMAIN task.manifest
  BY DEF ReconcileInv, ReconcileShape, EditLive
<1> DEFINE live == [task.live EXCEPT ![r] = Missing]
<1>3. /\ Fields(task', ReconcileFields) /\ task'.kind = task.kind /\ task'.pc = task.pc /\ task'.manifest = task.manifest
      /\ task'.live = live /\ task'.first = task.first /\ task'.todo = task.todo /\ task'.drift = task.drift
      /\ task'.edited = TRUE
  BY <1>1, <1>2 DEF Fields, ReconcileFields
<1>4. DOMAIN live = DOMAIN task.manifest /\ live = [q \in DOMAIN live |-> live[q]]
  BY <1>2
<1>5. \A q \in DOMAIN task.manifest : live[q] = IF q = r THEN Missing ELSE task.live[q]
  BY <1>2
<1> HIDE DEF live
<1>6. Kept(task.manifest) \subseteq DOMAIN task.manifest
  BY DEF Kept
<1>7. ReconcileShape'
  BY <1>3, <1>4 DEF ReconcileInv, ReconcileShape
<1>8. UntilApplied'
  BY <1>1, <1>2, <1>3, <1>5 DEF ReconcileInv, UntilApplied, AsItWas
<1>9. KeptAlone' /\ ClosedAll' /\ Untouched'
  BY <1>2, <1>3, <1>5, <1>6 DEF ReconcileInv, KeptAlone, AsItWas, ClosedAll, Untouched
<1> QED BY <1>7, <1>8, <1>9 DEF ReconcileInv

(* Adopt, one step: the objects named are fetched one after the other, and *)
(* a record is created only where there is none.                           *)
LEMMA AdoptStep ==
  ASSUME AdoptInv, AdoptBegin \/ AdoptFetch \/ AdoptStore \/ OtherInstalls
  PROVE  AdoptInv'
<1>1. Fields(task, AdoptFields) /\ Len(task.refs) \in Nat /\ Len(task.docs) \in Nat /\ task.at \in Nat
  BY DEF AdoptInv, AdoptInputs
<1>2. ASSUME NEW pc, task' = [task EXCEPT !.pc = pc] PROVE AdoptInv'
  <2>1. /\ Fields(task', AdoptFields) /\ task'.kind = task.kind /\ task'.refs = task.refs /\ task'.live = task.live
        /\ task'.at = task.at /\ task'.docs = task.docs /\ task'.stored = task.stored /\ task'.had = task.had
    BY <1>1, <1>2 DEF Fields, AdoptFields
  <2> QED BY <2>1 DEF AdoptInv
<1>3. ASSUME NEW stored, NEW had, NEW pc, task' = [task EXCEPT !.pc = pc, !.stored = stored, !.had = had],
             stored = "adopted" => task.at > Len(task.refs), had => stored = "another"
      PROVE  AdoptInv'
  <2>1. /\ Fields(task', AdoptFields) /\ task'.kind = task.kind /\ task'.refs = task.refs /\ task'.live = task.live
        /\ task'.at = task.at /\ task'.docs = task.docs /\ task'.stored = stored /\ task'.had = had
    BY <1>1, <1>3 DEF Fields, AdoptFields
  <2> QED BY <1>3, <2>1 DEF AdoptInv
<1>4. CASE AdoptBegin
  BY <1>2, <1>4 DEF AdoptBegin
<1>5. CASE AdoptFetch
  <2> DEFINE doc == [task.live[task.refs[task.at]] EXCEPT !.status = "none"]
  <2>1. CASE task' = [task EXCEPT !.pc = "error"]
    BY <1>2, <2>1
  <2>2. CASE task' = [task EXCEPT !.at = @ + 1, !.docs = Append(@, doc)]
    <3>1. /\ Fields(task', AdoptFields) /\ task'.kind = task.kind /\ task'.refs = task.refs /\ task'.live = task.live
          /\ task'.at = task.at + 1 /\ task'.docs = Append(task.docs, doc) /\ task'.stored = task.stored
          /\ task'.had = task.had
      BY <1>1, <2>2 DEF Fields, AdoptFields
    <3>2. task.docs \in Seq(Range(task.docs)) /\ Len(task.docs) = task.at - 1 /\ task.at <= Len(task.refs) /\ task.at >= 1
      BY <1>5 DEF AdoptInv, AdoptFetch
    <3> HIDE DEF doc
    <3>3. /\ Append(task.docs, doc) \in Seq(Range(task.docs) \cup {doc}) /\ Len(Append(task.docs, doc)) = task.at
          /\ \A i \in 1 .. Len(task.docs) : Append(task.docs, doc)[i] = task.docs[i]
          /\ Append(task.docs, doc)[task.at] = doc
      <4>1. task.docs \in Seq(Range(task.docs) \cup {doc})
        BY <3>2
      <4> QED BY <1>1, <3>2, <4>1
    <3>4. Append(task.docs, doc) \in Seq(Range(Append(task.docs, doc)))
      BY <3>3 DEF Range
    <3>5. \A i \in 1 .. task.at : Append(task.docs, doc)[i] = [task.live[task.refs[i]] EXCEPT !.status = "none"]
      <4>1. \A i \in 1 .. task.at : i \in 1 .. Len(task.docs) \/ i = task.at
        BY <1>1, <3>2
      <4> QED BY <3>3, <4>1 DEF AdoptInv, doc
    <3>6. task.stored # "adopted"
      BY <1>1, <3>2 DEF AdoptInv
    <3>7. task'.at \in 1 .. Len(task'.refs) + 1 /\ Len(task'.docs) = task'.at - 1
      BY <1>1, <3>1, <3>2, <3>3
    <3>8. task'.docs \in Seq(Range(task'.docs)) /\ (task'.stored = "adopted" => task'.at > Len(task'.refs))
      BY <3>1, <3>4, <3>6
    <3>9. \A i \in 1 .. Len(task'.docs) : task'.docs[i] = [task'.live[task'.refs[i]] EXCEPT !.status = "none"]
      BY <1>1, <3>1, <3>3, <3>5
    <3>10. task'.kind = "adopt" /\ AdoptInputs(task'.refs, task'.live) /\ (task'.had => task'.stored = "another")
      BY <3>1 DEF AdoptInv
    <3> QED BY <3>1, <3>7, <3>8, <3>9, <3>10 DEF AdoptInv
  <2> QED BY <1>5, <2>1, <2>2 DEF AdoptFetch
<1>6. CASE AdoptStore
  <2>1. task.at > Len(task.refs) /\ (task.had => task.stored = "another")
    BY <1>6 DEF AdoptStore, AdoptInv
  <2>2. ASSUME NEW pc, NEW stored, task' = [task EXCEPT !.pc = pc, !.stored = stored],
               stored \in {task.stored, IF task.stored = "none" THEN "adopted" ELSE task.stored}
        PROVE  AdoptInv'
    <3>1. task' = [task EXCEPT !.pc = pc, !.stored = stored, !.had = task.had]
      BY <1>1, <2>2 DEF Fields, AdoptFields
    <3>2. task.had => stored = "another"
      BY <2>1, <2>2
    <3>3. stored = "adopted" => task.at > Len(task.refs)
      BY <2>1
    <3> QED BY <1>3, <3>1, <3>2, <3>3
  <2> QED BY <1>2, <1>6, <2>2 DEF AdoptStore
<1>7. CASE OtherInstalls
  <2>1. task' = [task EXCEPT !.pc = task.pc, !.stored = "another", !.had = TRUE]
    BY <1>1, <1>7 DEF OtherInstalls, Fields, AdoptFields
  <2> QED BY <1>3, <2>1
<1> QED BY <1>4, <1>5, <1>6, <1>7

(* The invariant is enough.                                                *)
LEMMA DriftPromise ==
  ASSUME DriftInv
  PROVE  task.kind \in {"reconcile", "adopt"} /\ DriftCloses
<1>1. CASE ReconcileInv
  <2>1. task.kind = "reconcile" /\ task.drift = DriftOf(task.manifest, task.first) \ task.todo
    BY <1>1 DEF ReconcileInv, ReconcileShape
  <2>2. task.pc = "ok" /\ task.drift # {} =>
          \A r \in DOMAIN task.manifest \ Kept(task.manifest) : Closed(task.manifest[r], task.first[r], task.live[r])
    BY <1>1 DEF ReconcileInv, ClosedAll
  <2>3. ASSUME task.pc = "ok", task.drift # {}, NEW r \in DOMAIN task.manifest \ Kept(task.manifest),
               task.first[r] # Missing, ~task.edited
        PROVE  {p \in DOMAIN task.first[r].spec : Len(p) = 1} \subseteq DOMAIN task.live[r].spec
    BY <1>1, <2>3 DEF ReconcileInv, ClosedAll
  <2>4. ASSUME NEW r \in DOMAIN task.manifest,
               ClusterDrift(task.manifest[r], task.manifest[r], Looked(task.manifest[r], task.first[r])) # {}
        PROVE  r \in DriftOf(task.manifest, task.first)
    <3>1. ObjectIs(task.manifest[r]) /\ ObjectIs(task.first[r])
      BY <1>1 DEF ReconcileInv, ReconcileShape, ReconcileInputs
    <3>2. CASE task.manifest[r].cluster
      BY <3>2 DEF DriftOf, Looked
    <3>3. CASE ~task.manifest[r].cluster
      <4>1. CompareSpec(task.manifest[r], task.first[r]) # {}
        BY <2>4, <3>1, <3>3, TagIsDrift DEF Looked
      <4> QED BY <3>3, <4>1 DEF DriftOf, Looked
    <3> QED BY <3>2, <3>3
  <2>5. \A r \in Kept(task.manifest) : task.live[r] # Missing => task.live[r] = task.first[r]
    BY <1>1 DEF ReconcileInv, KeptAlone, AsItWas
  <2>6. task.pc = "ok" /\ task.drift = {} /\ ~task.edited => task.live = task.first
    BY <1>1 DEF ReconcileInv, Untouched
  <2> QED BY <2>1, <2>2, <2>3, <2>4, <2>5, <2>6 DEF DriftCloses
<1>2. CASE AdoptInv
  <2>1. task.kind = "adopt" /\ (task.had => task.stored = "another")
    BY <1>2 DEF AdoptInv
  <2>2. task.stored = "adopted" => Len(task.docs) = Len(task.refs)
    BY <1>2 DEF AdoptInv, AdoptInputs
  <2>3. ASSUME NEW i \in DOMAIN task.docs PROVE CompareSpec(task.docs[i], task.live[task.refs[i]]) = {}
    <3>1. i \in 1 .. Len(task.docs) /\ i \in 1 .. Len(task.refs)
      BY <1>2 DEF AdoptInv, AdoptInputs
    <3>2. task.refs[i] \in DOMAIN task.live
      BY <1>2, <3>1 DEF AdoptInv, AdoptInputs
    <3>3. ObjectIs(task.live[task.refs[i]])
      BY <1>2, <3>2 DEF AdoptInv, AdoptInputs
    <3>4. /\ task.docs[i].spec = task.live[task.refs[i]].spec /\ task.docs[i].meta = task.live[task.refs[i]].meta
      BY <1>2, <3>1, <3>3 DEF AdoptInv, ObjectIs
    <3> QED BY <3>4, SameBody DEF CompareSpec
  <2> QED BY <2>1, <2>2, <2>3 DEF DriftCloses
<1> QED BY <1>1, <1>2 DEF DriftInv

(* Reconcile and Adopt, for any objects and bodies, whoever edits them     *)
(* meanwhile and whichever calls fail: what drifted is reported, what was  *)
(* applied does not drift, and what is adopted is what is there.           *)
THEOREM DriftIsClosed == DriftSpec => [](task.kind \in {"reconcile", "adopt"} /\ DriftCloses)
<1>1. DriftSpec => DriftInv
  BY DriftBegins, AdoptBegins DEF DriftSpec, DriftInv
<1>2. DriftInv /\ [DriftStep]_taskVars => DriftInv'
  <2> SUFFICES ASSUME DriftInv, [DriftStep]_taskVars PROVE DriftInv'
    OBVIOUS
  <2>1. CASE ReconcileInv
    <3>1. task.kind = "reconcile"
      BY <2>1 DEF ReconcileInv, ReconcileShape
    <3>2. CASE DriftStep
      <4>1. Compare \/ Converge \/ EditLive
        BY <3>1, <3>2 DEF DriftStep, AdoptBegin, AdoptFetch, AdoptStore, OtherInstalls
      <4> QED BY <2>1, <4>1, CompareStep, ConvergeStep, EditLiveStep DEF DriftInv
    <3>3. CASE UNCHANGED taskVars
      <4>1. task' = task
        BY <3>3 DEF taskVars
      <4>2. ReconcileInv'
        BY <2>1, <4>1 DEF ReconcileInv, ReconcileShape, UntilApplied, AsItWas, KeptAlone, ClosedAll, Untouched
      <4> QED BY <4>2 DEF DriftInv
    <3> QED BY <3>2, <3>3
  <2>2. CASE AdoptInv
    <3>1. task.kind = "adopt"
      BY <2>2 DEF AdoptInv
    <3>2. CASE DriftStep
      <4>1. AdoptBegin \/ AdoptFetch \/ AdoptStore \/ OtherInstalls
        BY <3>1, <3>2 DEF DriftStep, Compare, Converge, EditLive
      <4> QED BY <2>2, <4>1, AdoptStep DEF DriftInv
    <3>3. CASE UNCHANGED taskVars
      <4>1. task' = task
        BY <3>3 DEF taskVars
      <4>2. AdoptInv'
        BY <2>2, <4>1 DEF AdoptInv
      <4> QED BY <4>2 DEF DriftInv
    <3> QED BY <3>2, <3>3
  <2> QED BY <2>1, <2>2 DEF DriftInv
<1>3. DriftInv => task.kind \in {"reconcile", "adopt"} /\ DriftCloses
  BY DriftPromise
<1>4. DriftSpec => []DriftInv
  <2>1. DriftInv /\ [DriftStep]_taskVars => DriftInv'
    BY <1>2
  <2> QED BY <1>1, <2>1, PTL DEF DriftSpec
<1> QED BY <1>3, <1>4, PTL
=============================================================================
