----------------------------- MODULE Templates ------------------------------
(***************************************************************************)
(* The template engine (internal/engine): a document of a template file is *)
(* rendered in four passes: includes, control flow, substitution, removal  *)
(* of the directives.                                                      *)
(*                                                                         *)
(* Documents are the trees of Values with two more nodes: a string that     *)
(* holds expressions, and the sentinel of what is to be left out.  A       *)
(* string is the sequence of its parts; an expression is its parsed        *)
(* pipeline.                                                               *)
(***************************************************************************)
EXTENDS Schema

CONSTANT MaxDocNesting        \* maxDocNestingDepth
ASSUME DocNestingAssumption == MaxDocNesting \in Nat

Nil == Leaf("null")
Omit == [t |-> "omit"]
Fail == [t |-> "fail"]

Expr(head, calls) == [t |-> "expr", head |-> head, calls |-> calls]    \* ${head | call | ...}
Escaped(e) == [t |-> "escaped", e |-> e]                               \* $${...}
PartsOf(x) == IF x.t = "string" THEN x.parts ELSE <<x>>
String(parts) == [t |-> "string", parts |-> FlattenSeq([i \in DOMAIN parts |-> PartsOf(parts[i])])]
PathTo(p) == [t |-> "path", p |-> p]
Call(fn, arg) == [fn |-> fn, arg |-> arg]

Directives == {"$if", "$then", "$else", "$each", "$as", "$yield", "$switch", "$cases", "$default", "$include",
               "$merge", "$text", "$let", "$in", "$join", "$indent", "$item", "$key", "$value", "$hook"}

(* A map or a list of results: one failure fails it, what is left out is   *)
(* not there.                                                              *)
MapFrom(f) ==
    IF \E k \in DOMAIN f : f[k] = Fail THEN Fail
    ELSE LET keys == {k \in DOMAIN f : f[k] # Omit} IN MapOf(IF keys = {} THEN <<>> ELSE [k \in keys |-> f[k]])
ListFrom(s) ==
    IF Fail \in ToSet(s) THEN Fail ELSE ListOf(SelectSeq(s, LAMBDA x : x # Omit))
Overlay(m, n) == [k \in KeysOf(m) \cup KeysOf(n) |-> IF k \in KeysOf(n) THEN n[k] ELSE m[k]]

-----------------------------------------------------------------------------
(* resolvePath, lookupPath: what is not there is nil, what is below a      *)
(* scalar an error.                                                        *)
RECURSIVE LookUp(_, _)
LookUp(x, p) ==
    IF p = <<>> THEN x
    ELSE CASE x.t = "map" -> IF p[1] \in KeysOf(x.m) THEN LookUp(x.m[p[1]], Tail(p)) ELSE Nil
           [] x.t = "list" -> IF ~IsInt(p[1]) THEN Fail
                              ELSE IF IndexOf[p[1]] + 1 \in DOMAIN x.l THEN LookUp(x.l[IndexOf[p[1]] + 1], Tail(p)) ELSE Nil
           [] OTHER -> IF x = Nil THEN Nil ELSE Fail
ResolvePath(p, vals) == LookUp(MapOf(vals), IF p[1] = "values" THEN Tail(p) ELSE p)

(* isEmpty, isTruthy                                                       *)
EmptyValue(x) == x \in {Nil, Leaf(""), Leaf("false"), Leaf("0"), NoFields, ListOf(<<>>), String(<<>>)}
Truthy0(x) == ~EmptyValue(x) /\ x # Leaf("no")

(* EvaluateExpression, resolveArg: the functions applied from left to      *)
(* right; nothing is done to what is left out.                             *)
Arg(a, vals) == IF a.t = "path" THEN ResolvePath(a.p, vals) ELSE a
ApplyFn(x, c, vals) ==
    IF x \in {Omit, Fail} THEN x
    ELSE IF Arg(c.arg, vals) = Fail THEN Fail
    ELSE CASE c.fn = "default" -> IF EmptyValue(x) THEN Arg(c.arg, vals) ELSE x
           [] c.fn = "required" -> IF EmptyValue(x) THEN Fail ELSE x
           [] c.fn = "omitempty" -> IF EmptyValue(x) THEN Omit ELSE x
           [] OTHER -> Fail
Evaluate(e, vals) == FoldLeft(LAMBDA x, c : ApplyFn(x, c, vals), Arg(e.head, vals), e.calls)

(* substituteString: a single expression keeps its type, others are put    *)
(* into the text, and an escape becomes the text of an expression.         *)
Substitute1(x, vals) ==
    IF x.t # "string" THEN x
    ELSE IF Len(x.parts) = 1 /\ x.parts[1].t = "expr" THEN Evaluate(x.parts[1], vals)
    ELSE LET part(p) == CASE p.t = "expr" -> Evaluate(p, vals) [] p.t = "escaped" -> p.e [] OTHER -> p
             parts == [i \in DOMAIN x.parts |-> part(x.parts[i])]
         IN IF Fail \in ToSet(parts) THEN Fail ELSE String(SelectSeq(parts, LAMBDA p : p # Omit))

(* SubstituteAll                                                           *)
RECURSIVE SubstituteAll(_, _)
SubstituteAll(x, vals) ==
    CASE x.t = "map" -> MapFrom([k \in KeysOf(x.m) |-> SubstituteAll(x.m[k], vals)])
      [] x.t = "list" -> ListFrom([i \in DOMAIN x.l |-> SubstituteAll(x.l[i], vals)])
      [] OTHER -> Substitute1(x, vals)

-----------------------------------------------------------------------------
(* ResolveIncludes: the keys beside $include are put over the partial, as  *)
(* they are.                                                               *)
RECURSIVE Include(_, _, _)
Include(x, partials, open) ==
    CASE x.t = "list" -> ListFrom([i \in DOMAIN x.l |-> Include(x.l[i], partials, open)])
      [] x.t = "map" /\ "$include" \notin KeysOf(x.m) -> MapFrom([k \in KeysOf(x.m) |-> Include(x.m[k], partials, open)])
      [] x.t = "map" /\ "$include" \in KeysOf(x.m) ->
           LET name == Text(x.m["$include"])
               partial == IF name \in open \/ name \notin DOMAIN partials THEN Fail
                          ELSE Include(partials[name], partials, open \cup {name})
           IN IF partial.t # "map" THEN partial
              ELSE MapOf(Overlay(partial.m, [k \in KeysOf(x.m) \ {"$include"} |-> x.m[k]]))
      [] OTHER -> x

ScopeWith(vals, name, x) == Overlay(vals, [k \in {name} |-> x])
(* sort.Strings of the keys there are.                                     *)
Alphabet == <<"a", "b", "item", "n", "x", "y", "z">>
KeyRank(k) == CHOOSE i \in DOMAIN Alphabet : Alphabet[i] = k
Pairs(m) == LET keys == SetToSortSeq(KeysOf(m), LAMBDA k, l : KeyRank(k) < KeyRank(l))
            IN [i \in DOMAIN keys |-> [key |-> keys[i], value |-> m[keys[i]]]]

(* applyMerge: maps over the keys of the node, in order.                   *)
RECURSIVE MergeInto(_, _, _)
MergeInto(dst, x, vals) ==
    LET r == Substitute1(x, vals) IN
    IF dst = Fail \/ r = Fail THEN Fail
    ELSE CASE r \in {Nil, Leaf("")} -> dst
           [] r.t = "map" -> MapOf(Overlay(dst.m, r.m))
           [] r.t = "list" -> FoldLeft(LAMBDA d, y : IF y = Nil THEN d ELSE MergeInto(d, y, vals), dst, r.l)
           [] OTHER -> Fail
(* soleMerge, mergeList                                                    *)
SoleMerge(x, vals) ==
    LET r == Substitute1(x, vals) IN
    CASE r \in {Nil, Leaf("")} -> Omit
      [] r.t = "list" ->
           LET items == [i \in DOMAIN r.l |-> Substitute1(r.l[i], vals)]
               maps == SelectSeq(items, IsMap)
               rest == FlattenSeq([i \in DOMAIN items |-> CASE items[i].t = "list" -> items[i].l
                                                           [] items[i].t = "map" \/ items[i] \in {Nil, Omit} -> <<>>
                                                           [] OTHER -> <<items[i]>>])
           IN IF Fail \in ToSet(items) THEN Fail
              ELSE IF rest # <<>> /\ \A i \in DOMAIN maps : maps[i] = NoFields THEN ListOf(rest)
              ELSE MapOf(FoldLeft(LAMBDA d, y : Overlay(d, y.m), <<>>, maps))
      [] OTHER -> r
(* spliceMerge                                                             *)
Splice(x, vals) ==
    LET r == Substitute1(x, vals) IN
    IF r.t = "list" THEN SelectSeq(r.l, LAMBDA y : y # Nil) ELSE IF r = Nil THEN <<>> ELSE <<r>>

(* eachOverList, eachOverMap: what a yield contributes.                    *)
Yielded(x) == IF x = Omit THEN <<>> ELSE IF x.t = "list" THEN x.l ELSE <<x>>
(* Mutant: the yield is substituted later, with the rest of the document.  *)
LeftToTheEnd(x, vals) == x
(* A scope's body is substituted while its names are there.                *)
BodyInScope(x, vals) == IF x \in {Omit, Fail} THEN x ELSE SubstituteAll(x, vals)

(* ProcessControlFlow, a directive at a time.                              *)
Dollar(name) == "$" \o name
RECURSIVE Control(_, _)
RECURSIVE Lines(_)
Lines(x) ==
    IF x.t = "list" THEN FlattenSeq([i \in DOMAIN x.l |-> Lines(x.l[i])]) ELSE IF x \in {Nil, Omit} THEN <<>> ELSE <<x>>
ControlText(m, vals) ==
    LET body == BodyInScope(Control(m["$text"], vals), vals)
        width == IF "$indent" \in KeysOf(m) THEN Substitute1(m["$indent"], vals) ELSE Leaf("0")
    IN IF body = Fail \/ ~IsNumber(width) \/ \E i \in DOMAIN Lines(body) : Lines(body)[i].t = "map" THEN Fail
       ELSE String(Lines(body))
ControlLet(m, vals) ==
    IF m["$let"].t # "map" \/ "$in" \notin KeysOf(m) THEN Fail
    ELSE LET bind(s, p) ==
               LET x == IF s = Fail THEN Fail ELSE BodyInScope(Control(p.value, s.m), s.m)
                   v == IF x = Omit THEN Nil ELSE x
               IN IF x = Fail THEN Fail ELSE MapOf(ScopeWith(ScopeWith(s.m, p.key, v), Dollar(p.key), v))
             scope == FoldLeft(bind, MapOf(vals), Pairs(m["$let"].m))
         IN IF scope = Fail THEN Fail ELSE BodyInScope(Control(m["$in"], scope.m), scope.m)
ControlIf(m, vals) ==
    LET c == Substitute1(m["$if"], vals) IN
    CASE c = Fail -> Fail
      [] c # Fail /\ "$then" \in KeysOf(m) ->
           IF Truthy0(c) THEN Control(m["$then"], vals)
           ELSE IF "$else" \in KeysOf(m) THEN Control(m["$else"], vals) ELSE Omit
      [] OTHER -> IF ~Truthy0(c) THEN Omit ELSE MapFrom([k \in KeysOf(m) \ {"$if"} |-> Control(m[k], vals)])
ControlEach(m, vals) ==
    LET c == Substitute1(m["$each"], vals)
        as == IF "$as" \in KeysOf(m) THEN Text(m["$as"]) ELSE "$item"
        yield(scope) == BodyInScope(Control(m["$yield"], scope), scope)
        over(scopes) == LET all == [i \in DOMAIN scopes |-> yield(scopes[i])]
                        IN IF Fail \in ToSet(all) THEN Fail ELSE ListOf(FlattenSeq([i \in DOMAIN all |-> Yielded(all[i])]))
    IN CASE c = Fail \/ "$yield" \notin KeysOf(m) -> Fail
         [] c.t = "list" -> over([i \in DOMAIN c.l |-> ScopeWith(vals, as, c.l[i])])
         [] c.t = "map" -> over([i \in DOMAIN Pairs(c.m) |->
                LET p == Pairs(c.m)[i]
                IN ScopeWith(ScopeWith(ScopeWith(vals, as, MapOf([key |-> Leaf(p.key), value |-> p.value])), "$key", Leaf(p.key)),
                          "$value", p.value)])
         [] c = Nil -> Omit
         [] OTHER -> Fail
ControlSwitch(m, vals) ==
    LET c == Substitute1(m["$switch"], vals) IN
    IF c = Fail \/ Under(m, "$cases").t # "map" \/ "$cases" \notin KeysOf(m) THEN Fail
    ELSE IF c.t = "leaf" /\ c.v \in KeysOf(m["$cases"].m) THEN Control(m["$cases"].m[c.v], vals)
    ELSE IF "$default" \in KeysOf(m) THEN Control(m["$default"], vals) ELSE Omit
ControlKeys(m, vals) ==
    LET all == MapFrom([k \in KeysOf(m) |-> Control(m[k], vals)])
        own == IF all = Fail THEN <<>> ELSE [k \in KeysOf(all.m) \ {"$merge"} |-> all.m[k]]
    IN IF all = Fail \/ "$merge" \notin KeysOf(all.m) THEN all
       ELSE IF all.m["$merge"] = Nil THEN MapOf(own)
       ELSE IF KeysOf(own) = {} THEN SoleMerge(all.m["$merge"], vals)
       ELSE MergeInto(MapOf(own), all.m["$merge"], vals)
ControlList(l, vals) ==
    LET spliced(x) == x.t = "map" /\ KeysOf(x.m) = {"$merge"}
        all == [i \in DOMAIN l |-> Control(IF spliced(l[i]) THEN l[i].m["$merge"] ELSE l[i], vals)]
        item(i) == IF all[i] = Omit THEN <<>> ELSE IF spliced(l[i]) THEN Splice(all[i], vals) ELSE <<all[i]>>
    IN IF Fail \in ToSet(all) THEN Fail ELSE ListFrom(FlattenSeq([i \in DOMAIN l |-> item(i)]))
Control(x, vals) ==
    CASE x.t = "list" -> ControlList(x.l, vals)
      [] x.t = "map" ->
           LET on(k) == k \in KeysOf(x.m) IN
           IF on("$text") THEN ControlText(x.m, vals) ELSE IF on("$let") THEN ControlLet(x.m, vals)
           ELSE IF on("$if") THEN ControlIf(x.m, vals) ELSE IF on("$each") THEN ControlEach(x.m, vals)
           ELSE IF on("$switch") THEN ControlSwitch(x.m, vals) ELSE ControlKeys(x.m, vals)
      [] OTHER -> x

(* cleanDollarKeys                                                         *)
RECURSIVE Cleaned(_)
Cleaned(x) ==
    CASE x.t = "map" -> MapFrom([k \in KeysOf(x.m) \ Directives |-> Cleaned(x.m[k])])
      [] x.t = "list" -> ListFrom([i \in DOMAIN x.l |-> Cleaned(x.l[i])])
      [] OTHER -> x
-----------------------------------------------------------------------------
(* RenderFile and renderDocumentWithRegistry: a pass at a time.            *)
TemplateTask(doc, partials, vals) ==
    [kind |-> "template", pc |-> "include", doc |-> doc, partials |-> partials, vals |-> vals, node |-> doc]

(* depthExceeds                                                            *)
RECURSIVE Deeper(_, _)
Deeper(x, max) ==
    \/ max < 0
    \/ \E k \in KeysOf(Fields(x)) : Deeper(x.m[k], max - 1)
    \/ \E i \in DOMAIN Items(x) : Deeper(x.l[i], max - 1)

Pass(pc, next, node) ==
    /\ task.kind = "template" /\ task.pc = pc /\ TNoFault
    /\ task' = IF node = Fail THEN [task EXCEPT !.pc = "error", !.node = Fail]
               ELSE IF node \in {Omit, Nil} THEN [task EXCEPT !.pc = "ok", !.node = Omit]     \* no document
               ELSE [task EXCEPT !.pc = next, !.node = node]
ResolveIncludes ==
    Pass("include", "control", IF Deeper(task.node, MaxDocNesting) THEN Fail ELSE Include(task.node, task.partials, {}))
ProcessControlFlow == Pass("control", "substitute", Control(task.node, task.vals))
SubstitutePass == Pass("substitute", "clean", SubstituteAll(task.node, task.vals))
CleanDollarKeys == Pass("clean", "ok", Cleaned(task.node))
TemplateStep == ResolveIncludes \/ ProcessControlFlow \/ SubstitutePass \/ CleanDollarKeys

-----------------------------------------------------------------------------
(* The meaning of a document, in one pass: a name that a scope binds       *)
(* stands for its value, which is put in its place in the body, as deep as *)
(* no other scope binds it again.                                          *)
PlaceIn(a, name, v) ==
    IF a.t # "path" THEN a
    ELSE LET p == IF a.p[1] = "values" THEN Tail(a.p) ELSE a.p
         IN IF p[1] = name THEN LookUp(v, Tail(p)) ELSE a
PlaceInPart(e, name, v) ==
    IF e.t # "expr" THEN e
    ELSE Expr(PlaceIn(e.head, name, v), [i \in DOMAIN e.calls |-> [e.calls[i] EXCEPT !.arg = PlaceIn(@, name, v)]])
RECURSIVE Inline(_, _, _, _)
Inline(x, name, v, vals) ==
    CASE x.t = "string" -> [x EXCEPT !.parts = [i \in DOMAIN @ |-> PlaceInPart(@[i], name, v)]]
      [] x.t = "list" -> ListOf([i \in DOMAIN x.l |-> Inline(x.l[i], name, v, vals)])
      [] x.t = "map" ->
           LET in(k) == Inline(x.m[k], name, v, vals)
               looped == IF "$as" \in KeysOf(x.m) THEN Text(x.m["$as"]) ELSE "$item"
               bound == IF "$let" \in KeysOf(x.m) THEN KeysOf(Fields(x.m["$let"]))
                        ELSE IF "$each" \notin KeysOf(x.m) THEN {}
                        ELSE {looped} \cup (IF Substitute1(in("$each"), vals).t = "map" THEN {"$key", "$value"} ELSE {})
           IN MapOf([k \in KeysOf(x.m) |-> IF name \in bound /\ k \in {"$in", "$yield"} THEN x.m[k] ELSE in(k)])
      [] OTHER -> x
(* The names of a $let, and each of them after a dollar sign.              *)
InlineAll(x, bound, vals) == FoldLeft(LAMBDA y, q : Inline(Inline(y, q.key, q.value, vals), Dollar(q.key), q.value, vals), x, bound)

RECURSIVE Meaning(_, _, _)
MergedMeaning(own, items) ==
    IF own = <<>> /\ items # <<>> /\ \A i \in DOMAIN items : items[i].t # "map" THEN ListOf(FlattenSeq([i \in DOMAIN items |-> Yielded(items[i])]))
    ELSE IF \E i \in DOMAIN items : items[i].t # "map" THEN Fail
    ELSE MapOf(FoldLeft(LAMBDA d, y : Overlay(d, y.m), own, items))
Meaning(x, partials, vals) ==
    LET mean(y) == Meaning(y, partials, vals)
        on(k) == x.t = "map" /\ k \in KeysOf(x.m)
        m == x.m
        as == IF on("$as") THEN Text(m["$as"]) ELSE "$item"
        c(k) == Substitute1(m[k], vals)
        loop(vs, put(_)) == LET all == [i \in DOMAIN vs |-> mean(put(vs[i]))]
                            IN IF Fail \in ToSet(all) THEN Fail ELSE ListOf(FlattenSeq([i \in DOMAIN all |-> Yielded(all[i])]))
    IN CASE x.t = "string" -> Substitute1(x, vals)
         [] x.t = "list" ->
              LET all == [i \in DOMAIN x.l |-> LET y == x.l[i] IN
                            IF y.t = "map" /\ KeysOf(y.m) = {"$merge"}
                            THEN LET v == mean(y.m["$merge"]) IN IF v.t = "list" THEN SelectSeq(v.l, LAMBDA z : z # Nil) ELSE IF v = Nil THEN <<>> ELSE <<v>>
                            ELSE <<mean(y)>>]
              IN ListFrom(FlattenSeq(all))
         [] on("$include") ->
              LET name == Text(m["$include"])
                  p == IF name \in DOMAIN partials THEN partials[name] ELSE Fail
                  closed == [n \in DOMAIN partials \ {name} |-> partials[n]]        \* no partial includes itself
                  rest == [k \in KeysOf(m) \ {"$include"} |-> m[k]]
              IN IF p = Fail THEN Fail
                 ELSE Meaning(IF p.t = "map" THEN MapOf(Overlay(p.m, rest)) ELSE p, closed, vals)
         [] on("$text") ->
              LET v == mean(m["$text"]) IN
              IF v = Fail \/ (on("$indent") /\ ~IsNumber(c("$indent"))) \/ \E i \in DOMAIN Lines(v) : Lines(v)[i].t = "map" THEN Fail
              ELSE String(Lines(v))
         [] on("$let") ->
              LET bind(b, p) ==
                    LET v == IF b = Fail THEN Fail ELSE mean(InlineAll(p.value, b.l, vals))
                    IN IF v = Fail THEN Fail ELSE ListOf(Append(b.l, [key |-> p.key, value |-> IF v = Omit THEN Nil ELSE v]))
                  bound == FoldLeft(bind, ListOf(<<>>), Pairs(m["$let"].m))
              IN IF bound = Fail THEN Fail ELSE mean(InlineAll(m["$in"], bound.l, vals))
         [] on("$if") ->
              IF c("$if") = Fail THEN Fail
              ELSE IF Truthy0(c("$if")) THEN mean(IF on("$then") THEN m["$then"] ELSE MapOf([k \in KeysOf(m) \ {"$if"} |-> m[k]]))
              ELSE IF on("$then") /\ on("$else") THEN mean(m["$else"]) ELSE Omit
         [] on("$each") ->
              CASE c("$each").t = "list" -> loop(c("$each").l, LAMBDA v : Inline(m["$yield"], as, v, vals))
                [] c("$each").t = "map" ->
                     loop(Pairs(c("$each").m), LAMBDA p :
                         LET y == Inline(m["$yield"], as, MapOf([key |-> Leaf(p.key), value |-> p.value]), vals)
                         IN Inline(Inline(y, "$key", Leaf(p.key), vals), "$value", p.value, vals))
                [] c("$each") = Nil -> Omit
                [] OTHER -> Fail
         [] on("$switch") ->
              IF c("$switch") = Fail THEN Fail
              ELSE IF c("$switch").t = "leaf" /\ c("$switch").v \in KeysOf(m["$cases"].m) THEN mean(m["$cases"].m[c("$switch").v])
              ELSE IF on("$default") THEN mean(m["$default"]) ELSE Omit
         [] on("$merge") ->
              LET own == MapFrom([k \in KeysOf(m) \ {"$merge"} |-> mean(m[k])])
                  v == mean(m["$merge"])
              IN IF Fail \in {own, v} THEN Fail
                 ELSE IF v \in {Nil, Omit} THEN IF own.m = <<>> /\ m["$merge"].t = "string" THEN Omit ELSE own
                 ELSE MergedMeaning(own.m, SelectSeq(IF v.t = "list" THEN v.l ELSE <<v>>, LAMBDA y : y # Nil))
         [] x.t = "map" -> MapFrom([k \in KeysOf(m) |-> mean(m[k])])
         [] OTHER -> x

(* What only the passes tell apart: an escape or an expression in a value, *)
(* which a scope leaves for the next pass.                                 *)
RECURSIVE Strings(_)
Strings(x) ==
    (IF x.t = "string" THEN ToSet(x.parts) ELSE {})
    \cup UNION {Strings(x.m[k]) : k \in KeysOf(Fields(x))} \cup UNION {Strings(x.l[i]) : i \in DOMAIN Items(x)}
PlainText == /\ \A p \in Strings(task.doc) : p.t # "escaped"
             /\ Strings(MapOf(task.vals)) = {}
RECURSIVE Clean1(_)
Clean1(x) ==
    /\ x # Omit /\ KeysOf(Fields(x)) \cap Directives = {}
    /\ \A k \in KeysOf(Fields(x)) : Clean1(x.m[k])
    /\ \A i \in DOMAIN Items(x) : Clean1(x.l[i])

(* Render: the passes give what the document means, names of scopes shadow *)
(* and end with their body, what is left out leaves no key, no element and *)
(* no mark, and no directive reaches the cluster.                          *)
RenderedAsWritten ==
    task.kind = "template" /\ TaskEnded =>
        /\ task.node \notin {Fail, Omit} => Clean1(task.node)
        /\ PlainText /\ ~Deeper(task.doc, MaxDocNesting) =>
             task.node = (LET v == Meaning(task.doc, task.partials, task.vals) IN IF v = Nil THEN Omit ELSE v)
=============================================================================
