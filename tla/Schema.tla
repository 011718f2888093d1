------------------------------- MODULE Schema -------------------------------
(***************************************************************************)
(* The validator of values (internal/action/schema.go): the merged values  *)
(* of a package against its values.schema.json, a part of JSON Schema.     *)
(*                                                                         *)
(* Schemas and values are the trees of Values; a leaf is a whole number,   *)
(* a boolean, null or another string.  References and patterns are names.  *)
(* Numbers with a fraction and the keyword format are left out.            *)
(***************************************************************************)
EXTENDS Policy

CONSTANT MaxRefDepth          \* maxRefDepth
ASSUME RefDepthAssumption == MaxRefDepth \in Nat \ {0}

RefPath == [r \in {"#node", "#size"} |-> IF r = "#node" THEN <<"$defs", "node">> ELSE <<"$defs", "size">>]
PatternOf == [p \in {"^x", "."} |-> IF p = "^x" THEN {"x", "xy"} ELSE {"x", "xy", "a", "b", "next", "ab"}]

IsMap(x) == x.t = "map"
IsList(x) == x.t = "list"
IsBool(x) == x.t = "leaf" /\ x.v \in {"true", "false"}
IsNull(x) == x = Leaf("null")
IsNumber(x) == x.t = "leaf" /\ x.v \in DOMAIN NumberOf
IsString(x) == x.t = "leaf" /\ ~IsBool(x) /\ ~IsNull(x) /\ ~IsNumber(x)
Num(x) == NumberOf[x.v]

(* typeMatches, of whole numbers.                                          *)
TypeMatches(type, x) ==
    CASE type = "object" -> IsMap(x)   [] type = "array" -> IsList(x) [] type = "string" -> IsString(x)
      [] type = "boolean" -> IsBool(x) [] type = "null" -> IsNull(x)  [] type \in {"integer", "number"} -> IsNumber(x)
      [] OTHER -> FALSE

Says(s, k) == k \in KeysOf(Fields(s))
Kw(s, k) == Under(Fields(s), k)
(* A bound is taken when it is a number.                                   *)
AtLeast(s, k, n) == Says(s, k) /\ IsNumber(Kw(s, k)) => n >= Num(Kw(s, k))
AtMost(s, k, n) == Says(s, k) /\ IsNumber(Kw(s, k)) => n <= Num(Kw(s, k))
Listed(s, k) == ToSet(Items(Kw(s, k)))
ObjectWords == {"properties", "required", "patternProperties", "additionalProperties", "dependentRequired",
                "minProperties", "maxProperties"}
ArrayWords == {"items", "minItems", "maxItems", "uniqueItems"}
StringWords == {"minLength", "maxLength", "pattern", "format"}
NumericWords == {"minimum", "maximum", "exclusiveMinimum", "exclusiveMaximum", "multipleOf"}
HasWords(s, words) == KeysOf(Fields(s)) \cap words # {}

(* resolveRef: a path from the root.                                       *)
Dereference(root, r) == IF r.v \in DOMAIN RefPath THEN Look(Fields(root), RefPath[r.v]) ELSE Nowhere

(* validateString but for format, validateNumeric.                         *)
StringFits(x, s) ==
    /\ AtLeast(s, "minLength", Len(x.v)) /\ AtMost(s, "maxLength", Len(x.v))
    /\ Says(s, "pattern") => Kw(s, "pattern").v \in DOMAIN PatternOf /\ x.v \in PatternOf[Kw(s, "pattern").v]
NumericFits(x, s) ==
    /\ AtLeast(s, "minimum", Num(x)) /\ AtMost(s, "maximum", Num(x))
    /\ AtLeast(s, "exclusiveMinimum", Num(x) - 1) /\ AtMost(s, "exclusiveMaximum", Num(x) + 1)
    /\ (Says(s, "multipleOf") /\ IsNumber(Kw(s, "multipleOf")) => Num(Kw(s, "multipleOf")) = 0 \/ Num(x) % Num(Kw(s, "multipleOf")) = 0)

In(s, k) == Fields(Kw(s, k))
(* Mutant: a key taken by a pattern counts as additional.                  *)
NamedOnly(s, k) == {In(s, "properties")[p] : p \in {k} \cap KeysOf(In(s, "properties"))}
(* The schemas a property is validated against: its own, if it is a map,   *)
(* and those of the patterns that match.                                   *)
SchemasOf(s, k) ==
    {In(s, "properties")[p] : p \in {q \in {k} \cap KeysOf(In(s, "properties")) : IsMap(In(s, "properties")[q])}}
    \cup {In(s, "patternProperties")[p] :
            p \in {q \in KeysOf(In(s, "patternProperties")) \cap DOMAIN PatternOf : k \in PatternOf[q]}}

(* validate: no error is added.  A probe of a combinator is a validator of *)
(* its own that sees the same depth; only a schema that is a map counts.   *)
(* equalAny: a number of the schema is a float64 and one of a values file  *)
(* an int; they are converted at the top, not within a list or map.        *)
RECURSIVE HasNumber(_)
HasNumber(x) ==
    \/ IsNumber(x) \/ \E k \in KeysOf(Fields(x)) : HasNumber(x.m[k])
    \/ \E i \in DOMAIN Items(x) : HasNumber(x.l[i])
EqualAny(x, y) == x = y /\ (IsNumber(x) \/ ~HasNumber(x))

RECURSIVE Fits(_, _, _, _), ObjectFits(_, _, _, _), ArrayFits(_, _, _, _)
Fits(root, x, s, depth) ==
    LET subs(k) == SelectSeq(Items(Kw(s, k)), IsMap)
        passing(k) == {i \in DOMAIN subs(k) : Fits(root, x, subs(k)[i], depth + 1)}
        ofType(type) ==
            CASE type = "object" -> IF IsMap(x) THEN ObjectFits(root, x, s, depth) ELSE IsNull(x)
              [] type = "array" -> IF IsList(x) THEN ArrayFits(root, x, s, depth) ELSE IsNull(x)
              [] type = "string" -> IF IsString(x) THEN StringFits(x, s) ELSE IsNull(x)
              [] type \in {"integer", "number"} -> IsNumber(x) /\ NumericFits(x, s)
              [] type = "boolean" -> IsBool(x)
              [] type = "null" -> IsNull(x)
              [] OTHER -> TRUE
        first(types) == SelectSeq(types, LAMBDA t : TypeMatches(t.v, x))
        untyped ==
            CASE IsMap(x) -> HasWords(s, ObjectWords) => ObjectFits(root, x, s, depth)
              [] IsList(x) -> HasWords(s, ArrayWords) => ArrayFits(root, x, s, depth)
              [] IsString(x) -> HasWords(s, StringWords) => StringFits(x, s)
              [] IsNumber(x) -> HasWords(s, NumericWords) => NumericFits(x, s)
              [] OTHER -> TRUE
    IN IF depth >= MaxRefDepth THEN FALSE
       ELSE IF Says(s, "$ref")
       THEN LET r == Dereference(root, Kw(s, "$ref")) IN IsMap(r) /\ Fits(root, x, r, depth + 1)
       ELSE /\ Says(s, "const") => EqualAny(Kw(s, "const"), x)
            /\ Says(s, "enum") => \E y \in Listed(s, "enum") : EqualAny(y, x)
            /\ Says(s, "allOf") => Cardinality(passing("allOf")) = Len(subs("allOf"))
            /\ Says(s, "anyOf") => passing("anyOf") # {}
            /\ Says(s, "oneOf") => Cardinality(passing("oneOf")) = 1
            /\ Says(s, "not") /\ IsMap(Kw(s, "not")) => ~Fits(root, x, Kw(s, "not"), depth + 1)
            /\ IF ~Says(s, "type") \/ IsMap(Kw(s, "type")) THEN untyped
               ELSE IF IsList(Kw(s, "type"))
               THEN first(Items(Kw(s, "type"))) # <<>> /\ ofType(Head(first(Items(Kw(s, "type")))).v)
               ELSE ofType(Kw(s, "type").v)

(* validateObject: additionalProperties are for the keys no schema of a    *)
(* property and no pattern has taken.                                      *)
ObjectFits(root, x, s, depth) ==
    LET keys == KeysOf(Fields(x))
        more == Kw(s, "additionalProperties")
    IN /\ \A r \in Listed(s, "required") : r.v \in keys
       /\ AtLeast(s, "minProperties", Cardinality(keys))
       /\ AtMost(s, "maxProperties", Cardinality(keys))
       /\ \A k \in keys \cap KeysOf(In(s, "dependentRequired")) :
            \A r \in ToSet(Items(In(s, "dependentRequired")[k])) : r.v \in keys
       /\ KeysOf(In(s, "patternProperties")) \subseteq DOMAIN PatternOf
       /\ \A k \in keys :
            IF SchemasOf(s, k) # {} THEN \A sub \in SchemasOf(s, k) : Fits(root, Fields(x)[k], sub, depth + 1)
            ELSE Says(s, "additionalProperties") =>
                   /\ more # Leaf("false")
                   /\ IsMap(more) => Fits(root, Fields(x)[k], more, depth + 1)

(* validateArray                                                           *)
ArrayFits(root, x, s, depth) ==
    /\ AtLeast(s, "minItems", Len(x.l)) /\ AtMost(s, "maxItems", Len(x.l))
    /\ Says(s, "uniqueItems") /\ Kw(s, "uniqueItems") = Leaf("true") => Cardinality(ToSet(x.l)) = Len(x.l)
    /\ IsMap(Kw(s, "items")) /\ Says(s, "items") => \A i \in DOMAIN x.l : Fits(root, x.l[i], Kw(s, "items"), depth + 1)

-----------------------------------------------------------------------------
(* ValidateValuesAgainstSchema: no file, no check.                         *)
NoSchema == Leaf("no file")
SchemaTask(schema, vals) == [kind |-> "schema", pc |-> "run", schema |-> schema, vals |-> vals]
ValidateValues ==
    /\ task.kind = "schema" /\ task.pc = "run"
    /\ \/ /\ TNoFault
          /\ task' = [task EXCEPT !.pc = IF task.schema = NoSchema \/ Fits(task.schema, task.vals, task.schema, 0)
                                         THEN "ok" ELSE "error"]
       \/ task' = [task EXCEPT !.pc = "error"] /\ TFault          \* unreadable, or not JSON

-----------------------------------------------------------------------------
(* JSON Schema, keyword by keyword: each constrains the values of its own  *)
(* type, whatever the others say, and a combinator is a connective.  fuel  *)
(* is the depth left.                                                      *)
RECURSIVE Allows(_, _, _, _)
Allows(root, s, x, fuel) ==
    LET sub(k) == {Items(Kw(s, k))[i] : i \in DOMAIN Items(Kw(s, k))}
        ok(y, t) == Allows(root, t, y, fuel - 1)
        prop == Kw(s, "properties")
        word(k) ==
          CASE k = "$ref" -> LET r == Dereference(root, Kw(s, k)) IN IsMap(r) /\ ok(x, r)
            [] k = "const" -> x = Kw(s, k)
            [] k = "enum" -> x \in Listed(s, k)
            [] k = "type" -> \E t \in (IF IsList(Kw(s, k)) THEN Listed(s, k) ELSE {Kw(s, k)}) : TypeMatches(t.v, x)
            [] k = "allOf" -> \A t \in sub(k) : ok(x, t)
            [] k = "anyOf" -> \E t \in sub(k) : ok(x, t)
            [] k = "oneOf" -> Cardinality({i \in DOMAIN Items(Kw(s, k)) : ok(x, Items(Kw(s, k))[i])}) = 1
            [] k = "not" -> ~ok(x, Kw(s, k))
            [] k = "required" -> IsMap(x) => {r.v : r \in Listed(s, k)} \subseteq KeysOf(x.m)
            [] k = "properties" -> IsMap(x) => \A q \in KeysOf(x.m) \cap KeysOf(prop.m) : ok(x.m[q], prop.m[q])
            [] k = "additionalProperties" ->
                 IsMap(x) => \A q \in KeysOf(x.m) \ KeysOf(Fields(prop)) :
                   \/ \E p \in KeysOf(In(s, "patternProperties")) : q \in PatternOf[p]
                   \/ Kw(s, k) # Leaf("false") /\ (IsMap(Kw(s, k)) => ok(x.m[q], Kw(s, k)))
            [] k = "patternProperties" -> IsMap(x) => \A p \in KeysOf(Kw(s, k).m) : \A q \in KeysOf(x.m) \cap PatternOf[p] :
                                                         ok(x.m[q], Kw(s, k).m[p])
            [] k = "dependentRequired" -> IsMap(x) => \A q \in KeysOf(x.m) \cap KeysOf(Kw(s, k).m) :
                                                         {r.v : r \in ToSet(Items(Kw(s, k).m[q]))} \subseteq KeysOf(x.m)
            [] k = "items" -> IsList(x) => \A i \in DOMAIN x.l : ok(x.l[i], Kw(s, k))
            [] k = "uniqueItems" -> IsList(x) => \A i, j \in DOMAIN x.l : i # j => x.l[i] # x.l[j]
            [] k = "minItems" -> IsList(x) => Len(x.l) >= Num(Kw(s, k))
            [] k = "maxProperties" -> IsMap(x) => Cardinality(KeysOf(x.m)) <= Num(Kw(s, k))
            [] k = "minimum" -> IsNumber(x) => Num(x) >= Num(Kw(s, k))
            [] k = "exclusiveMaximum" -> IsNumber(x) => Num(x) < Num(Kw(s, k))
            [] k = "minLength" -> IsString(x) => Len(x.v) >= Num(Kw(s, k))
            [] k = "pattern" -> IsString(x) => x.v \in PatternOf[Kw(s, k).v]
            [] OTHER -> TRUE
    IN fuel > 0 /\ \A k \in KeysOf(Fields(s)) : word(k)

RECURSIVE HasNull(_)
HasNull(x) ==
    \/ IsNull(x) \/ \E k \in KeysOf(Fields(x)) : HasNull(x.m[k])
    \/ \E i \in DOMAIN Items(x) : HasNull(x.l[i])

(* A constant that is a list or map with numbers in it.                    *)
RECURSIVE ComparesWithin(_)
ComparesWithin(s) ==
    \/ \E y \in {Kw(s, "const")} \cup Listed(s, "enum") : ~IsNumber(y) /\ HasNumber(y)
    \/ \E k \in KeysOf(Fields(s)) : ComparesWithin(s.m[k])
    \/ \E i \in DOMAIN Items(s) : ComparesWithin(s.l[i])

(* ValidateValuesAgainstSchema: values that pass without null in them      *)
(* satisfy every keyword of the schema, wherever it stands and whatever    *)
(* type it declares, and values that satisfy it pass; past the depth at    *)
(* which it gives up nothing satisfies a schema.                           *)
Checked == task.kind = "schema" /\ TaskEnded /\ tfaults = MaxTaskFaults /\ task.schema # NoSchema /\ ~HasNull(task.vals)
SchemaMeansWhatItSays ==
    Checked /\ ~ComparesWithin(task.schema) =>
        (task.pc = "ok") = Allows(task.schema, task.schema, task.vals, MaxRefDepth)

(* "Exact-value constraints; numbers compare by value"                     *)
(* (docs/reference/values-schema-json.md:59): values that are the very     *)
(* constant a schema asks for pass.  They do not where the constant is a   *)
(* list or map with numbers in it (schema.go:602).                         *)
NumbersCompareByValue ==
    Checked => ((task.pc = "ok") = Allows(task.schema, task.schema, task.vals, MaxRefDepth))
=============================================================================
