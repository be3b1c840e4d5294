---------------------------- MODULE Filters_proofs ----------------------------
(***************************************************************************)
(* TLAPS proofs about the conditions of a filter, for any number of values *)
(* of a multi-match field.                                                 *)
(***************************************************************************)
EXTENDS Filters, TLAPS

Types == {"text", "numeric", "boolean", "jsonb"}
Texts == Words \cup {Empty}
AllValues == Texts \cup Bits("numeric") \cup Bits("boolean") \cup {JsonNull, Null}

\* a value as SQLite has it
LV(v) ==
    IF v[1] = "boolean" THEN <<"numeric", v[2]>> ELSE IF v = JsonNull THEN Null ELSE v

-----------------------------------------------------------------------------
(***************************************************************************)
(* Values and operands.                                                    *)
(***************************************************************************)

\* What values there are
LEMMA ValueKinds ==
    /\ AllValues = {<<"text", "">>, <<"text", "a">>, <<"text", "A">>, <<"numeric", "0">>,
                    <<"numeric", "1">>, <<"boolean", "0">>, <<"boolean", "1">>,
                    <<"null", "null">>, <<"null", "sql">>}
    /\ \A type \in Types : ValuesOf(type) \subseteq AllValues
    /\ ValuesOf("text") = Texts \cup {Null}
    /\ ValuesOf("numeric") = Bits("numeric") \cup {Null}
    /\ ValuesOf("boolean") = Bits("boolean") \cup {Null}
    /\ ValuesOf("jsonb") = Words \cup Bits("numeric") \cup Bits("boolean") \cup {JsonNull, Null}
<1> USE DEF Null, JsonNull, Empty, Words, Bits
<1>1. AllValues = {<<"text", "">>, <<"text", "a">>, <<"text", "A">>, <<"numeric", "0">>,
                    <<"numeric", "1">>, <<"boolean", "0">>, <<"boolean", "1">>,
                    <<"null", "null">>, <<"null", "sql">>}
  BY DEF AllValues, Texts
<1>2. /\ ValuesOf("text") = Texts \cup {Null}
      /\ ValuesOf("numeric") = Bits("numeric") \cup {Null}
      /\ ValuesOf("boolean") = Bits("boolean") \cup {Null}
      /\ ValuesOf("jsonb") = Words \cup Bits("numeric") \cup Bits("boolean") \cup {JsonNull, Null}
  BY DEF ValuesOf, Texts
<1>3. \A type \in Types : ValuesOf(type) \subseteq AllValues
  BY <1>2 DEF Types, AllValues, Texts
<1> QED BY <1>1, <1>2, <1>3

\* What the values consist of
LEMMA Parts ==
    /\ \A a, b : <<a, b>>[1] = a /\ <<a, b>>[2] = b
    /\ Null[1] = "null" /\ Null[2] = "sql" /\ JsonNull[1] = "null" /\ JsonNull[2] = "null"
    /\ Empty[1] = "text" /\ Empty[2] = ""
    /\ \A v \in Words : v[1] = "text" /\ v[2] \in {"a", "A"} /\ v = <<"text", v[2]>>
    /\ \A type : \A v \in Bits(type) : v[1] = type /\ v[2] \in {"0", "1"} /\ v = <<type, v[2]>>
<1>1. \A a, b : <<a, b>>[1] = a /\ <<a, b>>[2] = b
  OBVIOUS
<1>2. \A v \in Words : v[1] = "text" /\ v[2] \in {"a", "A"} /\ v = <<"text", v[2]>>
  <2> SUFFICES ASSUME NEW v \in Words PROVE v[1] = "text" /\ v[2] \in {"a", "A"} /\ v = <<"text", v[2]>>
    OBVIOUS
  <2>1. CASE v = <<"text", "a">>
    BY <1>1, <2>1
  <2>2. CASE v = <<"text", "A">>
    BY <1>1, <2>2
  <2> QED BY <2>1, <2>2 DEF Words
<1>3. ASSUME NEW type, NEW v \in Bits(type)
      PROVE  v[1] = type /\ v[2] \in {"0", "1"} /\ v = <<type, v[2]>>
  <2>1. CASE v = <<type, "0">>
    BY <1>1, <2>1
  <2>2. CASE v = <<type, "1">>
    BY <1>1, <2>2
  <2> QED BY <2>1, <2>2 DEF Bits
<1>4. /\ Null[1] = "null" /\ Null[2] = "sql" /\ JsonNull[1] = "null" /\ JsonNull[2] = "null"
      /\ Empty[1] = "text" /\ Empty[2] = ""
  BY DEF Null, JsonNull, Empty
<1> QED BY <1>1, <1>2, <1>3, <1>4

\* Words and bits are neither empty nor NULL
LEMMA ConstantsDiffer ==
    Empty # Null /\ \A w \in Words \cup Bits("numeric") \cup Bits("boolean") : w \notin {Empty, Null}
BY DEF Null, Empty, Words, Bits

\* A row of an operand
At(o, v) == [o EXCEPT !.vals = {v}]

\* the operands there are: the fields and the constants of a filter, for each dialect
Column0(o) ==
    \/ o.kind = "field" /\ o.type \in Types \ {"jsonb"} /\ o.fallback \in {"auto", "enforced"}
    \/ o.kind = "json" /\ o.type = "jsonb" /\ o.fallback = "disabled"

IsField(o) ==
    /\ o = Operand(o.kind, o.type, o.fallback, o.many, o.vals)
    /\ Column0(o) /\ o.many \in BOOLEAN
    /\ o.vals # {} /\ o.vals \subseteq ValuesOf(o.type)
    /\ ~o.many => \E v : o.vals = {v}

\* What a field is in a record
LEMMA SampleShape ==
    ASSUME NEW type, NEW s \in Samples(type)
    PROVE  s[1] \in BOOLEAN /\ s[2] # {} /\ s[2] \subseteq ValuesOf(type) /\ (~s[1] => \E v : s[2] = {v})
<1> HIDE DEF ValuesOf
<1>1. CASE \E v \in ValuesOf(type) : s = <<FALSE, {v}>>
  BY <1>1
<1>2. CASE \E S \in SUBSET ValuesOf(type) : S # {} /\ s = <<TRUE, S>>
  BY <1>2
<1> QED BY <1>1, <1>2 DEF Samples

\* A field of a filter
LEMMA FieldShape ==
    ASSUME NEW o \in Fields
    PROVE  IsField(o)
<1>1. ASSUME NEW type \in {"text", "numeric", "boolean"}, NEW f \in {"auto", "enforced"},
             NEW s \in Samples(type), o = Operand("field", type, f, s[1], s[2])
      PROVE  IsField(o)
  <2>1. s[1] \in BOOLEAN /\ s[2] # {} /\ s[2] \subseteq ValuesOf(type) /\ (~s[1] => \E v : s[2] = {v})
    BY SampleShape
  <2> QED BY <1>1, <2>1 DEF IsField, Operand, Column0, Types
<1>2. ASSUME NEW s \in Samples("jsonb"), o = Operand("json", "jsonb", "disabled", s[1], s[2])
      PROVE  IsField(o)
  <2>1. s[1] \in BOOLEAN /\ s[2] # {} /\ s[2] \subseteq ValuesOf("jsonb") /\ (~s[1] => \E v : s[2] = {v})
    BY SampleShape
  <2> QED BY <1>2, <2>1 DEF IsField, Operand, Column0, Types
<1>3. \/ \E t \in UNION {{type} \X {"auto", "enforced"} \X Samples(type) :
                          type \in {"text", "numeric", "boolean"}} :
              o = Operand("field", t[1], t[2], t[3][1], t[3][2])
      \/ \E s \in Samples("jsonb") : o = Operand("json", "jsonb", "disabled", s[1], s[2])
  BY DEF Fields
<1>4. CASE \E t \in UNION {{type} \X {"auto", "enforced"} \X Samples(type) :
                          type \in {"text", "numeric", "boolean"}} :
              o = Operand("field", t[1], t[2], t[3][1], t[3][2])
  <2>1. PICK type \in {"text", "numeric", "boolean"} :
               \E t \in {type} \X {"auto", "enforced"} \X Samples(type) :
                   o = Operand("field", t[1], t[2], t[3][1], t[3][2])
    BY <1>4
  <2>2. PICK t \in {type} \X {"auto", "enforced"} \X Samples(type) :
               o = Operand("field", t[1], t[2], t[3][1], t[3][2])
    BY <2>1
  <2>3. t[1] = type /\ t[2] \in {"auto", "enforced"} /\ t[3] \in Samples(type)
    OBVIOUS
  <2> QED BY <1>1, <2>2, <2>3
<1> QED BY <1>2, <1>3, <1>4

\* A constant v of a filter, for PostgreSQL and for SQLite
IsConstant(p, q, v) ==
    \/ v \in Words /\ p = Plain("param", v) /\ q = Plain("param", v)
    \/ v = Empty /\ p = Plain("literal", v) /\ q = Plain("param", v)
    \/ v \in Bits("numeric") /\ p \in {Plain("literal", v), Plain("param", v)} /\ q = Plain("param", v)
    \/ v \in Bits("boolean") /\ p = Plain("literal", v) /\ q = Plain("literal", LV(v))
    \/ v = Null /\ p = Plain("null", v) /\ q = Plain("null", v)

\* What a token becomes in the two dialects
Twins(p, q) == (IsField(p) /\ q = p) \/ \E v : IsConstant(p, q, v)

\* What a token becomes in the two dialects is a field or a constant
LEMMA TokenShape ==
    ASSUME NEW t \in Tokens
    PROVE  Twins(Resolve(t), ResolveLite(t))
<1> HIDE DEF Plain
<1>1. CASE \E x \in Fields : t = <<"field", x>>
  <2>1. PICK x \in Fields : t = <<"field", x>>
    BY <1>1
  <2>2. Resolve(t) = x /\ ResolveLite(t) = x
    BY <2>1 DEF Resolve, ResolveLite
  <2> QED BY <2>1, <2>2, FieldShape DEF Twins
<1>2. CASE t = <<"text", Empty>>
  <2>1. Resolve(t) = Plain("literal", Empty) /\ ResolveLite(t) = Plain("param", Empty)
    BY <1>2 DEF Resolve, ResolveLite
  <2> QED BY <2>1 DEF Twins, IsConstant
<1>3. CASE \E v \in Words : t = <<"text", v>>
  <2>1. PICK v \in Words : t = <<"text", v>>
    BY <1>3
  <2>2. v # Empty
    BY ConstantsDiffer
  <2>3. Resolve(t) = Plain("param", v) /\ ResolveLite(t) = Plain("param", v)
    BY <2>1, <2>2 DEF Resolve, ResolveLite
  <2> QED BY <2>3 DEF Twins, IsConstant
<1>4. CASE \E v \in Bits("numeric") : t = <<"number", v>>
  <2>1. PICK v \in Bits("numeric") : t = <<"number", v>>
    BY <1>4
  <2>2. Resolve(t) = Plain("literal", v) /\ ResolveLite(t) = Plain("param", v)
    BY <2>1 DEF Resolve, ResolveLite
  <2> QED BY <2>2 DEF Twins, IsConstant
<1>5. CASE \E v \in Words \cup Bits("numeric") : t = <<"macro", v>>
  <2>1. PICK v \in Words \cup Bits("numeric") : t = <<"macro", v>>
    BY <1>5
  <2>2. Resolve(t) = Plain("param", v) /\ ResolveLite(t) = Plain("param", v)
    BY <2>1 DEF Resolve, ResolveLite
  <2> QED BY <2>2 DEF Twins, IsConstant
<1>6. CASE \E v \in Bits("boolean") : t = <<"bool", v>>
  <2>1. PICK v \in Bits("boolean") : t = <<"bool", v>>
    BY <1>6
  <2>2. LV(v) = <<"numeric", v[2]>>
    BY DEF LV, Bits
  <2>3. Resolve(t) = Plain("literal", v) /\ ResolveLite(t) = Plain("literal", LV(v))
    BY <2>1, <2>2 DEF Resolve, ResolveLite
  <2> QED BY <2>3 DEF Twins, IsConstant
<1>7. CASE t = <<"null", Null>>
  <2>1. Resolve(t) = Plain("null", Null) /\ ResolveLite(t) = Plain("null", Null)
    BY <1>7 DEF Resolve, ResolveLite
  <2> QED BY <2>1 DEF Twins, IsConstant
<1> QED BY <1>1, <1>2, <1>3, <1>4, <1>5, <1>6, <1>7 DEF Tokens, Constants

-----------------------------------------------------------------------------
(***************************************************************************)
(* One value of an operand.                                                *)
(***************************************************************************)

\* The operand o with the one value v, in a condition or in that of a subquery
Row(o, v) ==
    /\ o.vals = {v}
    /\ \/ o.kind = "field" /\ o.type \in Types /\ v \in ValuesOf(o.type)
       \/ o.kind = "json" /\ o.type = "jsonb" /\ v \in ValuesOf("jsonb")
       \/ o.kind = "param" /\ o.type = v[1] /\ v \in Words \cup Bits("numeric")
       \/ o.kind = "literal" /\ o.type = v[1] /\ v \in {Empty} \cup Bits("numeric") \cup Bits("boolean")
       \/ o.kind = "null" /\ o.type = "null" /\ v = Null

\* What the conditions ask of it
LEMMA RowFacts ==
    ASSUME NEW o, NEW v, Row(o, v)
    PROVE  /\ Val(o) = v /\ v \in AllValues
           /\ IsEmpty(o) <=> o.kind = "null" \/ (o.kind = "literal" /\ v = Empty)
           /\ IsEmpty(o) => v \in {Empty, Null}
           /\ KnownNonEmpty(o) => v \notin {Empty, Null}
           /\ ~IsEmpty(o) /\ ~KnownNonEmpty(o) <=> IsColumn(o)
<1>1. Val(o) = v
  BY DEF Val, Row
<1>2. v \in AllValues
  <2>1. Words \cup {Empty} \cup Bits("numeric") \cup Bits("boolean") \cup {Null} \subseteq AllValues
    BY DEF AllValues, Texts
  <2> QED BY <2>1, ValueKinds DEF Row, Types
<1>3. Empty # Null /\ \A w \in Words \cup Bits("numeric") \cup Bits("boolean") : w \notin {Empty, Null}
  BY ConstantsDiffer
<1>4. CASE o.kind \in {"field", "json"}
  BY <1>1, <1>2, <1>4 DEF IsEmpty, KnownNonEmpty, IsColumn
<1>5. CASE o.kind = "param"
  BY <1>1, <1>2, <1>3, <1>5 DEF IsEmpty, KnownNonEmpty, IsColumn, Row
<1>6. CASE o.kind = "literal"
  BY <1>1, <1>2, <1>3, <1>6 DEF IsEmpty, KnownNonEmpty, IsColumn, Row
<1>7. CASE o.kind = "null"
  BY <1>1, <1>2, <1>3, <1>7 DEF IsEmpty, KnownNonEmpty, IsColumn, Row
<1> QED BY <1>4, <1>5, <1>6, <1>7 DEF Row

\* The same operand in the two dialects
Pair(p, q, v) ==
    /\ Row(p, v) /\ LiteVal(q) = LV(v)
    /\ LiteEmpty(q) <=> IsEmpty(p)
    /\ LiteKnown(q) <=> KnownNonEmpty(p)
    /\ p.fallback = "disabled" <=> q.fallback = "disabled"

-----------------------------------------------------------------------------
(***************************************************************************)
(* Terms: a cast is refused or leaves the value as it is, except a cast to *)
(* text.                                                                   *)
(***************************************************************************)

Gives(term, v) == term = Refused \/ term.val = v

\* An operator is refused or compares the values of its terms
LEMMA ApplyGives ==
    ASSUME NEW o, NEW a, NEW b, NEW v, NEW w, Gives(a, v), Gives(b, w)
    PROVE  Apply(o, a, b) \in {"E", Compare(o, v, w)}
<1>1. Refused.type = "error"
  BY DEF Refused
<1>2. ASSUME NEW term, NEW u, NEW t, Gives(term, u)
      PROVE  Bind(term, t).type = "error" \/ Bind(term, t).val = u
  <2>1. CASE term.type # "unknown"
    BY <1>1, <1>2, <2>1 DEF Bind, Gives
  <2>2. CASE term.type = "unknown"
    <3>1. term.val = u
      BY <1>1, <1>2, <2>2 DEF Gives
    <3> QED BY <1>1, <2>2, <3>1 DEF Bind
  <2> QED BY <2>1, <2>2
<1> DEFINE t == IF a.type # "unknown" THEN a.type
                ELSE IF b.type # "unknown" THEN b.type ELSE "text"
<1>3. Apply(o, a, b) = "E" \/ (/\ Bind(a, t).type # "error" /\ Bind(b, t).type # "error"
                              /\ Apply(o, a, b) = Compare(o, Bind(a, t).val, Bind(b, t).val))
  BY DEF Apply
<1> HIDE DEF t
<1> QED BY <1>2, <1>3

\* What has a type of its own, and what is cast to JSON, keeps its value
LEMMA TermsGive ==
    ASSUME NEW o
    PROVE  /\ Gives(Bare(o), Val(o)) /\ Gives(AsJson(o), Val(o)) /\ Gives(AsNumeric(o), Val(o))
           /\ IsTextLiteral(o) => Gives(AsText(o), Val(o))
<1>1. Gives(Bare(o), Val(o)) /\ Bare(o).val = Val(o)
  BY DEF Bare, Gives
<1>2. Gives(AsJson(o), Val(o)) /\ Gives(AsNumeric(o), Val(o))
  BY DEF AsJson, AsNumeric, Gives
<1>3. ASSUME IsTextLiteral(o) PROVE Gives(AsText(o), Val(o))
  <2>1. Bare(o).type = "unknown"
    BY <1>3 DEF Bare
  <2> QED BY <1>1, <2>1 DEF AsText, Bind, Gives
<1> QED BY <1>1, <1>2, <1>3

\* So do the two sides of a join
LEMMA JoinGives ==
    ASSUME NEW o, NEW l, NEW r
    PROVE  Join(o, l, r) \in {"E", Compare(o, Val(l), Val(r))}
<1>1. \A x, y : Gives(Adapted(x, y), Val(x))
  BY TermsGive DEF Adapted
<1> QED BY <1>1, ApplyGives DEF Join

\* Three-valued logic on two values is logic
LEMMA Logic ==
    /\ "T" = Bool(TRUE) /\ "F" = Bool(FALSE)
    /\ \A b \in BOOLEAN : Bool(b) \in {"T", "F"} /\ (Bool(b) = "T" <=> b) /\ Not(Bool(b)) = Bool(~b)
    /\ \A b, c \in BOOLEAN : And(Bool(b), Bool(c)) = Bool(b /\ c) /\ Or(Bool(b), Bool(c)) = Bool(b \/ c)
    /\ Or("U", Bool(TRUE)) = "T"
    /\ Not("U") = "U" /\ Not("E") = "E"
<1>1. Not("T") = "F" /\ Not("F") = "T" /\ Not("U") = "U" /\ Not("E") = "E"
  BY DEF Not
<1>2. And("T", "T") = "T" /\ And("T", "F") = "F" /\ And("F", "T") = "F" /\ And("F", "F") = "F"
      /\ And("U", "F") = "F"
  BY DEF And
<1>3. Bool(TRUE) = "T" /\ Bool(FALSE) = "F"
  BY DEF Bool
<1> QED BY <1>1, <1>2, <1>3 DEF Or

\* What is printed of a value
LEMMA PrintedIs ==
    ASSUME NEW type
    PROVE  /\ Printed(type, Null) = Null
           /\ Printed(type, JsonNull) = <<"text", "null">>
           /\ type # "jsonb" => \A v \in Texts : Printed(type, v) = v
           /\ type = "jsonb" => \A v \in Words : Printed(type, v) = Quoted(v)
           /\ \A v \in Bits("numeric") : Printed(type, v) = <<"text", v[2]>>
           /\ \A v \in Bits("boolean") :
                 Printed(type, v) = <<"text", IF v[2] = "1" THEN "true" ELSE "false">>
<1>1. Printed(type, Null) = Null /\ Printed(type, JsonNull) = <<"text", "null">>
  <2>1. JsonNull # Null /\ JsonNull[1] = "null" /\ Null[1] = "null"
    BY DEF JsonNull, Null
  <2> QED BY <2>1 DEF Printed
<1>2. ASSUME NEW v \in Texts
      PROVE  v = <<"text", v[2]>> /\ v[1] = "text" /\ v # Null /\ v # JsonNull
  <2>1. v = <<"text", v[2]>> /\ v[1] = "text"
    BY Parts DEF Texts, Empty
  <2> QED BY <2>1, Parts
<1>3. ASSUME type # "jsonb", NEW v \in Texts PROVE Printed(type, v) = v
  BY <1>2, <1>3 DEF Printed
<1>4. ASSUME type = "jsonb", NEW v \in Words PROVE Printed(type, v) = Quoted(v)
  BY <1>2, <1>4 DEF Printed, Texts
<1>5. ASSUME NEW v \in Bits("numeric") PROVE Printed(type, v) = <<"text", v[2]>>
  <2>1. v[1] = "numeric" /\ v # Null /\ v # JsonNull
    BY Parts
  <2> QED BY <2>1 DEF Printed
<1>6. ASSUME NEW v \in Bits("boolean")
      PROVE  Printed(type, v) = <<"text", IF v[2] = "1" THEN "true" ELSE "false">>
  <2>1. v[1] = "boolean" /\ v # Null /\ v # JsonNull
    BY Parts
  <2> QED BY <2>1 DEF Printed
<1> QED BY <1>1, <1>3, <1>4, <1>5, <1>6

\* A field is empty or not
LEMMA EmptyOrNullIs ==
    ASSUME NEW x, NEW v, Row(x, v), IsColumn(x), NEW equal \in BOOLEAN
    PROVE  EmptyOrNull(equal, x) =
               IF equal THEN Bool(v = Empty \/ v = Null) ELSE Bool(v # Empty /\ v # Null)
<1> DEFINE o == IF equal THEN "=" ELSE "IS NOT"
           printed == Printed(x.type, v)
           term == [type |-> "text", val |-> printed]
           literal == Bare(Plain("literal", Empty))
<1>1. Val(x) = v /\ v \in ValuesOf(x.type) /\ x.type \in Types /\ x.kind \in {"field", "json"}
  BY RowFacts DEF Row, Types, IsColumn
<1>2. (printed = Null <=> v = Null) /\ (printed = Empty <=> v = Empty)
  <2>1. /\ v \in Texts \cup Words \cup Bits("numeric") \cup Bits("boolean") \cup {JsonNull, Null}
        /\ x.type = "jsonb" => v # Empty
    <3>1. Empty \notin Words \cup Bits("numeric") \cup Bits("boolean") \cup {JsonNull, Null}
      BY ConstantsDiffer, Parts
    <3> QED BY <1>1, <3>1, ValueKinds DEF Types
  <2>2. Empty \in Texts /\ Null \notin Texts /\ Empty # Null /\ JsonNull \notin {Empty, Null}
    BY ConstantsDiffer, Parts DEF Texts
  <2>3. CASE v = Null
    BY <2>2, <2>3, PrintedIs
  <2>4. CASE v \in Texts /\ x.type # "jsonb"
    BY <2>2, <2>4, PrintedIs
  <2>5. ASSUME NEW t \in {"0", "1", "true", "false", "null", "'a'", "'A'"}, printed = <<"text", t>>
        PROVE  printed \notin {Empty, Null}
    <3>1. printed[1] = "text" /\ printed[2] = t
      BY <2>5
    <3> HIDE DEF printed
    <3> QED BY <3>1, Parts
  <2>6. CASE v \in Words /\ x.type = "jsonb"
    BY <2>5, <2>6, PrintedIs, ConstantsDiffer DEF Quoted
  <2>7. CASE v \in Bits("numeric")
    <3>1. v[2] \in {"0", "1"} /\ printed = <<"text", v[2]>>
      <4>1. v[2] \in {"0", "1"}
        BY <2>7, Parts
      <4> QED BY <2>7, <4>1, PrintedIs
    <3> HIDE DEF printed
    <3> QED BY <2>5, <2>7, <3>1, ConstantsDiffer
  <2>8. CASE v \in Bits("boolean")
    <3>1. printed = <<"text", "true">> \/ printed = <<"text", "false">>
      BY <2>8, PrintedIs
    <3> HIDE DEF printed
    <3> QED BY <2>5, <2>8, <3>1, ConstantsDiffer
  <2>9. CASE v = JsonNull
    BY <2>2, <2>5, <2>9, PrintedIs
  <2>10. v = Empty => v \in Texts
    BY DEF Texts
  <2>11. /\ v \in Texts => v \in Words \/ x.type # "jsonb"
         /\ v \in Words => v \in Texts
    BY <2>1 DEF Texts
  <2> HIDE DEF printed
  <2> QED BY <2>1, <2>3, <2>4, <2>6, <2>7, <2>8, <2>9, <2>10, <2>11
<1>3. AsText(x) = term
  BY <1>1 DEF AsText, Bare, IsTextLiteral, Types
<1>4. literal = [type |-> "unknown", val |-> Empty]
  <2>1. Val(Plain("literal", Empty)) = Empty
    BY DEF Val, Plain, Operand
  <2>2. Plain("literal", Empty).kind = "literal" /\ Plain("literal", Empty).type = "text"
    BY DEF Plain, Operand, Empty
  <2> QED BY <2>1, <2>2 DEF Bare, IsTextLiteral
<1>5. Apply(o, term, literal) = Compare(o, printed, Empty)
  <2>1. Empty[1] = "text"
    BY DEF Empty
  <2>2. Bind(literal, "text") = [type |-> "text", val |-> Empty] /\ Bind(term, "text") = term
    BY <1>4, <2>1 DEF Bind
  <2>3. term.type = "text" /\ term.val = printed /\ literal.type = "unknown"
    BY <1>4
  <2> HIDE DEF o, printed, term, literal
  <2> QED BY <2>2, <2>3 DEF Apply
<1> HIDE DEF printed, literal, term
<1>6. Compare(o, printed, Empty) = IF equal THEN IF v = Null THEN "U" ELSE Bool(v = Empty)
                                   ELSE Bool(v # Empty)
  BY <1>2, ConstantsDiffer DEF Compare
<1>7. EmptyOrNull(equal, x) = IF equal THEN Or(Compare(o, printed, Empty), Bool(v = Null))
                              ELSE And(Compare(o, printed, Empty), Not(Bool(v = Null)))
  BY <1>1, <1>3, <1>5 DEF EmptyOrNull, literal
<1> DEFINE isEmpty == v = Empty
           isNull == v = Null
<1>8. isEmpty \in BOOLEAN /\ isNull \in BOOLEAN
  OBVIOUS
<1>9. EmptyOrNull(equal, x) = IF equal THEN Bool(isEmpty \/ isNull) ELSE Bool(~isEmpty /\ ~isNull)
  <2>1. CASE equal /\ isNull
    <3>1. EmptyOrNull(equal, x) = "T"
      BY <1>6, <1>7, <2>1, Logic
    <3> QED BY <2>1, <3>1 DEF Bool
  <2>2. CASE equal /\ ~isNull
    <3>1. EmptyOrNull(equal, x) = Or(Bool(isEmpty), Bool(isNull))
      BY <1>6, <1>7, <2>2
    <3> HIDE DEF isEmpty, isNull
    <3>2. EmptyOrNull(equal, x) = Bool(isEmpty \/ isNull)
      BY <1>8, <3>1, Logic
    <3> QED BY <2>2, <3>2
  <2>3. CASE ~equal
    <3>1. EmptyOrNull(equal, x) = And(Bool(~isEmpty), Not(Bool(isNull)))
      BY <1>6, <1>7, <2>3
    <3> HIDE DEF isEmpty, isNull
    <3>2. Not(Bool(isNull)) = Bool(~isNull)
      BY <1>8, Logic
    <3>3. (~isNull) \in BOOLEAN /\ (~isEmpty) \in BOOLEAN
      OBVIOUS
    <3>4. And(Bool(~isEmpty), Bool(~isNull)) = Bool(~isEmpty /\ ~isNull)
      BY <3>3, Logic
    <3> QED BY <2>3, <3>1, <3>2, <3>4
  <2> QED BY <2>1, <2>2, <2>3
<1> QED BY <1>9

-----------------------------------------------------------------------------
(***************************************************************************)
(* A condition of PostgreSQL and that of SQLite.                           *)
(***************************************************************************)

\* Values of kinds that both dialects know apart
Unmixed(v, w) ==
    /\ JsonNull \notin {v, w}
    /\ ~(v[1] = "boolean" /\ w[1] = "numeric") /\ ~(w[1] = "boolean" /\ v[1] = "numeric")

\* SQLite's form of a value
LEMMA LVIs ==
    /\ \A v \in AllValues : v # JsonNull => (LV(v) = Null <=> v = Null) /\ (LV(v) = Empty <=> v = Empty)
    /\ \A v, w \in AllValues : Unmixed(v, w) => (LV(v) = LV(w) <=> v = w)
<1>1. \A v \in AllValues : v[1] # "boolean" /\ v # JsonNull => LV(v) = v
  BY DEF LV
<1>2. ASSUME NEW v \in AllValues, v[1] = "boolean"
      PROVE  /\ v = <<"boolean", v[2]>> /\ LV(v) = <<"numeric", v[2]>>
             /\ LV(v)[1] = "numeric" /\ LV(v)[2] = v[2]
  <2>1. v \in Bits("boolean")
    BY <1>2, Parts DEF AllValues, Texts
  <2>2. LV(v) = <<"numeric", v[2]>>
    BY <1>2 DEF LV
  <2>3. v = <<"boolean", v[2]>>
    BY <2>1, Parts
  <2>4. LV(v)[1] = "numeric" /\ LV(v)[2] = v[2]
    BY <2>2
  <2> QED BY <2>2, <2>3, <2>4
<1>3. ASSUME NEW v \in AllValues, v # JsonNull
      PROVE  (LV(v) = Null <=> v = Null) /\ (LV(v) = Empty <=> v = Empty)
  BY <1>1, <1>2, <1>3, Parts
<1>4. ASSUME NEW v \in AllValues, NEW w \in AllValues, Unmixed(v, w)
      PROVE  LV(v) = LV(w) <=> v = w
  <2>1. CASE v[1] = "boolean" /\ w[1] = "boolean"
    BY <1>2, <2>1
  <2>2. CASE v[1] = "boolean" /\ w[1] # "boolean"
    BY <1>1, <1>2, <1>4, <2>2 DEF Unmixed
  <2>3. CASE v[1] # "boolean" /\ w[1] = "boolean"
    BY <1>1, <1>2, <1>4, <2>3 DEF Unmixed
  <2>4. CASE v[1] # "boolean" /\ w[1] # "boolean"
    BY <1>1, <1>4, <2>4 DEF Unmixed
  <2> QED BY <2>1, <2>2, <2>3, <2>4
<1> QED BY <1>3, <1>4

\* So an equality of SQLite is that of the values
LEMMA SameEquality ==
    ASSUME NEW v \in AllValues, NEW w \in AllValues, Unmixed(v, w), NEW o \in {"=", "IS", "IS NOT"}
    PROVE  Compare(o, LV(v), LV(w)) = Compare(o, v, w)
<1>1. (LV(v) = Null <=> v = Null) /\ (LV(w) = Null <=> w = Null) /\ (LV(v) = LV(w) <=> v = w)
  BY LVIs DEF Unmixed
<1>2. CASE o = "="
  BY <1>1, <1>2 DEF Compare
<1>3. CASE o = "IS"
  BY <1>1, <1>3 DEF Compare
<1>4. CASE o = "IS NOT"
  BY <1>1, <1>4 DEF Compare
<1> QED BY <1>2, <1>3, <1>4

\* What a condition may give
LEMMA CompareIs ==
    /\ \A o, v, w : Compare(o, v, w) \in {"T", "F", "U"}
    /\ \A o, v, w : LiteOrder(o, v, w) \in {"T", "F", "U"}
BY DEF Compare, LiteOrder, Bool

\* PostgreSQL refuses, or both agree on what is true; strictly, on what is false too
Agree(pg, lite, strict) ==
    /\ lite # "E"
    /\ pg # "E" => (pg = "T" <=> lite = "T") /\ (strict => pg = lite)

\* A comparison for equality
LEMMA EqualAgrees ==
    ASSUME NEW p, NEW q, NEW v, NEW x, NEW y, NEW w, NEW equal \in BOOLEAN,
           Pair(p, q, v), Pair(x, y, w), Unmixed(v, w),
           IsColumn(p) /\ IsColumn(x) => ~({Empty, Null} \subseteq {v, w})
    PROVE  Agree(Equality(equal, p, x), LiteEquality(equal, q, y), IsColumn(p) \/ IsColumn(x))
<1> DEFINE eq == IF equal THEN "=" ELSE "IS NOT"
           pg == Equality(equal, p, x)
           lite == LiteEquality(equal, q, y)
           side(z, u) == IF IsEmpty(z) THEN Empty ELSE LV(u)
           strict == IsColumn(p) \/ IsColumn(x)
<1> SUFFICES Agree(pg, lite, strict)
  OBVIOUS
<1>1. /\ Row(p, v) /\ LiteVal(q) = LV(v) /\ Row(x, w) /\ LiteVal(y) = LV(w)
      /\ (LiteEmpty(q) <=> IsEmpty(p)) /\ (LiteKnown(q) <=> KnownNonEmpty(p))
      /\ (LiteEmpty(y) <=> IsEmpty(x)) /\ (LiteKnown(y) <=> KnownNonEmpty(x))
      /\ "disabled" \in {q.fallback, y.fallback} <=> "disabled" \in {p.fallback, x.fallback}
  BY DEF Pair
<1>2. Val(p) = v /\ Val(x) = w /\ v \in AllValues /\ w \in AllValues
  BY <1>1, RowFacts
<1>3. /\ Compare(eq, LV(v), LV(w)) = Compare(eq, v, w)
      /\ Compare(NullSafe(equal), LV(v), LV(w)) = Compare(NullSafe(equal), v, w)
      /\ Compare(eq, v, w) # "E" /\ Compare(NullSafe(equal), v, w) # "E"
  <2>1. eq \in {"=", "IS", "IS NOT"} /\ NullSafe(equal) \in {"=", "IS", "IS NOT"}
    BY DEF NullSafe
  <2> HIDE DEF eq
  <2>2. \A o \in {"=", "IS", "IS NOT"} : Compare(o, LV(v), LV(w)) = Compare(o, v, w)
    BY <1>2, SameEquality
  <2>3. \A o : Compare(o, v, w) # "E"
    BY CompareIs
  <2> QED BY <2>1, <2>2, <2>3
<1>4. /\ (LV(v) = Null <=> v = Null) /\ (LV(v) = Empty <=> v = Empty)
      /\ (LV(w) = Null <=> w = Null) /\ (LV(w) = Empty <=> w = Empty)
      /\ (LV(v) = LV(w) <=> v = w) /\ Empty # Null
  BY <1>2, LVIs, ConstantsDiffer DEF Unmixed
<1>6. NullSafe(equal) = IF equal THEN "IS" ELSE "IS NOT"
  BY DEF NullSafe
<1>7. \A a, b : a # "E" /\ b \in {"E", a} => Agree(b, a, strict)
  BY DEF Agree
<1>8. CASE "disabled" \in {p.fallback, x.fallback}
  <2>1. pg \in {"E", Compare(NullSafe(equal), v, w)}
    BY <1>2, <1>8, JoinGives DEF Equality
  <2>2. lite = Compare(NullSafe(equal), LV(v), LV(w))
    BY <1>1, <1>6, <1>8 DEF LiteEquality
  <2>3. lite = Compare(NullSafe(equal), v, w) /\ lite # "E"
    BY <1>3, <2>2
  <2> HIDE DEF pg, lite
  <2> QED BY <1>7, <2>1, <2>3
<1>9. CASE "disabled" \notin {p.fallback, x.fallback} /\ IsEmpty(p) /\ IsEmpty(x)
  BY <1>1, <1>9 DEF Agree, Equality, LiteEquality, Bool
<1>10. ASSUME "disabled" \notin {p.fallback, x.fallback}, ~(IsEmpty(p) /\ IsEmpty(x)),
              KnownNonEmpty(p) \/ KnownNonEmpty(x)
       PROVE  Agree(pg, lite, strict)
  <2>1. pg \in {"E", Compare(eq, v, w)}
    BY <1>2, <1>10, JoinGives DEF Equality
  <2>2. lite = Compare(eq, side(p, v), side(x, w))
    BY <1>1, <1>10 DEF LiteEquality
  <2>3. CASE ~IsEmpty(p) /\ ~IsEmpty(x)
    <3>1. lite = Compare(eq, v, w) /\ lite # "E"
      BY <1>3, <2>2, <2>3
    <3> HIDE DEF pg, lite
    <3> QED BY <1>7, <2>1, <3>1
  <2>4. CASE KnownNonEmpty(p) /\ IsEmpty(x)
    <3>1. v \notin {Empty, Null} /\ w \in {Empty, Null} /\ ~IsEmpty(p) /\ ~IsColumn(p) /\ ~IsColumn(x)
      BY <1>1, <2>4, RowFacts
    <3>2. lite = Bool(~equal)
      BY <1>4, <2>2, <2>4, <3>1 DEF Compare
    <3>3. Compare(eq, v, w) = "T" <=> ~equal
      BY <1>4, <3>1 DEF Compare, Bool
    <3> HIDE DEF pg, lite, eq
    <3> QED BY <2>1, <3>1, <3>2, <3>3 DEF Agree, Bool
  <2>5. CASE KnownNonEmpty(x) /\ IsEmpty(p)
    <3>1. w \notin {Empty, Null} /\ v \in {Empty, Null} /\ ~IsEmpty(x) /\ ~IsColumn(p) /\ ~IsColumn(x)
      BY <1>1, <2>5, RowFacts
    <3>2. lite = Bool(~equal)
      BY <1>4, <2>2, <2>5, <3>1 DEF Compare
    <3>3. Compare(eq, v, w) = "T" <=> ~equal
      BY <1>4, <3>1 DEF Compare, Bool
    <3> HIDE DEF pg, lite, eq
    <3> QED BY <2>1, <3>1, <3>2, <3>3 DEF Agree, Bool
  <2>6. (KnownNonEmpty(p) => ~IsEmpty(p)) /\ (KnownNonEmpty(x) => ~IsEmpty(x))
    BY DEF KnownNonEmpty
  <2> QED BY <1>10, <2>3, <2>4, <2>5, <2>6
<1> DEFINE Rest == /\ "disabled" \notin {p.fallback, x.fallback}
                   /\ ~KnownNonEmpty(p) /\ ~KnownNonEmpty(x)
<1>11. CASE Rest /\ IsEmpty(p) /\ ~IsEmpty(x)
  <2>1. pg = EmptyOrNull(equal, x) /\ IsColumn(x)
    BY <1>1, <1>11, RowFacts DEF Equality
  <2>2. lite = IF equal THEN Bool(w = Empty \/ w = Null) ELSE Bool(w # Empty /\ w # Null)
    <3>1. lite = IF equal THEN Bool(LV(w) \in {Empty, Null}) ELSE Bool(LV(w) \notin {Empty, Null})
      BY <1>1, <1>11 DEF LiteEquality
    <3>2. (LV(w) \in {Empty, Null}) = (w = Empty \/ w = Null)
      BY <1>4
    <3> HIDE DEF lite
    <3> QED BY <3>1, <3>2 DEF Bool
  <2>3. pg = lite /\ lite # "E"
    BY <1>1, <2>1, <2>2, EmptyOrNullIs DEF Bool
  <2> HIDE DEF pg, lite
  <2> QED BY <1>7, <2>3
<1>12. CASE Rest /\ ~IsEmpty(p) /\ IsEmpty(x)
  <2>1. pg = EmptyOrNull(equal, p) /\ IsColumn(p)
    BY <1>1, <1>12, RowFacts DEF Equality
  <2>2. lite = IF equal THEN Bool(v = Empty \/ v = Null) ELSE Bool(v # Empty /\ v # Null)
    <3>1. lite = IF equal THEN Bool(LV(v) \in {Empty, Null}) ELSE Bool(LV(v) \notin {Empty, Null})
      BY <1>1, <1>12 DEF LiteEquality
    <3>2. (LV(v) \in {Empty, Null}) = (v = Empty \/ v = Null)
      BY <1>4
    <3> HIDE DEF lite
    <3> QED BY <3>1, <3>2 DEF Bool
  <2>3. pg = lite /\ lite # "E"
    BY <1>1, <2>1, <2>2, EmptyOrNullIs DEF Bool
  <2> HIDE DEF pg, lite
  <2> QED BY <1>7, <2>3
<1>13. CASE Rest /\ ~IsEmpty(p) /\ ~IsEmpty(x)
  <2>1. IsColumn(p) /\ IsColumn(x)
    BY <1>1, <1>13, RowFacts
  <2>2. pg \in {"E", Compare(NullSafe(equal), v, w)}
    <3>1. pg = Apply(NullSafe(equal), AsJson(p), AsJson(x))
      BY <1>13 DEF Equality
    <3> QED BY <1>2, <3>1, TermsGive, ApplyGives
  <2>3. lite = Compare(eq, Coalesced(q), Coalesced(y))
    BY <1>1, <1>13 DEF LiteEquality
  <2>4. /\ Coalesced(q) # Null /\ Coalesced(y) # Null
        /\ Coalesced(q) = Coalesced(y) <=> v = w
    BY <1>1, <1>4, <2>1 DEF Coalesced
  <2>5. lite = Compare(NullSafe(equal), v, w) /\ lite # "E"
    BY <1>6, <2>3, <2>4 DEF Compare, Bool
  <2> HIDE DEF pg, lite
  <2> QED BY <1>7, <2>2, <2>5
<1> HIDE DEF pg, lite, strict
<1> QED BY <1>8, <1>9, <1>10, <1>11, <1>12, <1>13

Blank == ""

\* The places of the kinds and of the texts
LEMMA Places ==
    /\ Place("null", JsonKinds) = 1 /\ Place("text", JsonKinds) = 2
    /\ Place("numeric", JsonKinds) = 3 /\ Place("boolean", JsonKinds) = 4
    /\ Place("numeric", LiteKinds) = 1 /\ Place("text", LiteKinds) = 2
    /\ \A texts \in {Bytewise, Linguistic} :
          /\ Place(Blank, texts) = 1 /\ Place("0", texts) = 4 /\ Place("1", texts) = 5
          /\ Place("false", texts) = 8 /\ Place("true", texts) = 10
    /\ Place("A", Bytewise) = 6 /\ Place("a", Bytewise) = 7
    /\ Place("a", Linguistic) = 6 /\ Place("A", Linguistic) = 7
<1>1. ASSUME NEW order, NEW x, NEW m \in DOMAIN order, \A n \in DOMAIN order : order[n] = x <=> n = m
      PROVE  Place(x, order) = m
  BY <1>1 DEF Place
<1>2. /\ Place("null", JsonKinds) = 1 /\ Place("text", JsonKinds) = 2
      /\ Place("numeric", JsonKinds) = 3 /\ Place("boolean", JsonKinds) = 4
  <2>1. DOMAIN JsonKinds = 1 .. 4 /\ \A n \in 1 .. 4 : n \in {1, 2, 3, 4}
    BY DEF JsonKinds
  <2>2. /\ JsonKinds[1] = "null" /\ JsonKinds[2] = "text" /\ JsonKinds[3] = "numeric"
        /\ JsonKinds[4] = "boolean"
    BY DEF JsonKinds
  <2>3. \A n \in 1 .. 4 : /\ JsonKinds[n] = "null" <=> n = 1
                          /\ JsonKinds[n] = "text" <=> n = 2
                          /\ JsonKinds[n] = "numeric" <=> n = 3
                          /\ JsonKinds[n] = "boolean" <=> n = 4
    BY <2>1, <2>2
  <2> QED BY <1>1, <2>1, <2>3
<1>3. Place("numeric", LiteKinds) = 1 /\ Place("text", LiteKinds) = 2
  <2>1. DOMAIN LiteKinds = 1 .. 2 /\ \A n \in 1 .. 2 : n \in {1, 2}
    BY DEF LiteKinds
  <2>2. LiteKinds[1] = "numeric" /\ LiteKinds[2] = "text"
    BY DEF LiteKinds
  <2> QED BY <1>1, <2>1, <2>2
<1>4. \A n \in 1 .. 10 : n \in {1, 2, 3, 4, 5, 6, 7, 8, 9, 10}
  OBVIOUS
<1>5. ASSUME NEW texts, DOMAIN texts = 1 .. 10,
             NEW m \in 1 .. 10, \A n \in 1 .. 10 : n # m => texts[n] # texts[m]
      PROVE  Place(texts[m], texts) = m
  BY <1>1, <1>5
<1>6. /\ DOMAIN Bytewise = 1 .. 10
      /\ Bytewise[1] = "" /\ Bytewise[2] = "'A'" /\ Bytewise[3] = "'a'" /\ Bytewise[4] = "0"
      /\ Bytewise[5] = "1" /\ Bytewise[6] = "A" /\ Bytewise[7] = "a" /\ Bytewise[8] = "false"
      /\ Bytewise[9] = "null" /\ Bytewise[10] = "true"
  BY DEF Bytewise
<1>7. /\ DOMAIN Linguistic = 1 .. 10
      /\ Linguistic[1] = "" /\ Linguistic[2] = "'a'" /\ Linguistic[3] = "'A'"
      /\ Linguistic[4] = "0" /\ Linguistic[5] = "1" /\ Linguistic[6] = "a"
      /\ Linguistic[7] = "A" /\ Linguistic[8] = "false" /\ Linguistic[9] = "null"
      /\ Linguistic[10] = "true"
  BY DEF Linguistic
<1>8. \A n \in 1 .. 10, m \in {1, 4, 5, 6, 7, 8, 10} : n # m => Bytewise[n] # Bytewise[m]
  BY ONLY <1>4, <1>6
<1>9. \A n \in 1 .. 10, m \in {1, 4, 5, 6, 7, 8, 10} : n # m => Linguistic[n] # Linguistic[m]
  BY ONLY <1>4, <1>7
<1>10. {1, 4, 5, 6, 7, 8, 10} \subseteq 1 .. 10
  OBVIOUS
<1>11. \A m \in {1, 4, 5, 6, 7, 8, 10} :
          Place(Bytewise[m], Bytewise) = m /\ Place(Linguistic[m], Linguistic) = m
  <2>1. DOMAIN Bytewise = 1 .. 10 /\ DOMAIN Linguistic = 1 .. 10
    BY <1>6, <1>7
  <2> QED BY ONLY <1>5, <1>8, <1>9, <1>10, <2>1
<1>12. /\ Place(Blank, Bytewise) = 1 /\ Place("0", Bytewise) = 4 /\ Place("1", Bytewise) = 5
       /\ Place("false", Bytewise) = 8 /\ Place("true", Bytewise) = 10
       /\ Place("A", Bytewise) = 6 /\ Place("a", Bytewise) = 7
  BY ONLY <1>6, <1>11, Zenon DEF Blank
<1>13. /\ Place(Blank, Linguistic) = 1 /\ Place("0", Linguistic) = 4 /\ Place("1", Linguistic) = 5
       /\ Place("false", Linguistic) = 8 /\ Place("true", Linguistic) = 10
       /\ Place("a", Linguistic) = 6 /\ Place("A", Linguistic) = 7
  BY ONLY <1>7, <1>11, Zenon DEF Blank
<1> QED BY <1>2, <1>3, <1>12, <1>13

\* The ranks of the values in the two dialects
LEMMA Ranks ==
    /\ Rank(<<"boolean", "0">>) = 84 /\ Rank(<<"boolean", "1">>) = 85
    /\ Rank(<<"numeric", "0">>) = 64 /\ Rank(<<"numeric", "1">>) = 65
    /\ LiteRank(<<"numeric", "0">>) = 24 /\ LiteRank(<<"numeric", "1">>) = 25
    /\ Rank(<<"text", "false">>) = 48 /\ Rank(<<"text", "true">>) = 50
    /\ Rank(Empty) = 41 /\ LiteRank(Empty) = 41
    /\ LiteRank(<<"text", "A">>) = 46 /\ LiteRank(<<"text", "a">>) = 47
    /\ Rank(<<"text", "A">>) = IF Collation = "bytewise" THEN 46 ELSE 47
    /\ Rank(<<"text", "a">>) = IF Collation = "bytewise" THEN 47 ELSE 46
<1> DEFINE texts == IF Collation = "bytewise" THEN Bytewise ELSE Linguistic
<1>1. \A a, b : Rank(<<a, b>>) = 20 * Place(a, JsonKinds) + Place(b, texts)
  BY DEF Rank, RankIn
<1>2. \A a, b : LiteRank(<<a, b>>) = 20 * Place(a, LiteKinds) + Place(b, Bytewise)
  BY DEF LiteRank, RankIn
<1>3. /\ Place("A", texts) = IF Collation = "bytewise" THEN 6 ELSE 7
      /\ Place("a", texts) = IF Collation = "bytewise" THEN 7 ELSE 6
  BY Places
<1>4. /\ Place(Blank, texts) = 1 /\ Place("0", texts) = 4 /\ Place("1", texts) = 5
      /\ Place("false", texts) = 8 /\ Place("true", texts) = 10
  BY Places
<1>5. /\ Place(Blank, Bytewise) = 1 /\ Place("0", Bytewise) = 4 /\ Place("1", Bytewise) = 5
      /\ Place("A", Bytewise) = 6 /\ Place("a", Bytewise) = 7
  BY Places
<1>6. Empty = <<"text", Blank>>
  BY DEF Empty, Blank
<1> HIDE DEF texts
<1>7. /\ Rank(<<"boolean", "0">>) = 84 /\ Rank(<<"boolean", "1">>) = 85
      /\ Rank(<<"numeric", "0">>) = 64 /\ Rank(<<"numeric", "1">>) = 65
      /\ LiteRank(<<"numeric", "0">>) = 24 /\ LiteRank(<<"numeric", "1">>) = 25
  <2>1. /\ Place("boolean", JsonKinds) = 4 /\ Place("numeric", JsonKinds) = 3
        /\ Place("numeric", LiteKinds) = 1
    BY Places
  <2> QED BY ONLY <1>1, <1>2, <1>4, <1>5, <2>1
<1>8. /\ Rank(<<"text", "false">>) = 48 /\ Rank(<<"text", "true">>) = 50
      /\ Rank(<<"text", Blank>>) = 41 /\ LiteRank(<<"text", Blank>>) = 41
      /\ LiteRank(<<"text", "A">>) = 46 /\ LiteRank(<<"text", "a">>) = 47
      /\ Rank(<<"text", "A">>) = IF Collation = "bytewise" THEN 46 ELSE 47
      /\ Rank(<<"text", "a">>) = IF Collation = "bytewise" THEN 47 ELSE 46
  <2>1. Place("text", JsonKinds) = 2 /\ Place("text", LiteKinds) = 2
    BY Places
  <2> QED BY ONLY <1>1, <1>2, <1>3, <1>4, <1>5, <2>1
<1> QED BY <1>6, <1>7, <1>8

\* The comparison of two ranks
LEMMA OrderIs ==
    ASSUME NEW o \in OrderOps
    PROVE  /\ \A v, w : Compare(o, v, w) = IF Null \in {v, w} THEN "U"
                                           ELSE Bool(InOrder(o, Rank(v), Rank(w)))
           /\ \A m, n, i, j : m \in Nat /\ n \in Nat /\ i \in Nat /\ j \in Nat
                                /\ (m < n <=> i < j) /\ (m = n <=> i = j)
                                  => (InOrder(o, m, n) <=> InOrder(o, i, j))
<1>1. o \notin {"=", "IS", "IS NOT"}
  BY DEF OrderOps
<1>2. \A v, w : Compare(o, v, w) = IF Null \in {v, w} THEN "U"
                                   ELSE Bool(InOrder(o, Rank(v), Rank(w)))
  BY ONLY <1>1 DEF Compare
<1>3. ASSUME NEW m \in Nat, NEW n \in Nat, NEW i \in Nat, NEW j \in Nat,
             m < n <=> i < j, m = n <=> i = j
      PROVE  InOrder(o, m, n) <=> InOrder(o, i, j)
  BY <1>3 DEF InOrder, OrderOps
<1> QED BY <1>2, <1>3

\* Kinds of values that an operator does not compare alike in the two dialects: the
\* booleans of SQLite are numbers, and come before any text, as its numbers do; and
\* letters, unless the collation is that of the bytes
Fair(o, v, w) ==
    /\ Unmixed(v, w)
    /\ o \in OrderOps =>
          /\ ~(v[1] = "boolean" /\ w[1] = "text") /\ ~(w[1] = "boolean" /\ v[1] = "text")
          /\ ~(v[1] = "numeric" /\ w[1] = "text") /\ ~(w[1] = "numeric" /\ v[1] = "text")
          /\ Collation = "bytewise" \/ {v, w} # Words

\* Then SQLite's order is that of the values
LEMMA SameOrder ==
    ASSUME NEW o \in OrderOps, NEW v \in AllValues, NEW w \in AllValues, Fair(o, v, w)
    PROVE  LiteOrder(o, LV(v), LV(w)) = Compare(o, v, w)
<1>1. (LV(v) = Null <=> v = Null) /\ (LV(w) = Null <=> w = Null)
  BY LVIs DEF Fair, Unmixed
<1>2. CASE v = Null \/ w = Null
  BY <1>1, <1>2, OrderIs DEF LiteOrder
<1>3. CASE v # Null /\ w # Null
  <2>1. ASSUME NEW u \in AllValues, u \notin {Null, JsonNull}
        PROVE  \/ u[1] = "text" /\ u \in {Empty} \cup Words /\ LV(u) = u
               \/ u[1] = "numeric" /\ u = <<"numeric", u[2]>> /\ u[2] \in {"0", "1"}
                    /\ LV(u) = <<"numeric", u[2]>>
               \/ u[1] = "boolean" /\ u = <<"boolean", u[2]>> /\ u[2] \in {"0", "1"}
                    /\ LV(u) = <<"numeric", u[2]>>
    <3>1. u \in {Empty} \cup Words \/ u \in Bits("numeric") \/ u \in Bits("boolean")
      BY <2>1 DEF AllValues, Texts
    <3>2. CASE u \in {Empty} \cup Words
      BY <2>1, <3>2, Parts DEF LV
    <3>3. CASE u \in Bits("numeric")
      BY <2>1, <3>3, Parts DEF LV
    <3>4. CASE u \in Bits("boolean")
      <4>1. u[1] = "boolean" /\ u[2] \in {"0", "1"} /\ u = <<"boolean", u[2]>>
        BY <3>4, Parts
      <4>2. LV(u) = <<"numeric", u[2]>>
        BY <4>1 DEF LV
      <4> QED BY <4>1, <4>2
    <3> QED BY <3>1, <3>2, <3>3, <3>4
  <2>2. v \notin {Null, JsonNull} /\ w \notin {Null, JsonNull}
    BY <1>3 DEF Fair, Unmixed
  <2>3. CASE v[1] = "text" /\ w[1] = "text"
    <3>1. v \in {Empty} \cup Words /\ w \in {Empty} \cup Words /\ LV(v) = v /\ LV(w) = w
      BY <2>1, <2>2, <2>3
    <3>2. \A u \in Words : u = <<"text", "a">> \/ u = <<"text", "A">>
      BY DEF Words
    <3>3. v = w \/ v = Empty \/ w = Empty \/ Collation = "bytewise"
      BY <3>1, <3>2 DEF Fair, Words
    <3>6. \A u \in Words : /\ Rank(u) \in {46, 47} /\ LiteRank(u) \in {46, 47}
                           /\ Collation = "bytewise" => LiteRank(u) = Rank(u)
      BY <3>2, Ranks
    <3>7. Rank(Empty) = 41 /\ LiteRank(Empty) = 41
      BY Ranks
    <3>5. Collation = "bytewise" => LiteRank(v) = Rank(v) /\ LiteRank(w) = Rank(w)
      BY ONLY <3>1, <3>6, <3>7
    <3>8. /\ LiteRank(v) \in Nat /\ LiteRank(w) \in Nat /\ Rank(v) \in Nat /\ Rank(w) \in Nat
          /\ LiteRank(v) < LiteRank(w) <=> Rank(v) < Rank(w)
          /\ LiteRank(v) = LiteRank(w) <=> Rank(v) = Rank(w)
      BY ONLY <3>1, <3>3, <3>5, <3>6, <3>7
    <3>9. InOrder(o, LiteRank(v), LiteRank(w)) <=> InOrder(o, Rank(v), Rank(w))
      BY ONLY <3>8, o \in OrderOps, OrderIs
    <3> QED BY <1>3, <3>1, <3>9, OrderIs DEF LiteOrder, Bool
  <2>4. CASE v[1] # "text" \/ w[1] # "text"
    <3>1. PICK k \in {"numeric", "boolean"}, a \in {"0", "1"}, b \in {"0", "1"} :
            /\ v = <<k, a>> /\ LV(v) = <<"numeric", a>>
            /\ w = <<k, b>> /\ LV(w) = <<"numeric", b>>
      BY <2>1, <2>2, <2>4 DEF Fair, Unmixed
    <3>2. /\ LiteRank(LV(v)) = IF a = "0" THEN 24 ELSE 25
          /\ LiteRank(LV(w)) = IF b = "0" THEN 24 ELSE 25
      BY <3>1, Ranks
    <3>3. /\ Rank(v) = IF k = "numeric" THEN IF a = "0" THEN 64 ELSE 65
                       ELSE IF a = "0" THEN 84 ELSE 85
          /\ Rank(w) = IF k = "numeric" THEN IF b = "0" THEN 64 ELSE 65
                       ELSE IF b = "0" THEN 84 ELSE 85
      BY <3>1, Ranks
    <3>4. /\ LiteRank(LV(v)) \in Nat /\ LiteRank(LV(w)) \in Nat /\ Rank(v) \in Nat /\ Rank(w) \in Nat
          /\ LiteRank(LV(v)) < LiteRank(LV(w)) <=> Rank(v) < Rank(w)
          /\ LiteRank(LV(v)) = LiteRank(LV(w)) <=> Rank(v) = Rank(w)
      BY ONLY <3>2, <3>3
    <3>5. InOrder(o, LiteRank(LV(v)), LiteRank(LV(w))) <=> InOrder(o, Rank(v), Rank(w))
      BY ONLY <3>4, o \in OrderOps, OrderIs
    <3> QED BY <1>1, <1>3, <3>5, OrderIs DEF LiteOrder, Bool
  <2> QED BY <2>3, <2>4
<1> QED BY <1>2, <1>3

\* Booleans come in the same order as the words they are printed as
LEMMA SamePrinted ==
    ASSUME NEW s, NEW t, NEW v \in Bits("boolean") \cup {Null}, NEW w \in Bits("boolean") \cup {Null},
           NEW o \in OrderOps
    PROVE  Compare(o, Printed(s, v), Printed(t, w)) = Compare(o, v, w)
<1>1. ASSUME NEW type, NEW u \in Bits("boolean")
      PROVE  /\ Printed(type, u) # Null /\ u # Null
             /\ \/ Rank(u) = 84 /\ Rank(Printed(type, u)) = 48
                \/ Rank(u) = 85 /\ Rank(Printed(type, u)) = 50
  <2>1. u # Null /\ u = <<"boolean", u[2]>> /\ u[2] \in {"0", "1"}
    BY Parts, ConstantsDiffer
  <2>2. Printed(type, u) = <<"text", IF u[2] = "1" THEN "true" ELSE "false">>
    BY PrintedIs
  <2>3. Printed(type, u)[1] = "text"
    BY <2>2
  <2>4. Printed(type, u) # Null
    BY <2>3, Parts
  <2>5. CASE u[2] = "0"
    <3>1. u = <<"boolean", "0">>
      BY ONLY <2>1, <2>5
    <3>2. Printed(type, u) = <<"text", "false">>
      BY ONLY <2>2, <2>5
    <3> QED BY <2>1, <2>4, <3>1, <3>2, Ranks
  <2>6. CASE u[2] = "1"
    <3>1. u = <<"boolean", "1">>
      BY ONLY <2>1, <2>6
    <3>2. Printed(type, u) = <<"text", "true">>
      BY ONLY <2>2, <2>6
    <3> QED BY <2>1, <2>4, <3>1, <3>2, Ranks
  <2> QED BY <2>1, <2>5, <2>6
<1>2. Printed(s, Null) = Null /\ Printed(t, Null) = Null
  BY PrintedIs
<1>3. (Printed(s, v) = Null <=> v = Null) /\ (Printed(t, w) = Null <=> w = Null)
  BY <1>1, <1>2
<1>4. CASE v = Null \/ w = Null
  BY <1>3, <1>4, OrderIs
<1>5. CASE v # Null /\ w # Null
  <2>1. /\ \/ Rank(v) = 84 /\ Rank(Printed(s, v)) = 48
           \/ Rank(v) = 85 /\ Rank(Printed(s, v)) = 50
        /\ \/ Rank(w) = 84 /\ Rank(Printed(t, w)) = 48
           \/ Rank(w) = 85 /\ Rank(Printed(t, w)) = 50
    BY <1>1, <1>5
  <2>2. /\ Rank(v) \in Nat /\ Rank(w) \in Nat
        /\ Rank(Printed(s, v)) \in Nat /\ Rank(Printed(t, w)) \in Nat
        /\ Rank(Printed(s, v)) < Rank(Printed(t, w)) <=> Rank(v) < Rank(w)
        /\ Rank(Printed(s, v)) = Rank(Printed(t, w)) <=> Rank(v) = Rank(w)
    BY ONLY <2>1
  <2>3. InOrder(o, Rank(Printed(s, v)), Rank(Printed(t, w))) <=> InOrder(o, Rank(v), Rank(w))
    BY ONLY <2>2, o \in OrderOps, OrderIs
  <2> QED BY <1>3, <1>5, <2>3, OrderIs DEF Bool
<1> QED BY <1>4, <1>5

\* A boolean and a value of JSON are printed to be put in order
BothPrinted(p, v, x, w) ==
    /\ Ordered(p, x) = [type |-> "text", val |-> Printed(p.type, v)]
    /\ Ordered(x, p) = [type |-> "text", val |-> Printed(x.type, w)]
    /\ \/ p.type = "jsonb" /\ v \in ValuesOf("jsonb") /\ w \in Bits("boolean")
       \/ x.type = "jsonb" /\ w \in ValuesOf("jsonb") /\ v \in Bits("boolean")

\* The two sides of an order: their values, or the words of two booleans
LEMMA OrderedGive ==
    ASSUME NEW p, NEW v, NEW x, NEW w, Row(p, v), Row(x, w)
    PROVE  (Gives(Ordered(p, x), v) /\ Gives(Ordered(x, p), w)) \/ BothPrinted(p, v, x, w)
<1>1. Val(p) = v /\ Val(x) = w
  BY RowFacts
<1>2. CASE \/ "" \in {Inferred(p), Inferred(x)} \/ Inferred(p) = Inferred(x)
           \/ Inferred(p) = "numeric" \/ Inferred(x) = "numeric"
  BY <1>1, <1>2, TermsGive DEF Ordered
<1>3. CASE ~(\/ "" \in {Inferred(p), Inferred(x)} \/ Inferred(p) = Inferred(x)
             \/ Inferred(p) = "numeric" \/ Inferred(x) = "numeric")
  <2>1. Ordered(p, x) = AsText(p) /\ Ordered(x, p) = AsText(x)
    BY <1>3 DEF Ordered
  <2>2. ASSUME NEW o, NEW u, Row(o, u), Inferred(o) # "", Inferred(o) # "numeric"
        PROVE  /\ AsText(o) = [type |-> "text", val |-> Printed(o.type, u)]
               /\ \/ Inferred(o) = "jsonb" /\ o.type = "jsonb" /\ u \in ValuesOf("jsonb")
                  \/ Inferred(o) = "boolean" /\ u \in Bits("boolean")
    <3>1. o.kind = "json" \/ (o.kind = "literal" /\ o.type # "text")
      BY <2>2 DEF Inferred
    <3>2. Inferred(o) = o.type /\ Val(o) = u
      BY <2>2, RowFacts DEF Inferred
    <3>3. CASE o.kind = "json"
      <4>1. o.type = "jsonb" /\ u \in ValuesOf("jsonb")
        BY <2>2, <3>3 DEF Row
      <4> QED BY <3>2, <3>3, <4>1 DEF AsText, Bare, IsTextLiteral
    <3>4. CASE o.kind = "literal" /\ o.type # "text"
      <4>1. o.type = u[1] /\ u \in {Empty} \cup Bits("numeric") \cup Bits("boolean")
        BY <2>2, <3>4 DEF Row
      <4>2. u \in Bits("boolean") /\ o.type = "boolean"
        BY <2>2, <3>2, <3>4, <4>1, Parts
      <4> QED BY <3>2, <3>4, <4>2 DEF AsText, Bare, IsTextLiteral
    <3> QED BY <3>1, <3>3, <3>4
  <2>3. BothPrinted(p, v, x, w)
    BY <1>3, <2>1, <2>2 DEF BothPrinted
  <2> QED BY <2>3
<1> QED BY <1>2, <1>3

\* A comparison for order
LEMMA OrderAgrees ==
    ASSUME NEW o \in OrderOps, NEW p, NEW q, NEW v, NEW x, NEW y, NEW w,
           Pair(p, q, v), Pair(x, y, w), Fair(o, v, w)
    PROVE  Agree(Apply(o, Ordered(p, x), Ordered(x, p)), LiteOrder(o, LiteVal(q), LiteVal(y)), TRUE)
<1> DEFINE pg == Apply(o, Ordered(p, x), Ordered(x, p))
           lite == LiteOrder(o, LiteVal(q), LiteVal(y))
<1>1. Row(p, v) /\ LiteVal(q) = LV(v) /\ Row(x, w) /\ LiteVal(y) = LV(w) /\ Unmixed(v, w)
  BY DEF Pair, Fair
<1>2. v \in AllValues /\ w \in AllValues
  BY <1>1, RowFacts
<1>3. lite = Compare(o, v, w) /\ lite # "E"
  BY <1>1, <1>2, SameOrder, CompareIs
<1>4. CASE Gives(Ordered(p, x), v) /\ Gives(Ordered(x, p), w)
  <2>1. pg \in {"E", Compare(o, v, w)}
    BY <1>4, ApplyGives
  <2> HIDE DEF pg, lite
  <2>2. Agree(pg, lite, TRUE)
    BY <1>3, <2>1 DEF Agree
  <2> QED BY <2>2 DEF pg, lite
<1>5. CASE BothPrinted(p, v, x, w)
  <2>1. ASSUME NEW a, NEW b
        PROVE  Apply(o, [type |-> "text", val |-> a], [type |-> "text", val |-> b]) = Compare(o, a, b)
    BY DEF Apply, Bind
  <2>2. pg = Compare(o, Printed(p.type, v), Printed(x.type, w))
    BY <1>5, <2>1 DEF BothPrinted
  <2>3. v \in Bits("boolean") \cup {Null} /\ w \in Bits("boolean") \cup {Null}
    <3>1. ASSUME NEW a, NEW b, Fair(o, a, b) \/ Fair(o, b, a),
                 a \in ValuesOf("jsonb"), b \in Bits("boolean")
          PROVE  a \in Bits("boolean") \cup {Null}
      <4>1. b[1] = "boolean"
        BY <3>1, Parts
      <4>2. a[1] \notin {"text", "numeric"} /\ a # JsonNull
        BY <3>1, <4>1 DEF Fair, Unmixed
      <4>3. a \in Words \cup Bits("numeric") \cup Bits("boolean") \cup {JsonNull, Null}
        BY <3>1, ValueKinds
      <4>4. a \notin Words
        <5>1. \A u \in Words : u[1] = "text"
          BY Parts
        <5> QED BY <4>2, <5>1
      <4>5. a \notin Bits("numeric")
        <5>1. \A u \in Bits("numeric") : u[1] = "numeric"
          BY Parts
        <5> QED BY <4>2, <5>1
      <4> QED BY <4>2, <4>3, <4>4, <4>5
    <3> QED BY <1>5, <3>1 DEF BothPrinted
  <2>4. pg = Compare(o, v, w)
    BY <2>2, <2>3, SamePrinted
  <2> HIDE DEF pg, lite
  <2>5. Agree(pg, lite, TRUE)
    BY <1>3, <2>4 DEF Agree
  <2> QED BY <2>5 DEF pg, lite
<1>6. (Gives(Ordered(p, x), v) /\ Gives(Ordered(x, p), w)) \/ BothPrinted(p, v, x, w)
  BY <1>1, OrderedGive
<1> HIDE DEF pg, lite
<1> QED BY <1>4, <1>5, <1>6

\* The condition for two operands with one value each, but for LIKE
LEMMA ConditionAgrees ==
    ASSUME NEW o \in EqualOps \cup OrderOps, NEW p, NEW q, NEW v, NEW x, NEW y, NEW w,
           Pair(p, q, v), Pair(x, y, w), Fair(o, v, w),
           IsColumn(p) /\ IsColumn(x) => ~({Empty, Null} \subseteq {v, w})
    PROVE  Agree(Cond("postgres", o, p, x), Cond("sqlite", o, q, y), IsColumn(p) \/ IsColumn(x))
<1>1. Cond("postgres", o, p, x) = Condition(o, p, x) /\ Cond("sqlite", o, q, y) = LiteCondition(o, q, y)
  BY DEF Cond
<1>2. CASE o \in EqualOps
  <2> DEFINE equal == o = "="
  <2>1. /\ Condition(o, p, x) = Equality(equal, p, x)
        /\ LiteCondition(o, q, y) = LiteEquality(equal, q, y)
    BY <1>2 DEF EqualOps, LikeOps, OrderOps, Condition, LiteCondition
  <2>2. equal \in BOOLEAN /\ Unmixed(v, w)
    BY DEF Fair
  <2> HIDE DEF equal
  <2> QED BY <1>1, <2>1, <2>2, EqualAgrees
<1>3. CASE o \in OrderOps
  <2>1. /\ Condition(o, p, x) = Apply(o, Ordered(p, x), Ordered(x, p))
        /\ LiteCondition(o, q, y) = LiteOrder(o, LiteVal(q), LiteVal(y))
    BY <1>3 DEF EqualOps, LikeOps, OrderOps, Condition, LiteCondition
  <2>2. Agree(Condition(o, p, x), LiteCondition(o, q, y), TRUE)
    BY <1>3, <2>1, OrderAgrees
  <2> QED BY <1>1, <2>2 DEF Agree
<1> QED BY <1>2, <1>3

-----------------------------------------------------------------------------
(***************************************************************************)
(* The rows of a record.                                                   *)
(***************************************************************************)

\* An operand with the value v in the subquery; many: is the other multi-match too
Sub(dialect, o, v, many) ==
    IF o.many THEN Column(o, v, IF many THEN o.fallback ELSE Kept(dialect, o.fallback))
    ELSE [o EXCEPT !.fallback = "auto", !.vals = {v}]

Outer(dialect, o, l, r) ==
    {Cond(dialect, o, At(l, v), At(r, w)) : v \in l.vals, w \in r.vals}
Inside(dialect, o, l, r) ==
    {Cond(dialect, o, Sub(dialect, l, v, r.many), Sub(dialect, r, w, l.many)) :
        v \in l.vals, w \in r.vals}

\* Selected in terms of the rows of a record and of those of its subquery
LEMMA SelectedIs ==
    ASSUME NEW dialect, NEW o, NEW any, NEW l, NEW r
    PROVE  Selected(dialect, o, any, l, r) =
               IF \/ "E" \in Outer(dialect, o, l, r)
                  \/ ~any /\ (l.many \/ r.many) /\ "E" \in Inside(dialect, o, l, r)
               THEN "E"
               ELSE Bool(/\ "T" \in Outer(dialect, o, l, r)
                         /\ ~any /\ (l.many \/ r.many) => "F" \notin Inside(dialect, o, l, r))
<1> DEFINE multi == ~any /\ (l.many \/ r.many)
<1>1. Selected(dialect, o, any, l, r) =
        IF "E" \in Outer(dialect, o, l, r) \/ (multi /\ "E" \in Inside(dialect, o, l, r)) THEN "E"
        ELSE Bool("T" \in Outer(dialect, o, l, r)
                    /\ (multi => ~Refuted(Inside(dialect, o, l, r))))
  BY ONLY DEF Selected, Outer, Inside, Sub, At
<1>2. Refuted(Inside(dialect, o, l, r)) <=> "F" \in Inside(dialect, o, l, r)
  BY DEF Refuted
<1> QED BY ONLY <1>1, <1>2 DEF Bool

\* The value u that SQLite has where PostgreSQL has v
Match(p, q, v, u) ==
    /\ Pair(At(p, v), At(q, u), v)
    /\ \A many \in BOOLEAN : Pair(Sub("postgres", p, v, many), Sub("sqlite", q, u, many), v)

\* An operand in a row
LEMMA OperandParts ==
    ASSUME NEW k, NEW t, NEW f, NEW m, NEW s
    PROVE  LET o == Operand(k, t, f, m, s)
           IN o.kind = k /\ o.type = t /\ o.fallback = f /\ o.many = m /\ o.vals = s
BY DEF Operand

Defaulted(o) == [o EXCEPT !.fallback = "auto"]

\* A row of an operand is written with its value
LEMMA AtIs ==
    ASSUME NEW k, NEW t, NEW f, NEW m, NEW s, NEW v
    PROVE  At(Operand(k, t, f, m, s), v) = Operand(k, t, f, m, {v})
BY DEF At, Operand

\* An operand with the default fallback
LEMMA DefaultedIs ==
    ASSUME NEW k, NEW t, NEW f, NEW m, NEW s
    PROVE  Defaulted(Operand(k, t, f, m, s)) = Operand(k, t, "auto", m, s)
BY DEF Defaulted, Operand

\* A field is the same in both dialects, whatever its value
LEMMA FieldMatches ==
    ASSUME NEW o, IsField(o), NEW v \in o.vals
    PROVE  Match(o, o, v, v)
<1>1. PICK k, t, f, m, s : o = Operand(k, t, f, m, s)
  BY DEF IsField
<1>2. /\ v \in ValuesOf(t) /\ t \in Types /\ m \in BOOLEAN
      /\ \/ k = "field" /\ t # "jsonb" /\ f \in {"auto", "enforced"}
         \/ k = "json" /\ t = "jsonb" /\ f = "disabled"
  <2>1. o.kind = k /\ o.type = t /\ o.fallback = f /\ o.many = m /\ o.vals = s
    BY <1>1, OperandParts
  <2> QED BY <2>1 DEF IsField, Column0, Types
<1>3. ASSUME NEW p, NEW q, NEW b, NEW c, NEW n,
             p = Operand(b, t, c, n, {v}),
             q.kind = b /\ q.vals = {v},
             b \in {"field", "json"}, b = "json" => t = "jsonb",
             c = "disabled" <=> q.fallback = "disabled"
      PROVE  Pair(p, q, v)
  <2>1. p.kind = b /\ p.type = t /\ p.fallback = c /\ p.vals = {v}
    BY <1>3, OperandParts
  <2>2. Row(p, v)
    BY <1>2, <1>3, <2>1 DEF Row
  <2>3. Val(q) = v
    BY <1>3 DEF Val
  <2>4. LiteVal(q) = LV(v)
    BY <2>3, Parts DEF LiteVal, LV
  <2>5. ~LiteEmpty(q) /\ ~IsEmpty(p) /\ ~LiteKnown(q) /\ ~KnownNonEmpty(p)
    BY <1>3, <2>1 DEF LiteEmpty, IsEmpty, LiteKnown, KnownNonEmpty
  <2> QED BY <1>3, <2>1, <2>2, <2>4, <2>5 DEF Pair
<1>4. Pair(At(o, v), At(o, v), v)
  <2>1. At(o, v) = Operand(k, t, f, m, {v})
    BY <1>1, AtIs
  <2>2. At(o, v).kind = k /\ At(o, v).vals = {v} /\ At(o, v).fallback = f
    BY <2>1, OperandParts
  <2> QED BY <1>2, <1>3, <2>1, <2>2
<1>5. ASSUME NEW dialect, NEW many \in BOOLEAN
      PROVE  /\ m => Sub(dialect, o, v, many) =
                       Operand("field", t, IF many THEN f ELSE Kept(dialect, f), FALSE, {v})
             /\ ~m => Sub(dialect, o, v, many) = Operand(k, t, "auto", m, {v})
  <2>1. o.kind = k /\ o.type = t /\ o.fallback = f /\ o.many = m
    BY <1>1, OperandParts
  <2>2. CASE m
    BY <2>1, <2>2 DEF Sub, Column
  <2>3. CASE ~m
    <3>1. Defaulted(o) = Operand(k, t, "auto", m, s)
      BY <1>1, DefaultedIs
    <3>2. At(Defaulted(o), v) = Operand(k, t, "auto", m, {v})
      BY <3>1, AtIs
    <3>3. Sub(dialect, o, v, many) = At(Defaulted(o), v)
      BY <2>1, <2>3 DEF Sub, At, Defaulted
    <3> QED BY <2>3, <3>2, <3>3
  <2> QED BY <1>2, <2>2, <2>3
<1>6. ASSUME NEW many \in BOOLEAN
      PROVE  Pair(Sub("postgres", o, v, many), Sub("sqlite", o, v, many), v)
  <2> DEFINE p == Sub("postgres", o, v, many)
             q == Sub("sqlite", o, v, many)
             pf == IF many THEN f ELSE Kept("postgres", f)
             qf == IF many THEN f ELSE Kept("sqlite", f)
  <2>1. pf = "disabled" <=> qf = "disabled"
    BY DEF Kept, Passed
  <2>2. /\ m => p = Operand("field", t, pf, FALSE, {v}) /\ q = Operand("field", t, qf, FALSE, {v})
        /\ ~m => p = Operand(k, t, "auto", m, {v}) /\ q = Operand(k, t, "auto", m, {v})
    BY <1>5 DEF p, q, pf, qf
  <2> HIDE DEF p, q, pf, qf
  <2>3. CASE m
    <3>1. p = Operand("field", t, pf, FALSE, {v}) /\ q = Operand("field", t, qf, FALSE, {v})
      BY <2>2, <2>3
    <3>2. q.kind = "field" /\ q.vals = {v} /\ q.fallback = qf
      BY <3>1 DEF Operand
    <3>3. Pair(p, q, v)
      BY <1>3, <2>1, <3>1, <3>2
    <3> QED BY <3>3 DEF p, q
  <2>4. CASE ~m
    <3>1. p = Operand(k, t, "auto", m, {v}) /\ q = Operand(k, t, "auto", m, {v})
      BY <2>2, <2>4
    <3>2. q.kind = k /\ q.vals = {v} /\ q.fallback = "auto"
      BY <3>1, OperandParts
    <3>3. Pair(p, q, v)
      BY <1>2, <1>3, <3>1, <3>2
    <3> QED BY <3>3 DEF p, q
  <2> QED BY <1>2, <2>3, <2>4
<1> QED BY <1>4, <1>6 DEF Match

\* A constant has one value
LEMMA PlainSingle ==
    ASSUME NEW k, NEW c PROVE Plain(k, c).many = FALSE
BY DEF Plain, Operand

\* The parts of a constant, which is its own row
LEMMA PlainIs ==
    ASSUME NEW k, NEW c
    PROVE  LET o == Plain(k, c)
           IN /\ o.kind = k /\ o.type = c[1] /\ o.fallback = "auto" /\ o.vals = {c}
              /\ Val(o) = c /\ At(o, c) = o
<1> DEFINE o == Plain(k, c)
<1>1. o.kind = k /\ o.type = c[1] /\ o.fallback = "auto" /\ o.vals = {c}
  BY DEF Plain, Operand
<1>2. Val(o) = c
  BY <1>1 DEF Val
<1>3. At(o, c) = o
  <2>1. \A no : At(Operand(k, c[1], "auto", no, {c}), c) = Operand(k, c[1], "auto", no, {c})
    BY AtIs
  <2> QED BY <2>1, Zenon DEF Plain
<1> QED BY <1>1, <1>2, <1>3

\* A constant is itself in a subquery too
LEMMA PlainSub ==
    ASSUME NEW k, NEW c, NEW dialect, NEW many
    PROVE  Sub(dialect, Plain(k, c), c, many) = Plain(k, c)
<1> DEFINE o == Plain(k, c)
<1>1. o.many = FALSE /\ At(o, c) = o
  <2>1. o.many = FALSE
    BY PlainSingle
  <2>2. At(o, c) = o
    BY PlainIs
  <2> QED BY <2>1, <2>2
<1>2. Defaulted(o) = o
  <2>1. \A no : Defaulted(Operand(k, c[1], "auto", no, {c})) = Operand(k, c[1], "auto", no, {c})
    BY DefaultedIs
  <2> QED BY <2>1, Zenon DEF Plain
<1>3. [o EXCEPT !.fallback = "auto", !.vals = {c}] = At(Defaulted(o), c)
  BY DEF At, Defaulted
<1> HIDE DEF o
<1>4. Sub(dialect, o, c, many) = o
  BY <1>1, <1>2, <1>3 DEF Sub
<1> QED BY <1>4 DEF o

\* A constant has one value, and SQLite the value that matches it
LEMMA ConstantMatches ==
    ASSUME NEW p, NEW q, NEW c, IsConstant(p, q, c)
    PROVE  /\ p.many = FALSE /\ q.many = FALSE /\ p.vals = {c} /\ ~IsColumn(p)
           /\ \E u : q.vals = {u} /\ Match(p, q, c, u)
<1>1. ASSUME NEW k \in {"param", "literal", "null"}, NEW n \in {"param", "literal", "null"}, NEW d,
             p = Plain(k, c), q = Plain(n, d), Row(p, c), LiteVal(q) = LV(c),
             IsEmpty(p) <=> n = "null" \/ d = Empty,
             k = "null" <=> n = "null"
      PROVE  /\ p.many = FALSE /\ q.many = FALSE /\ p.vals = {c} /\ ~IsColumn(p)
             /\ \E u : q.vals = {u} /\ Match(p, q, c, u)
  <2>0. p = Plain(k, c) /\ q = Plain(n, d)
    BY <1>1
  <2>1. /\ p.kind = k /\ p.fallback = "auto" /\ p.vals = {c} /\ Val(p) = c /\ At(p, c) = p
        /\ q.kind = n /\ q.fallback = "auto" /\ q.vals = {d} /\ Val(q) = d /\ At(q, d) = q
    BY <2>0, PlainIs
  <2>2. p.many = FALSE /\ q.many = FALSE
    BY <2>0, PlainSingle
  <2>3. Pair(p, q, c)
    BY <1>1, <2>1, <2>2 DEF Pair, LiteEmpty, LiteKnown, KnownNonEmpty, IsEmpty
  <2>4. Match(p, q, c, d)
    <3>1. \A many \in BOOLEAN : Sub("postgres", p, c, many) = p /\ Sub("sqlite", q, d, many) = q
      BY <1>1, PlainSub
    <3> QED BY <2>1, <2>2, <2>3, <3>1 DEF Match
  <2> QED BY <2>1, <2>2, <2>4 DEF IsColumn
<1>2. Empty # Null /\ \A w \in Words \cup Bits("numeric") \cup Bits("boolean") : w \notin {Empty, Null}
  BY ConstantsDiffer
<1>3. ASSUME NEW k, NEW n, NEW d, p = Plain(k, c), q = Plain(n, d)
      PROVE  /\ p.kind = k /\ p.type = c[1] /\ p.vals = {c} /\ Val(p) = c /\ q.kind = n /\ Val(q) = d
             /\ d[1] # "boolean" /\ d # JsonNull => LiteVal(q) = d
             /\ IsEmpty(p) <=> k = "null" \/ (k \in {"literal", "param"} /\ c = Empty)
  <2>1. /\ p.kind = k /\ p.type = c[1] /\ p.vals = {c} /\ Val(p) = c /\ q.kind = n /\ Val(q) = d
    BY <1>3, PlainIs
  <2> QED BY <2>1 DEF LiteVal, IsEmpty
<1>4. CASE c \in Words /\ p = Plain("param", c) /\ q = Plain("param", c)
  <2>1. c[1] = "text" /\ c # JsonNull
    BY <1>4, Parts
  <2>2. Row(p, c)
    BY <1>3, <1>4 DEF Row
  <2>3. LV(c) = c /\ LiteVal(q) = c
    BY <1>3, <1>4, <2>1 DEF LV
  <2>4. c # Empty /\ ~IsEmpty(p)
    BY <1>2, <1>3, <1>4
  <2> QED BY <1>1, <1>4, <2>2, <2>3, <2>4
<1>5. CASE c = Empty /\ p = Plain("literal", c) /\ q = Plain("param", c)
  <2>1. c[1] = "text" /\ c # JsonNull
    BY <1>5, Parts
  <2>2. Row(p, c)
    BY <1>3, <1>5 DEF Row
  <2>3. LV(c) = c /\ LiteVal(q) = c
    BY <1>3, <1>5, <2>1 DEF LV
  <2> QED BY <1>1, <1>2, <1>3, <1>5, <2>2, <2>3
<1>6. ASSUME c \in Bits("numeric"), q = Plain("param", c),
             NEW k \in {"param", "literal"}, p = Plain(k, c)
      PROVE  /\ p.many = FALSE /\ q.many = FALSE /\ p.vals = {c} /\ ~IsColumn(p)
             /\ \E u : q.vals = {u} /\ Match(p, q, c, u)
  <2>1. c[1] = "numeric" /\ c # JsonNull
    BY <1>6, Parts
  <2>2. Row(p, c)
    BY <1>3, <1>6 DEF Row
  <2>3. LV(c) = c /\ LiteVal(q) = c
    BY <1>3, <1>6, <2>1 DEF LV
  <2>4. c # Empty /\ ~IsEmpty(p)
    BY <1>2, <1>3, <1>6
  <2> QED BY <1>1, <1>6, <2>2, <2>3, <2>4
<1>7. CASE c \in Bits("boolean") /\ p = Plain("literal", c) /\ q = Plain("literal", LV(c))
  <2>1. c[1] = "boolean"
    BY <1>7, Parts
  <2>2. LV(c) = <<"numeric", c[2]>>
    BY <2>1 DEF LV
  <2>3. LV(c)[1] = "numeric"
    BY <2>2
  <2>4. LV(c) # JsonNull /\ LV(c) # Empty
    BY <2>3, Parts
  <2>5. Row(p, c)
    BY <1>3, <1>7 DEF Row
  <2>6. LiteVal(q) = LV(c)
    BY <1>3, <1>7, <2>3, <2>4
  <2> QED BY <1>1, <1>2, <1>3, <1>7, <2>4, <2>5, <2>6
<1>8. CASE c = Null /\ p = Plain("null", c) /\ q = Plain("null", c)
  <2>1. c[1] = "null" /\ c # JsonNull
    BY <1>8, Parts
  <2>2. Row(p, c)
    BY <1>3, <1>8, <2>1 DEF Row
  <2>3. LV(c) = c /\ LiteVal(q) = c
    BY <1>3, <1>8, <2>1 DEF LV
  <2> QED BY <1>1, <1>2, <1>3, <1>8, <2>2, <2>3
<1> QED BY <1>4, <1>5, <1>6, <1>7, <1>8 DEF IsConstant

\* The rows of an operand in the two dialects
LEMMA TwinRows ==
    ASSUME NEW p, NEW q, Twins(p, q)
    PROVE  /\ p.many \in BOOLEAN /\ q.many = p.many /\ (p.many => IsColumn(p))
           /\ \A v \in p.vals : \E u \in q.vals : Match(p, q, v, u)
           /\ \A u \in q.vals : \E v \in p.vals : Match(p, q, v, u)
           /\ \A v \in p.vals, many \in BOOLEAN :
                 /\ IsColumn(At(p, v)) => IsColumn(p)
                 /\ IsColumn(p) => IsColumn(Sub("postgres", p, v, many))
                 /\ IsColumn(Sub("postgres", p, v, many)) => IsColumn(p)
<1>1. CASE IsField(p) /\ q = p
  <2>1. \A v \in p.vals : Match(p, q, v, v)
    BY <1>1, FieldMatches
  <2>2. p.many \in BOOLEAN /\ IsColumn(p)
    BY <1>1 DEF IsField, Column0, IsColumn
  <2>3. ASSUME NEW v \in p.vals, NEW many \in BOOLEAN
        PROVE  IsColumn(Sub("postgres", p, v, many))
    <3>1. p.kind = Sub("postgres", p, v, many).kind \/ Sub("postgres", p, v, many).kind = "field"
      <4>1. CASE p.many
        <5>1. Sub("postgres", p, v, many)
                = Column(p, v, IF many THEN p.fallback ELSE Kept("postgres", p.fallback))
          BY <4>1 DEF Sub
        <5>2. \A f : Column(p, v, f).kind = "field"
          BY DEF Column, Operand
        <5> QED BY <5>1, <5>2
      <4>2. CASE ~p.many
        <5>1. Sub("postgres", p, v, many) = [p EXCEPT !.fallback = "auto", !.vals = {v}]
          BY <4>2 DEF Sub
        <5>2. PICK k, t, f, m, s : p = Operand(k, t, f, m, s)
          BY <1>1 DEF IsField
        <5>3. Defaulted(p) = Operand(k, t, "auto", m, s)
          BY <5>2, DefaultedIs
        <5>4. At(Defaulted(p), v) = Operand(k, t, "auto", m, {v})
          BY <5>3, AtIs
        <5>5. Sub("postgres", p, v, many) = At(Defaulted(p), v)
          BY <5>1 DEF At, Defaulted
        <5>6. p.kind = k /\ Sub("postgres", p, v, many).kind = k
          BY <5>2, <5>4, <5>5, OperandParts
        <5> QED BY <5>6
      <4> QED BY <2>2, <4>1, <4>2
    <3> QED BY <2>2, <3>1 DEF IsColumn
  <2> QED BY <1>1, <2>1, <2>2, <2>3
<1>2. CASE \E c : IsConstant(p, q, c)
  <2>1. PICK c : IsConstant(p, q, c)
    BY <1>2
  <2>2. p.many = FALSE /\ q.many = FALSE /\ p.vals = {c} /\ ~IsColumn(p)
    BY <2>1, ConstantMatches
  <2>3. PICK u : q.vals = {u} /\ Match(p, q, c, u)
    BY <2>1, ConstantMatches
  <2>4. \E k : p = Plain(k, c)
    BY <2>1 DEF IsConstant
  <2>5. At(p, c) = p /\ \A many \in BOOLEAN : Sub("postgres", p, c, many) = p
    <3>1. PICK k : p = Plain(k, c)
      BY <2>4
    <3>2. At(p, c) = p
      BY <3>1, PlainIs
    <3>3. ASSUME NEW many \in BOOLEAN PROVE Sub("postgres", p, c, many) = p
      BY <3>1, PlainSub
    <3> QED BY <3>2, <3>3
  <2> QED BY <2>2, <2>3, <2>5
<1> QED BY <1>1, <1>2 DEF Twins

\* A record is selected in both dialects or in neither
LEMMA SelectedAgrees ==
    ASSUME NEW o \in EqualOps \cup OrderOps, NEW any \in BOOLEAN, NEW l, NEW l2, NEW r, NEW r2,
           Twins(l, l2), Twins(r, r2),
           \A v \in l.vals, w \in r.vals :
              Fair(o, v, w) /\ (IsColumn(l) /\ IsColumn(r) => ~({Empty, Null} \subseteq {v, w})),
           Selected("postgres", o, any, l, r) # "E"
    PROVE  Selected("postgres", o, any, l, r) = "T" <=> Selected("sqlite", o, any, l2, r2) = "T"
<1> DEFINE multi == ~any /\ (l.many \/ r.many)
           outer == Outer("postgres", o, l, r)
           inside == Inside("postgres", o, l, r)
           outer2 == Outer("sqlite", o, l2, r2)
           inside2 == Inside("sqlite", o, l2, r2)
<1>1. /\ l.many \in BOOLEAN /\ r.many \in BOOLEAN /\ l2.many = l.many /\ r2.many = r.many
      /\ l.many => IsColumn(l)
      /\ r.many => IsColumn(r)
  BY TwinRows
<1>2. /\ \A v \in l.vals : \E u \in l2.vals : Match(l, l2, v, u)
      /\ \A u \in l2.vals : \E v \in l.vals : Match(l, l2, v, u)
      /\ \A w \in r.vals : \E t \in r2.vals : Match(r, r2, w, t)
      /\ \A t \in r2.vals : \E w \in r.vals : Match(r, r2, w, t)
  BY TwinRows
<1>3. ASSUME NEW v \in l.vals, NEW u \in l2.vals, NEW w \in r.vals, NEW t \in r2.vals,
             Match(l, l2, v, u), Match(r, r2, w, t)
      PROVE  /\ Agree(Cond("postgres", o, At(l, v), At(r, w)), Cond("sqlite", o, At(l2, u), At(r2, t)),
                      FALSE)
             /\ l.many \/ r.many =>
                  Agree(Cond("postgres", o, Sub("postgres", l, v, r.many), Sub("postgres", r, w, l.many)),
                        Cond("sqlite", o, Sub("sqlite", l2, u, r2.many), Sub("sqlite", r2, t, l2.many)),
                        TRUE)
  <2>1. /\ Pair(At(l, v), At(l2, u), v) /\ Pair(At(r, w), At(r2, t), w)
        /\ Pair(Sub("postgres", l, v, r.many), Sub("sqlite", l2, u, r.many), v)
        /\ Pair(Sub("postgres", r, w, l.many), Sub("sqlite", r2, t, l.many), w)
    BY <1>1, <1>3 DEF Match
  <2>2. /\ IsColumn(At(l, v)) => IsColumn(l)
        /\ IsColumn(At(r, w)) => IsColumn(r)
        /\ IsColumn(Sub("postgres", l, v, r.many)) <=> IsColumn(l)
        /\ IsColumn(Sub("postgres", r, w, l.many)) <=> IsColumn(r)
    BY <1>1, TwinRows
  <2>3. Fair(o, v, w) /\ (IsColumn(l) /\ IsColumn(r) => ~({Empty, Null} \subseteq {v, w}))
    OBVIOUS
  <2>4. \A a, b, s : Agree(a, b, s) => Agree(a, b, FALSE)
    BY DEF Agree
  <2>5. \A a, b, s : Agree(a, b, s) /\ s => Agree(a, b, TRUE)
    BY DEF Agree
  <2>6. Agree(Cond("postgres", o, At(l, v), At(r, w)), Cond("sqlite", o, At(l2, u), At(r2, t)),
              IsColumn(At(l, v)) \/ IsColumn(At(r, w)))
    BY <2>1, <2>2, <2>3, ConditionAgrees
  <2>7. Agree(Cond("postgres", o, Sub("postgres", l, v, r.many), Sub("postgres", r, w, l.many)),
              Cond("sqlite", o, Sub("sqlite", l2, u, r.many), Sub("sqlite", r2, t, l.many)),
              IsColumn(Sub("postgres", l, v, r.many)) \/ IsColumn(Sub("postgres", r, w, l.many)))
    BY <2>1, <2>2, <2>3, ConditionAgrees
  <2> QED BY <1>1, <2>2, <2>4, <2>5, <2>6, <2>7
<1>4. "E" \notin outer2 /\ (l.many \/ r.many => "E" \notin inside2)
  BY <1>2, <1>3 DEF Outer, Inside, Agree
<1>5. Selected("postgres", o, any, l, r) = Bool("T" \in outer /\ (multi => "F" \notin inside))
      /\ "E" \notin outer /\ (multi => "E" \notin inside)
  <2>1. \A b : Bool(b) # "E"
    BY DEF Bool
  <2> QED BY <2>1, SelectedIs
<1>6. Selected("sqlite", o, any, l2, r2) = Bool("T" \in outer2 /\ (multi => "F" \notin inside2))
  BY <1>1, <1>4, SelectedIs
<1>7. "T" \in outer <=> "T" \in outer2
  <2>1. ASSUME "T" \in outer PROVE "T" \in outer2
    <3>1. PICK v \in l.vals, w \in r.vals : Cond("postgres", o, At(l, v), At(r, w)) = "T"
      BY <2>1 DEF Outer
    <3>2. PICK u \in l2.vals, t \in r2.vals : Match(l, l2, v, u) /\ Match(r, r2, w, t)
      BY <1>2
    <3>3. Cond("sqlite", o, At(l2, u), At(r2, t)) = "T"
      BY <1>3, <3>1, <3>2 DEF Agree
    <3> QED BY <3>3 DEF Outer
  <2>2. ASSUME "T" \in outer2 PROVE "T" \in outer
    <3>1. PICK u \in l2.vals, t \in r2.vals : Cond("sqlite", o, At(l2, u), At(r2, t)) = "T"
      BY <2>2 DEF Outer
    <3>2. PICK v \in l.vals, w \in r.vals : Match(l, l2, v, u) /\ Match(r, r2, w, t)
      BY <1>2
    <3>3. Cond("postgres", o, At(l, v), At(r, w)) # "E"
      BY <1>5 DEF Outer
    <3>4. Cond("postgres", o, At(l, v), At(r, w)) = "T"
      BY <1>3, <3>1, <3>2, <3>3 DEF Agree
    <3> QED BY <3>4 DEF Outer
  <2> QED BY <2>1, <2>2
<1>8. ASSUME multi PROVE "F" \in inside <=> "F" \in inside2
  <2>1. ASSUME "F" \in inside PROVE "F" \in inside2
    <3>1. PICK v \in l.vals, w \in r.vals :
             Cond("postgres", o, Sub("postgres", l, v, r.many), Sub("postgres", r, w, l.many)) = "F"
      BY <2>1 DEF Inside
    <3>2. PICK u \in l2.vals, t \in r2.vals : Match(l, l2, v, u) /\ Match(r, r2, w, t)
      BY <1>2
    <3>3. Cond("sqlite", o, Sub("sqlite", l2, u, r2.many), Sub("sqlite", r2, t, l2.many)) = "F"
      BY <1>3, <1>8, <3>1, <3>2 DEF Agree
    <3> QED BY <3>3 DEF Inside
  <2>2. ASSUME "F" \in inside2 PROVE "F" \in inside
    <3>1. PICK u \in l2.vals, t \in r2.vals :
             Cond("sqlite", o, Sub("sqlite", l2, u, r2.many), Sub("sqlite", r2, t, l2.many)) = "F"
      BY <2>2 DEF Inside
    <3>2. PICK v \in l.vals, w \in r.vals : Match(l, l2, v, u) /\ Match(r, r2, w, t)
      BY <1>2
    <3>3. Cond("postgres", o, Sub("postgres", l, v, r.many), Sub("postgres", r, w, l.many)) # "E"
      BY <1>5, <1>8 DEF Inside
    <3>4. Cond("postgres", o, Sub("postgres", l, v, r.many), Sub("postgres", r, w, l.many)) = "F"
      BY <1>3, <1>8, <3>1, <3>2, <3>3 DEF Agree
    <3> QED BY <3>4 DEF Inside
  <2> QED BY <2>1, <2>2
<1> HIDE DEF outer, inside, outer2, inside2, multi
<1> QED BY <1>5, <1>6, <1>7, <1>8 DEF Bool

-----------------------------------------------------------------------------
(***************************************************************************)
(* The filter that is read.                                                *)
(***************************************************************************)

\* A filter is read in order, and its statement selects, rejects or is refused, as
\* buildResolversExpr makes it of the tokens of a filter
THEOREM TypeCorrect == Spec => []TypeOK
<1> DEFINE Ops == (EqualOps \cup LikeOps \cup OrderOps) \X BOOLEAN
           Inv == /\ left \in Tokens \cup {None} /\ right \in Tokens \cup {None}
                  /\ op \in Ops \cup {<<"none", FALSE>>}
                  /\ right # None => op[1] # "none"
                  /\ op[1] # "none" => left # None
<1>1. Init => Inv
  BY DEF Init
<1>2. Inv /\ [Next]_vars => Inv'
  <2> SUFFICES ASSUME Inv, [Next]_vars PROVE Inv'
    OBVIOUS
  <2> HIDE DEF None
  <2>1. CASE ReadLeft
    BY <2>1 DEF ReadLeft
  <2>2. CASE ReadOp
    <3>1. PICK o \in EqualOps \cup LikeOps \cup OrderOps, any \in {FALSE, AnyOps} : op' = <<o, any>>
      BY <2>2 DEF ReadOp
    <3>2. any \in BOOLEAN /\ o # "none"
      BY FilterAssumption DEF EqualOps, LikeOps, OrderOps
    <3>3. op' \in Ops /\ op'[1] # "none"
      BY <3>1, <3>2
    <3> QED BY <2>2, <3>3 DEF ReadOp
  <2>3. CASE ReadRight
    BY <2>3 DEF ReadRight
  <2>4. CASE UNCHANGED vars
    BY <2>4 DEF vars
  <2> QED BY <2>1, <2>2, <2>3, <2>4 DEF Next
<1>3. Inv => TypeOK
  <2>1. Pg \in {"T", "F", "E"}
    <3>1. \A b : Bool(b) \in {"T", "F"}
      BY DEF Bool
    <3>2. Pg = Selected("postgres", op[1], op[2], L, R)
      BY DEF Pg, PgOf
    <3>3. Selected("postgres", op[1], op[2], L, R) \in {"T", "F", "E"}
      BY <3>1, SelectedIs
    <3> QED BY <3>2, <3>3
  <2> QED BY <2>1 DEF TypeOK
<1> QED BY <1>1, <1>2, <1>3, PTL DEF Spec

\* What is known of a filter that is read
LEMMA WhenRead ==
    ASSUME TypeOK, Read
    PROVE  /\ Twins(L, ResolveLite(left)) /\ Twins(R, ResolveLite(right))
           /\ left \in Tokens /\ right \in Tokens
           /\ op[1] \in EqualOps \cup LikeOps \cup OrderOps /\ op[2] \in BOOLEAN
<1>1. left \in Tokens /\ right \in Tokens
  BY DEF TypeOK, Read
<1>2. op \in (EqualOps \cup LikeOps \cup OrderOps) \X BOOLEAN
  <2>1. op[1] # "none"
    BY DEF TypeOK, Read
  <2>2. \A b : <<"none", b>>[1] = "none"
    OBVIOUS
  <2>3. op # <<"none", FALSE>>
    BY <2>1, <2>2, Zenon
  <2> QED BY <2>3 DEF TypeOK
<1> QED BY <1>1, <1>2, TokenShape DEF L, R

\* Whatever the tokens of a filter, what PostgreSQL accepts it selects as SQLite
\* does, however many values a multi-match field has (resolveEqualExpr,
\* resolveOrderingExpr, manyVsOneExpr, manyVsManyExpr)
THEOREM RecordsAreSelectedAlike == Spec => []SelectsAsSqlite
<1>1. TypeOK => SelectsAsSqlite
  <2> SUFFICES ASSUME TypeOK, Read, Pg # "E", op[1] \notin LikeOps,
                      ~KindsMixed, ~TextWithNumber, ~LettersDiffer,
                      JsonNull \notin Values, ~TwoEmpties
               PROVE  Pg = "T" <=> Lite = "T"
    BY DEF SelectsAsSqlite
  <2>1. /\ Twins(L, ResolveLite(left)) /\ Twins(R, ResolveLite(right))
        /\ op[1] \in EqualOps \cup OrderOps /\ op[2] \in BOOLEAN
    BY WhenRead
  <2>2. ASSUME NEW v \in L.vals, NEW w \in R.vals
        PROVE  Fair(op[1], v, w) /\ (IsColumn(L) /\ IsColumn(R) => ~({Empty, Null} \subseteq {v, w}))
    <3>1. v \in Values /\ w \in Values
      BY DEF Values
    <3>2. op[1] \in OrderOps => op[1] \notin EqualOps
      BY DEF OrderOps, EqualOps
    <3>3. op[1] \in OrderOps => {v[1], w[1]} # {"text", "numeric"} /\ (Collation = "bytewise" \/ {v, w} # Words)
      BY DEF TextWithNumber, LettersDiffer
    <3>5. Fair(op[1], v, w)
      BY <3>1, <3>2, <3>3 DEF Fair, Unmixed, KindsMixed
    <3>4. IsColumn(L) /\ IsColumn(R) => ~({Empty, Null} \subseteq Values)
      BY DEF TwoEmpties
    <3> QED BY <3>1, <3>4, <3>5
  <2>3. Pg = Selected("postgres", op[1], op[2], L, R)
    BY DEF Pg, PgOf
  <2>4. Lite = Selected("sqlite", op[1], op[2], ResolveLite(left), ResolveLite(right))
    BY DEF Lite
  <2> QED BY <2>1, <2>2, <2>3, <2>4, SelectedAgrees
<1> QED BY <1>1, TypeCorrect, PTL

-----------------------------------------------------------------------------
(***************************************************************************)
(* A filter and its mirror image.                                          *)
(***************************************************************************)

MirrorOf(o, n) ==
    \/ o \in {"=", "IS", "IS NOT"} /\ n = o
    \/ <<o, n>> \in {<<"<", ">">>, <<">", "<">>, <<"<=", ">=">>, <<">=", "<=">>}

\* A comparison seen from the other side
LEMMA CompareMirror ==
    ASSUME NEW o, NEW n, MirrorOf(o, n), NEW x, NEW y
    PROVE  Compare(n, y, x) = Compare(o, x, y)
<1>1. CASE o \in {"=", "IS", "IS NOT"}
  BY <1>1 DEF MirrorOf, Compare, Bool
<1>2. CASE o \in OrderOps
  <2>1. n \in OrderOps
    BY <1>2 DEF MirrorOf, OrderOps
  <2>2. ASSUME NEW i, NEW j
        PROVE  /\ InOrder("<", i, j) = InOrder(">", j, i)
               /\ InOrder("<=", i, j) = InOrder(">=", j, i)
    BY ONLY DEF InOrder
  <2>3. InOrder(n, Rank(y), Rank(x)) <=> InOrder(o, Rank(x), Rank(y))
    <3>1. \/ o = "<" /\ n = ">"
          \/ o = ">" /\ n = "<"
          \/ o = "<=" /\ n = ">="
          \/ o = ">=" /\ n = "<="
      BY <1>2 DEF MirrorOf, OrderOps
    <3> HIDE DEF Rank, InOrder
    <3> QED BY <2>2, <3>1
  <2> QED BY <1>2, <2>1, <2>3, OrderIs DEF Bool
<1> QED BY <1>1, <1>2 DEF MirrorOf, OrderOps

\* An operator between two terms seen from the other side
LEMMA ApplyMirror ==
    ASSUME NEW o, NEW n, MirrorOf(o, n), NEW a, NEW b
    PROVE  Apply(n, b, a) = Apply(o, a, b)
<1> DEFINE t(x, y) == IF x.type # "unknown" THEN x.type
                      ELSE IF y.type # "unknown" THEN y.type ELSE "text"
           Bad(x, y, s) == \/ "error" \in {Bind(x, s).type, Bind(y, s).type}
                           \/ Bind(x, s).type # Bind(y, s).type
           Vague(x, y, m) == /\ x.type = "unknown" /\ y.type = "unknown" /\ Null \in {x.val, y.val}
                             /\ m \in {"IS", "IS NOT"}
<1>1. \A m, x, y : Apply(m, x, y) = IF Bad(x, y, t(x, y)) \/ Vague(x, y, m) THEN "E"
                                    ELSE Compare(m, Bind(x, t(x, y)).val, Bind(y, t(x, y)).val)
  BY DEF Apply
<1>2. Vague(a, b, o) <=> Vague(b, a, n)
  BY DEF MirrorOf
<1>3. CASE a.type # "unknown" /\ b.type # "unknown"
  <2>1. \A s : Bind(a, s) = a /\ Bind(b, s) = b
    BY <1>3 DEF Bind
  <2>2. Apply(n, b, a) = IF a.type = "error" \/ b.type = "error" \/ a.type # b.type THEN "E"
                         ELSE Compare(n, b.val, a.val)
    BY <1>1, <1>3, <2>1
  <2>3. Apply(o, a, b) = IF a.type = "error" \/ b.type = "error" \/ a.type # b.type THEN "E"
                         ELSE Compare(o, a.val, b.val)
    BY <1>1, <1>3, <2>1
  <2> QED BY <2>2, <2>3, CompareMirror
<1>4. CASE a.type = "unknown" \/ b.type = "unknown"
  <2>1. t(a, b) = t(b, a)
    BY <1>4
  <2>2. \A s : Bad(a, b, s) <=> Bad(b, a, s)
    OBVIOUS
  <2> HIDE DEF t, Bad, Vague
  <2> QED BY <1>1, <1>2, <2>1, <2>2, CompareMirror
<1> QED BY <1>3, <1>4

\* A join seen from the other side
LEMMA JoinMirror ==
    \A o, n, x, y : MirrorOf(o, n) => Join(n, y, x) = Join(o, x, y)
BY ApplyMirror DEF Join

\* The same with the operators that are their own mirror image
LEMMA JoinSwap ==
    \A o, x, y : MirrorOf(o, o) => Join(o, y, x) = Join(o, x, y)
BY JoinMirror

\* A condition seen from the other side
LEMMA ConditionMirror ==
    ASSUME NEW o \in EqualOps \cup OrderOps, NEW n, NEW l, NEW r,
           IF o \in EqualOps THEN n = o ELSE MirrorOf(o, n)
    PROVE  Condition(n, r, l) = Condition(o, l, r)
<1>2. CASE o \in EqualOps
  <2> DEFINE equal == o = "="
             eq == IF equal THEN "=" ELSE "IS NOT"
  <2>1. MirrorOf(NullSafe(equal), NullSafe(equal)) /\ MirrorOf(eq, eq)
    BY DEF MirrorOf, NullSafe
  <2>2. n = o /\ Condition(o, l, r) = Equality(equal, l, r) /\ Condition(n, r, l) = Equality(equal, r, l)
    BY <1>2 DEF EqualOps, LikeOps, OrderOps, Condition
  <2>3. /\ Join(NullSafe(equal), r, l) = Join(NullSafe(equal), l, r)
        /\ Join(eq, r, l) = Join(eq, l, r)
        /\ Apply(NullSafe(equal), AsJson(r), AsJson(l)) = Apply(NullSafe(equal), AsJson(l), AsJson(r))
    <3> HIDE DEF eq, equal
    <3>1. Join(NullSafe(equal), r, l) = Join(NullSafe(equal), l, r)
      BY <2>1, JoinMirror
    <3>2. Join(eq, r, l) = Join(eq, l, r)
      BY <2>1, JoinMirror
    <3>3. Apply(NullSafe(equal), AsJson(r), AsJson(l)) = Apply(NullSafe(equal), AsJson(l), AsJson(r))
      BY <2>1, ApplyMirror
    <3> QED BY <3>1, <3>2, <3>3
  <2> HIDE DEF equal
  <2>4. CASE "disabled" \in {l.fallback, r.fallback}
    BY <2>2, <2>3, <2>4 DEF Equality
  <2>5. CASE "disabled" \notin {l.fallback, r.fallback} /\ IsEmpty(l) /\ IsEmpty(r)
    BY <2>2, <2>5 DEF Equality
  <2>6. CASE /\ "disabled" \notin {l.fallback, r.fallback} /\ ~(IsEmpty(l) /\ IsEmpty(r))
             /\ KnownNonEmpty(l) \/ KnownNonEmpty(r)
    BY <2>2, <2>3, <2>6 DEF Equality
  <2>7. CASE /\ "disabled" \notin {l.fallback, r.fallback} /\ ~(IsEmpty(l) /\ IsEmpty(r))
             /\ ~KnownNonEmpty(l) /\ ~KnownNonEmpty(r)
    BY <2>2, <2>3, <2>7 DEF Equality
  <2> QED BY <2>4, <2>5, <2>6, <2>7
<1>3. CASE o \in OrderOps
  <2>1. n \in OrderOps /\ MirrorOf(o, n)
    BY <1>3 DEF EqualOps, OrderOps, MirrorOf
  <2>2. /\ Condition(o, l, r) = Apply(o, Ordered(l, r), Ordered(r, l))
        /\ Condition(n, r, l) = Apply(n, Ordered(r, l), Ordered(l, r))
    BY <1>3, <2>1 DEF EqualOps, LikeOps, OrderOps, Condition
  <2> QED BY <2>1, <2>2, ApplyMirror
<1> QED BY <1>2, <1>3

\* A filter and its mirror image are refused together or select the same records,
\* whatever the sides are (the inverse flag of manyVsOneExpr, the casts of either
\* side)
THEOREM MirrorsSelectTheSame == Spec => []MirrorSelectsTheSame
<1>1. TypeOK => MirrorSelectsTheSame
  <2> SUFFICES ASSUME TypeOK, Read, op[1] \notin LikeOps
               PROVE  Pg = PgOf(Mirrored(op[1]), R, L)
    BY DEF MirrorSelectsTheSame
  <2> DEFINE o == op[1]
             n == Mirrored(o)
  <2>1. o \in EqualOps \cup OrderOps
    BY WhenRead
  <2>2. IF o \in EqualOps THEN n = o ELSE MirrorOf(o, n)
    <3>1. CASE o \in EqualOps
      BY <3>1 DEF EqualOps, Mirrored
    <3>2. Mirrored("<") = ">" /\ Mirrored(">") = "<" /\ Mirrored("<=") = ">=" /\ Mirrored(">=") = "<="
      BY DEF Mirrored
    <3>3. CASE o \in OrderOps
      BY <3>2, <3>3 DEF OrderOps, EqualOps, MirrorOf
    <3> QED BY <2>1, <3>1, <3>3
  <2> HIDE DEF n, o
  <2>3. \A l, r : Cond("postgres", n, r, l) = Cond("postgres", o, l, r)
    BY <2>1, <2>2, ConditionMirror DEF Cond
  <2>4. Outer("postgres", n, R, L) = Outer("postgres", o, L, R)
    BY <2>3 DEF Outer
  <2>5. Inside("postgres", n, R, L) = Inside("postgres", o, L, R)
    BY <2>3 DEF Inside
  <2>6. Selected("postgres", n, op[2], R, L) = Selected("postgres", o, op[2], L, R)
    BY <2>4, <2>5, SelectedIs DEF Bool
  <2> QED BY <2>6 DEF Pg, PgOf, n, o
<1> QED BY <1>1, TypeCorrect, PTL

-----------------------------------------------------------------------------
(***************************************************************************)
(* Equal or unequal.                                                       *)
(***************************************************************************)

\* An operator that does not ignore NULL is true or its opposite is
LEMMA Complement ==
    ASSUME NEW a, NEW b, Apply("IS", a, b) # "E"
    PROVE  Apply("IS", a, b) = "T" <=> Apply("IS NOT", a, b) # "T"
<1> DEFINE t == IF a.type # "unknown" THEN a.type
                ELSE IF b.type # "unknown" THEN b.type ELSE "text"
           x == Bind(a, t)
           y == Bind(b, t)
<1>1. Apply("IS", a, b) = Compare("IS", x.val, y.val)
      /\ Apply("IS NOT", a, b) = Compare("IS NOT", x.val, y.val)
  BY DEF Apply
<1>2. Compare("IS", x.val, y.val) = Bool(x.val = y.val)
      /\ Compare("IS NOT", x.val, y.val) = Bool(x.val # y.val)
  BY DEF Compare
<1> HIDE DEF x, y
<1> QED BY <1>1, <1>2 DEF Bool

\* The type of a constant that is not empty does not have to be found from a NULL
LEMMA KnownJoin ==
    ASSUME NEW l, NEW v, NEW r, NEW w, Row(l, v), Row(r, w), KnownNonEmpty(l),
           Join("=", l, r) # "E"
    PROVE  Join("IS NOT", l, r) = Bool(v # w)
<1> DEFINE a == Adapted(l, r)
           b == Adapted(r, l)
           vague == a.type = "unknown" /\ b.type = "unknown" /\ Null \in {a.val, b.val}
           t == IF a.type # "unknown" THEN a.type
                ELSE IF b.type # "unknown" THEN b.type ELSE "text"
           bad == \/ "error" \in {Bind(a, t).type, Bind(b, t).type}
                  \/ Bind(a, t).type # Bind(b, t).type
<1>1. Val(l) = v /\ Val(r) = w /\ v \notin {Empty, Null}
  BY RowFacts
<1>2. Join("=", l, r) = IF bad THEN "E" ELSE Compare("=", Bind(a, t).val, Bind(b, t).val)
  BY DEF Join, Apply
<1>3. Join("IS NOT", l, r) = IF bad \/ vague THEN "E"
                             ELSE Compare("IS NOT", Bind(a, t).val, Bind(b, t).val)
  BY DEF Join, Apply
<1>4. ~bad
  BY <1>2
<1>5. Gives(a, v) /\ Gives(b, w) /\ Refused.type = "error"
  BY <1>1, TermsGive DEF Adapted, Refused
<1>6. ASSUME vague PROVE FALSE
  <2>1. a.val = v /\ b.val = w /\ w = Null
    BY <1>1, <1>5, <1>6 DEF Gives
  <2>2. l.kind \in {"literal", "param"}
    BY DEF KnownNonEmpty
  <2>3. r.kind = "null"
    <3>1. r.kind \in {"field", "json"} => b.type # "unknown"
      <4>1. r.kind \in {"field", "json"} => r.type \in Types
        BY DEF Row, Types
      <4>2. r.kind \in {"field", "json"} => /\ Bare(r).type = r.type /\ AsJson(r).type = "jsonb"
                                            /\ ~IsTextLiteral(r)
        BY DEF Bare, AsJson, IsTextLiteral
      <4> QED BY <4>1, <4>2 DEF Adapted, Types
    <3>2. w \notin Words \cup Bits("numeric") \cup {Empty} \cup Bits("boolean")
      BY <2>1, ConstantsDiffer
    <3> QED BY <1>6, <3>1, <3>2 DEF Row
  <2>4. Inferred(r) = ""
    BY <2>3 DEF Inferred
  <2>5. a = IF IsTextLiteral(l) /\ Inferred(l) # "jsonb" THEN AsText(l) ELSE Bare(l)
    <3>1. IsTextLiteral(l) => Inferred(l) = ""
      BY <2>2 DEF IsTextLiteral, Inferred
    <3> QED BY <2>2, <2>3, <2>4, <3>1 DEF Adapted
  <2>6. CASE IsTextLiteral(l)
    <3>1. v[1] = "text"
      BY <2>2, <2>6 DEF Row, IsTextLiteral
    <3>2. Bare(l) = [type |-> "unknown", val |-> v]
      BY <1>1, <2>6 DEF Bare
    <3>3. AsText(l).type = "text"
      BY <3>1, <3>2 DEF AsText, Bind
    <3>4. Inferred(l) # "jsonb"
      BY <2>2, <2>6 DEF IsTextLiteral, Inferred
    <3> QED BY <1>6, <2>5, <2>6, <3>3, <3>4
  <2>7. CASE ~IsTextLiteral(l)
    <3>1. a = Bare(l) /\ l.type # "text"
      BY <2>2, <2>5, <2>7 DEF IsTextLiteral
    <3>4. Bare(l).type = "unknown" /\ l.type = v[1]
      BY <1>6, <2>2, <3>1 DEF Row
    <3>2. t = "text"
      BY <1>6
    <3>3. Bind(a, "text") = Refused
      BY <1>1, <1>6, <2>1, <3>1, <3>4 DEF Bind
    <3> QED BY <1>4, <1>5, <3>2, <3>3
  <2> QED BY <2>6, <2>7
<1>7. Join("IS NOT", l, r) # "E"
  <2>1. Compare("IS NOT", Bind(a, t).val, Bind(b, t).val) # "E"
    BY CompareIs
  <2> HIDE DEF a, b, t, bad, vague
  <2> QED BY <1>3, <1>4, <1>6, <2>1
<1>8. Join("IS NOT", l, r) = Compare("IS NOT", v, w)
  BY <1>1, <1>7, JoinGives
<1> QED BY <1>8 DEF Compare

\* Of = and != exactly one is true of two values, if the server accepts =
LEMMA EqualOrNot ==
    ASSUME NEW l, NEW v, NEW r, NEW w, Row(l, v), Row(r, w),
           Equality(TRUE, l, r) # "E"
    PROVE  Equality(TRUE, l, r) = "T" <=> Equality(FALSE, l, r) # "T"
<1>1. Val(l) = v /\ Val(r) = w
  BY RowFacts
<1>2. NullSafe(TRUE) = "IS" /\ NullSafe(FALSE) = "IS NOT"
  BY DEF NullSafe
<1>3. Bool(TRUE) = "T" /\ Bool(FALSE) = "F"
  BY DEF Bool
<1>4. CASE "disabled" \in {l.fallback, r.fallback}
  <2>1. Equality(TRUE, l, r) = Apply("IS", Adapted(l, r), Adapted(r, l))
        /\ Equality(FALSE, l, r) = Apply("IS NOT", Adapted(l, r), Adapted(r, l))
    BY <1>2, <1>4 DEF Equality, Join
  <2> QED BY <2>1, Complement
<1> DEFINE Later == "disabled" \notin {l.fallback, r.fallback}
<1>5. CASE Later /\ IsEmpty(l) /\ IsEmpty(r)
  <2>1. Equality(TRUE, l, r) = Bool(TRUE) /\ Equality(FALSE, l, r) = Bool(FALSE)
    BY <1>5 DEF Equality
  <2> QED BY <1>3, <2>1
<1>6. ASSUME Later, ~(IsEmpty(l) /\ IsEmpty(r)), KnownNonEmpty(l) \/ KnownNonEmpty(r)
      PROVE  Equality(TRUE, l, r) = "T" <=> Equality(FALSE, l, r) # "T"
  <2>1. Equality(TRUE, l, r) = Join("=", l, r) /\ Equality(FALSE, l, r) = Join("IS NOT", l, r)
    BY <1>6 DEF Equality
  <2>2. Join("=", l, r) = Compare("=", v, w)
    BY <1>1, <2>1, JoinGives
  <2>3. Join("IS NOT", l, r) = Bool(v # w) /\ ~(v = Null /\ w = Null)
    <3>1. CASE KnownNonEmpty(l)
      <4>1. Join("=", l, r) # "E"
        BY <2>1
      <4>2. Join("IS NOT", l, r) = Bool(v # w)
        BY <3>1, <4>1, KnownJoin
      <4>3. v # Null
        BY <3>1, RowFacts
      <4> QED BY <4>2, <4>3
    <3>2. CASE KnownNonEmpty(r)
      <4>1. MirrorOf("=", "=") /\ MirrorOf("IS NOT", "IS NOT")
        BY DEF MirrorOf
      <4>2. Join("=", r, l) = Join("=", l, r)
        BY <4>1, JoinSwap, Zenon
      <4>3. Join("IS NOT", r, l) = Join("IS NOT", l, r)
        BY <4>1, JoinSwap, Zenon
      <4>4. Join("IS NOT", r, l) = Bool(w # v)
        <5>1. Join("=", r, l) # "E"
          BY <2>1, <4>2
        <5> QED BY <3>2, <5>1, KnownJoin
      <4>5. w # Null
        BY <3>2, RowFacts
      <4> QED BY <4>3, <4>4, <4>5 DEF Bool
    <3> QED BY <1>6, <3>1, <3>2
  <2>4. Compare("=", v, w) = "T" <=> v = w
    BY <2>3 DEF Compare, Bool
  <2>5. Bool(v # w) = "T" <=> v # w
    BY DEF Bool
  <2> QED BY <2>1, <2>2, <2>3, <2>4, <2>5
<1>7. ASSUME Later, ~KnownNonEmpty(l), ~KnownNonEmpty(r),
             (IsEmpty(l) /\ ~IsEmpty(r)) \/ (~IsEmpty(l) /\ IsEmpty(r))
      PROVE  Equality(TRUE, l, r) = "T" <=> Equality(FALSE, l, r) # "T"
  <2>1. ASSUME NEW x, NEW u, Row(x, u), IsColumn(x)
        PROVE  EmptyOrNull(TRUE, x) = "T" <=> EmptyOrNull(FALSE, x) # "T"
    <3>1. EmptyOrNull(TRUE, x) = Bool(u = Empty \/ u = Null)
          /\ EmptyOrNull(FALSE, x) = Bool(u # Empty /\ u # Null)
      BY <2>1, EmptyOrNullIs
    <3> QED BY <3>1 DEF Bool
  <2>2. CASE IsEmpty(l) /\ ~IsEmpty(r)
    <3>1. Equality(TRUE, l, r) = EmptyOrNull(TRUE, r) /\ Equality(FALSE, l, r) = EmptyOrNull(FALSE, r)
      BY <1>7, <2>2 DEF Equality
    <3>2. IsColumn(r)
      BY <1>7, <2>2, RowFacts
    <3> QED BY <2>1, <3>1, <3>2
  <2>3. CASE ~IsEmpty(l) /\ IsEmpty(r)
    <3>1. Equality(TRUE, l, r) = EmptyOrNull(TRUE, l) /\ Equality(FALSE, l, r) = EmptyOrNull(FALSE, l)
      BY <1>7, <2>3 DEF Equality
    <3>2. IsColumn(l)
      BY <1>7, <2>3, RowFacts
    <3> QED BY <2>1, <3>1, <3>2
  <2> QED BY <1>7, <2>2, <2>3
<1>8. CASE Later /\ ~KnownNonEmpty(l) /\ ~KnownNonEmpty(r) /\ ~IsEmpty(l) /\ ~IsEmpty(r)
  <2>1. Equality(TRUE, l, r) = Apply("IS", AsJson(l), AsJson(r))
        /\ Equality(FALSE, l, r) = Apply("IS NOT", AsJson(l), AsJson(r))
    BY <1>2, <1>8 DEF Equality
  <2> QED BY <2>1, Complement
<1> QED BY <1>4, <1>5, <1>6, <1>7, <1>8

\* An operand with one value
LEMMA SingleIs ==
    ASSUME NEW p, NEW q, Twins(p, q), ~p.many
    PROVE  \E v : p.vals = {v} /\ Row(At(p, v), v)
<1>1. \A v \in p.vals : Row(At(p, v), v)
  BY TwinRows DEF Match, Pair
<1>2. \E v : p.vals = {v}
  <2>1. CASE IsField(p)
    BY <2>1 DEF IsField
  <2>2. CASE \E c : IsConstant(p, q, c)
    BY <2>2, ConstantMatches
  <2> QED BY <2>1, <2>2 DEF Twins
<1> QED BY <1>1, <1>2

\* The condition decides between two such operands
LEMMA SingleSelected ==
    ASSUME NEW o, NEW any, NEW l, NEW r, NEW v, NEW w, l.vals = {v}, r.vals = {w}, ~l.many, ~r.many
    PROVE  LET c == Condition(o, At(l, v), At(r, w))
           IN Selected("postgres", o, any, l, r) = IF c = "E" THEN "E" ELSE Bool(c = "T")
<1> DEFINE c == Condition(o, At(l, v), At(r, w))
<1>1. Outer("postgres", o, l, r) = {c}
  BY DEF Outer, Cond
<1> HIDE DEF c
<1>2. Selected("postgres", o, any, l, r) = IF c = "E" THEN "E" ELSE Bool(c = "T")
  BY <1>1, SelectedIs DEF Bool
<1> QED BY <1>2 DEF c

\* Of a record with one value on each side exactly one of = and != holds, whatever
\* casts the types need (nullEqualOp, typeAwareJoinNoCoalesce)
THEOREM NoRecordIsLost == Spec => []EqualOrUnequal
<1>1. TypeOK => EqualOrUnequal
  <2> SUFFICES ASSUME TypeOK, Read, op[1] = "=", Single, Pg # "E"
               PROVE  (Pg = "T") # (PgOf("!=", L, R) = "T")
    BY DEF EqualOrUnequal
  <2>1. /\ Twins(L, ResolveLite(left)) /\ Twins(R, ResolveLite(right))
        /\ ~L.many /\ ~R.many
    BY WhenRead DEF Single
  <2>2. PICK v : L.vals = {v} /\ Row(At(L, v), v)
    BY <2>1, SingleIs
  <2>3. PICK w : R.vals = {w} /\ Row(At(R, w), w)
    BY <2>1, SingleIs
  <2> DEFINE l == At(L, v)
             r == At(R, w)
  <2>4. Condition("=", l, r) = Equality(TRUE, l, r) /\ Condition("!=", l, r) = Equality(FALSE, l, r)
    BY DEF Condition, EqualOps, LikeOps, OrderOps
  <2>5. /\ PgOf("=", L, R) = IF Condition("=", l, r) = "E" THEN "E" ELSE Bool(Condition("=", l, r) = "T")
        /\ PgOf("!=", L, R) = IF Condition("!=", l, r) = "E" THEN "E"
                              ELSE Bool(Condition("!=", l, r) = "T")
    BY <2>1, <2>2, <2>3, SingleSelected DEF PgOf
  <2>6. Pg = PgOf("=", L, R)
    BY DEF Pg
  <2>8. Row(l, v) /\ Row(r, w)
    BY <2>2, <2>3
  <2> HIDE DEF l, r
  <2>7. Equality(TRUE, l, r) = "T" <=> Equality(FALSE, l, r) # "T"
    <3>1. Equality(TRUE, l, r) # "E"
      BY <2>4, <2>5, <2>6
    <3> QED BY <2>8, <3>1, EqualOrNot
  <2> QED BY <2>4, <2>5, <2>6, <2>7 DEF Bool
<1> QED BY <1>1, TypeCorrect, PTL

-----------------------------------------------------------------------------
(***************************************************************************)
(* What is compared with a column.                                         *)
(***************************************************************************)

\* A row of an operand has its kind
LEMMA AtKeeps ==
    ASSUME NEW p, NEW q, Twins(p, q), NEW v \in p.vals
    PROVE  /\ At(p, v).kind = p.kind /\ At(p, v).type = p.type
           /\ At(p, v).fallback = "disabled" <=> p.kind = "json"
<1>1. CASE IsField(p)
  <2>1. PICK k, t, f, m, s : p = Operand(k, t, f, m, s)
    BY <1>1 DEF IsField
  <2>2. At(p, v) = Operand(k, t, f, m, {v})
    BY <2>1, AtIs
  <2>3. p.kind = k /\ p.type = t /\ p.fallback = f
    BY <2>1, OperandParts
  <2>4. At(p, v).kind = k /\ At(p, v).type = t /\ At(p, v).fallback = f
    BY <2>2, OperandParts
  <2> QED BY <1>1, <2>3, <2>4 DEF IsField, Column0
<1>2. CASE \E c : IsConstant(p, q, c)
  <2>1. PICK c : IsConstant(p, q, c)
    BY <1>2
  <2>2. p.vals = {c}
    BY <2>1, ConstantMatches
  <2>3. PICK k \in {"param", "literal", "null"} : p = Plain(k, c)
    BY <2>1 DEF IsConstant
  <2>4. At(p, c) = p /\ p.kind = k /\ p.fallback = "auto"
    BY <2>3, PlainIs
  <2> QED BY <2>2, <2>4
<1> QED BY <1>1, <1>2 DEF Twins

\* Only the macros are parameters with a number
LEMMA ParamTokens ==
    ASSUME NEW t \in Tokens, t[1] # "macro", Resolve(t).kind = "param"
    PROVE  Resolve(t).type = "text"
<1> HIDE DEF Plain
<1>1. CASE \E x \in Fields : t = <<"field", x>>
  <2>1. PICK x \in Fields : t = <<"field", x>>
    BY <1>1
  <2>2. Resolve(t) = x
    BY <2>1 DEF Resolve
  <2> QED BY <2>1, <2>2, FieldShape DEF IsField, Column0
<1>2. CASE t[1] \in {"number", "bool"} \/ t = <<"text", Empty>>
  <2>1. Resolve(t) = Plain("literal", t[2])
    BY <1>2 DEF Resolve
  <2> QED BY <2>1, PlainIs
<1>3. CASE \E v \in Words : t = <<"text", v>>
  <2>1. PICK v \in Words : t = <<"text", v>>
    BY <1>3
  <2>2. Resolve(t) = Plain("param", v)
    BY <2>1, ConstantsDiffer DEF Resolve
  <2>3. v[1] = "text"
    BY Parts
  <2> QED BY <2>2, <2>3, PlainIs
<1>4. CASE t = <<"null", Null>>
  <2>1. Resolve(t) = Plain("null", Null)
    BY <1>4 DEF Resolve
  <2> QED BY <2>1, PlainIs
<1>5. CASE t[1] \in {"number", "bool"}
  BY <1>2, <1>5
<1> QED BY <1>1, <1>2, <1>3, <1>4 DEF Tokens, Constants

\* Two terms of JSON are compared
LEMMA JsonTerms ==
    ASSUME NEW o, NEW a, NEW b, a.type = "jsonb", b.type = "jsonb"
    PROVE  Apply(o, a, b) # "E"
<1>1. Apply(o, a, b) = Compare(o, a.val, b.val)
  BY DEF Apply, Bind
<1> QED BY <1>1, CompareIs

\* JSON may be joined with anything but a parameter that holds a number
LEMMA JsonAccepted ==
    ASSUME NEW o, NEW l, NEW v, NEW r, NEW w, Row(l, v), Row(r, w),
           l.kind = "json", r.kind = "param" => r.type = "text"
    PROVE  Join(o, l, r) # "E"
<1>1. l.type = "jsonb"
  BY DEF Row
<1>2. Inferred(l) = "jsonb"
  BY <1>1 DEF Inferred
<1>3. Bare(l).type = "jsonb"
  BY <1>1 DEF Bare, IsTextLiteral
<1>4. Adapted(l, r).type = "jsonb"
  BY <1>2, <1>3 DEF Adapted
<1>5. AsJson(r).type = "jsonb"
  BY DEF AsJson
<1>6. ASSUME Inferred(r) = "jsonb" PROVE Bare(r).type = "jsonb"
  <2>1. r.type = "jsonb"
    BY <1>6 DEF Inferred
  <2>2. w \in {Empty} \cup Bits("numeric") \cup Bits("boolean") \cup Words => w[1] # "jsonb"
    BY Parts
  <2>3. r.kind \notin {"param", "literal", "null"}
    BY <2>1, <2>2 DEF Row
  <2> QED BY <2>1, <2>3 DEF Bare, IsTextLiteral
<1>7. Adapted(r, l).type = "jsonb"
  BY <1>2, <1>5, <1>6 DEF Adapted
<1> QED BY <1>4, <1>7, JsonTerms DEF Join

\* Columns may be compared for equality, and a JSON value with almost anything
LEMMA EqualityAccepted ==
    ASSUME NEW equal \in BOOLEAN, NEW l, NEW v, NEW r, NEW w, Row(l, v), Row(r, w),
           l.fallback = "disabled" <=> l.kind = "json",
           r.fallback = "disabled" <=> r.kind = "json",
           \/ IsColumn(l) /\ IsColumn(r)
           \/ /\ "json" \in {l.kind, r.kind}
              /\ l.kind = "param" => l.type = "text"
              /\ r.kind = "param" => r.type = "text"
    PROVE  Equality(equal, l, r) # "E"
<1>1. /\ l.kind = "param" => l.type = "text"
      /\ r.kind = "param" => r.type = "text"
  BY DEF IsColumn
<1>2. CASE "json" \in {l.kind, r.kind}
  <2>1. Equality(equal, l, r) = Join(NullSafe(equal), l, r)
    BY <1>2 DEF Equality
  <2>2. MirrorOf(NullSafe(equal), NullSafe(equal))
    BY DEF MirrorOf, NullSafe
  <2>3. Join(NullSafe(equal), r, l) = Join(NullSafe(equal), l, r)
    BY <2>2, JoinSwap
  <2>4. CASE l.kind = "json"
    BY <1>1, <2>1, <2>4, JsonAccepted
  <2>5. CASE r.kind = "json"
    BY <1>1, <2>1, <2>3, <2>5, JsonAccepted
  <2> QED BY <1>2, <2>4, <2>5
<1>3. CASE "json" \notin {l.kind, r.kind}
  <2>1. l.kind = "field" /\ r.kind = "field"
    BY <1>3 DEF IsColumn
  <2>2. /\ ~IsEmpty(l) /\ ~IsEmpty(r) /\ ~KnownNonEmpty(l) /\ ~KnownNonEmpty(r)
    BY <2>1 DEF IsEmpty, KnownNonEmpty
  <2>3. Equality(equal, l, r) = Apply(NullSafe(equal), AsJson(l), AsJson(r))
    BY <1>3, <2>2 DEF Equality
  <2>4. AsJson(l).type = "jsonb" /\ AsJson(r).type = "jsonb"
    BY <2>1 DEF AsJson
  <2> QED BY <2>3, <2>4, JsonTerms
<1> QED BY <1>2, <1>3

\* The server accepts = and != between any columns, and between a JSON value and
\* anything but a macro (resolveEqualExpr, castToJsonb)
THEOREM ColumnsAreComparable == Spec => []EqualityIsAccepted
<1>1. TypeOK => EqualityIsAccepted
  <2> SUFFICES ASSUME TypeOK, Read, op[1] \in EqualOps, Single,
                      \/ IsColumn(L) /\ IsColumn(R)
                      \/ "json" \in {L.kind, R.kind} /\ "macro" \notin {left[1], right[1]}
               PROVE  Pg # "E"
    BY DEF EqualityIsAccepted
  <2>1. /\ Twins(L, ResolveLite(left)) /\ Twins(R, ResolveLite(right))
        /\ ~L.many /\ ~R.many /\ left \in Tokens /\ right \in Tokens
    BY WhenRead DEF Single
  <2>2. PICK v : L.vals = {v} /\ Row(At(L, v), v)
    BY <2>1, SingleIs
  <2>3. PICK w : R.vals = {w} /\ Row(At(R, w), w)
    BY <2>1, SingleIs
  <2> DEFINE l == At(L, v)
             r == At(R, w)
             equal == op[1] = "="
  <2>4. /\ l.kind = L.kind /\ l.type = L.type /\ (l.fallback = "disabled" <=> L.kind = "json")
        /\ r.kind = R.kind /\ r.type = R.type /\ (r.fallback = "disabled" <=> R.kind = "json")
    BY <2>1, <2>2, <2>3, AtKeeps
  <2>5. "macro" \notin {left[1], right[1]} =>
           /\ L.kind = "param" => L.type = "text"
           /\ R.kind = "param" => R.type = "text"
    BY <2>1, ParamTokens DEF L, R
  <2>6. Condition(op[1], l, r) = Equality(equal, l, r)
    BY DEF Condition, EqualOps, LikeOps, OrderOps
  <2>7. Pg = IF Condition(op[1], l, r) = "E" THEN "E" ELSE Bool(Condition(op[1], l, r) = "T")
    BY <2>1, <2>2, <2>3, SingleSelected DEF Pg, PgOf
  <2>8. Row(l, v) /\ Row(r, w) /\ equal \in BOOLEAN
    BY <2>2, <2>3
  <2> HIDE DEF l, r, equal
  <2>9. \/ IsColumn(l) /\ IsColumn(r)
        \/ /\ "json" \in {l.kind, r.kind}
           /\ l.kind = "param" => l.type = "text"
           /\ r.kind = "param" => r.type = "text"
    BY <2>4, <2>5 DEF IsColumn
  <2>10. Equality(equal, l, r) # "E"
    BY <2>4, <2>8, <2>9, EqualityAccepted
  <2> QED BY <2>6, <2>7, <2>10 DEF Bool
<1> QED BY <1>1, TypeCorrect, PTL

-----------------------------------------------------------------------------
(***************************************************************************)
(* LIKE tells small from capital letters in PostgreSQL only.               *)
(***************************************************************************)

\* What is neither a boolean nor JSON, and its text
Legible == Texts \cup Bits("numeric") \cup {Null}
TextOf(v) == IF v = Null THEN Null ELSE <<"text", v[2]>>
Written == {TextOf(v) : v \in Legible}

\* One result is at most as true as the other
Below(x, y) == (x = "T" => y = "T") /\ (y = "F" => x = "F")

\* What is written of legible values
LEMMA WrittenIs ==
    /\ Written = {Null, <<"text", "">>, <<"text", "a">>, <<"text", "A">>, <<"text", "0">>, <<"text", "1">>}
    /\ \A v \in Texts : TextOf(v) = v
    /\ \A v \in Bits("numeric") : TextOf(v) = <<"text", v[2]>>
    /\ TextOf(Null) = Null
<1>1. \A v \in Texts : TextOf(v) = v
  <2> SUFFICES ASSUME NEW v \in Texts PROVE TextOf(v) = v
    OBVIOUS
  <2>1. v = <<"text", v[2]>> /\ v[1] = "text"
    BY Parts DEF Texts, Empty
  <2>2. v # Null
    BY <2>1, Parts
  <2> QED BY <2>1, <2>2 DEF TextOf
<1>2. \A v \in Bits("numeric") : TextOf(v) = <<"text", v[2]>>
  BY ConstantsDiffer DEF TextOf
<1>3. TextOf(Null) = Null
  BY DEF TextOf
<1>4. Bits("numeric") = {<<"numeric", "0">>, <<"numeric", "1">>}
  BY DEF Bits
<1>5. TextOf(<<"numeric", "0">>) = <<"text", "0">> /\ TextOf(<<"numeric", "1">>) = <<"text", "1">>
  <2>1. <<"numeric", "0">>[2] = "0" /\ <<"numeric", "1">>[2] = "1"
    OBVIOUS
  <2>2. <<"numeric", "0">> \in Bits("numeric") /\ <<"numeric", "1">> \in Bits("numeric")
    BY <1>4
  <2>3. TextOf(<<"numeric", "0">>) = <<"text", <<"numeric", "0">>[2]>>
    BY <1>2, <2>2, Zenon
  <2>4. TextOf(<<"numeric", "1">>) = <<"text", <<"numeric", "1">>[2]>>
    BY <1>2, <2>2, Zenon
  <2> QED BY <2>1, <2>3, <2>4
<1>6. Texts = {<<"text", "">>, <<"text", "a">>, <<"text", "A">>}
  BY DEF Texts, Words, Empty
<1>7. Written = {Null, <<"text", "">>, <<"text", "a">>, <<"text", "A">>, <<"text", "0">>, <<"text", "1">>}
  BY <1>1, <1>3, <1>4, <1>5, <1>6 DEF Written, Legible
<1> QED BY <1>1, <1>2, <1>3, <1>7

\* LIKE on written values: they are never what the quotes are put around
LEMMA WrittenLike ==
    ASSUME NEW x \in Written, NEW y \in Written
    PROVE  /\ Like(x, y) = IF Null \in {x, y} THEN "U" ELSE Bool(y \in {Empty, x})
           /\ Like(Fold(x), Fold(y)) \in {"T", "F", "U"}
           /\ Below(Like(x, y), Like(Fold(x), Fold(y)))
<1>1. ASSUME NEW a \in Written, NEW b PROVE a # Quoted(b)
  <2>1. Quoted(b)[1] = "text" /\ Quoted(b)[2] \in {"'a'", "'A'"}
    BY DEF Quoted
  <2>2. a = Null \/ \E t \in {"", "a", "A", "0", "1"} : a = <<"text", t>>
    BY WrittenIs
  <2>3. a[2] \in {"sql", "", "a", "A", "0", "1"}
    <3>1. CASE a = Null
      BY <3>1, Parts
    <3>2. CASE \E t \in {"", "a", "A", "0", "1"} : a = <<"text", t>>
      <4>1. PICK t \in {"", "a", "A", "0", "1"} : a = <<"text", t>>
        BY <3>2
      <4>2. a[2] = t
        BY <4>1
      <4> QED BY <4>2
    <3> QED BY <2>2, <3>1, <3>2
  <2> QED BY <2>1, <2>3
<1>2. \A a, b \in Written : Like(a, b) = IF Null \in {a, b} THEN "U" ELSE Bool(b \in {Empty, a})
  BY <1>1 DEF Like
<1>3. \A a \in Written : Fold(a) \in Written /\ (Fold(a) = Null <=> a = Null)
  <2> SUFFICES ASSUME NEW a \in Written
               PROVE  Fold(a) \in Written /\ (Fold(a) = Null <=> a = Null)
    OBVIOUS
  <2>1. CASE a = <<"text", "A">>
    <3>1. Fold(a) = <<"text", "a">>
      BY <2>1 DEF Fold
    <3>2. Fold(a)[1] = "text" /\ a[1] = "text"
      BY <2>1, <3>1
    <3>3. Fold(a) # Null /\ a # Null
      BY <3>2, Parts
    <3> QED BY <3>1, <3>3, WrittenIs
  <2>2. CASE a # <<"text", "A">>
    BY <2>2 DEF Fold
  <2> QED BY <2>1, <2>2
<1>4. Fold(Empty) = Empty
  <2>1. Empty[2] # "A" /\ <<"text", "A">>[2] = "A"
    BY Parts
  <2> QED BY <2>1 DEF Fold
<1>5. Like(Fold(x), Fold(y)) = IF Null \in {x, y} THEN "U" ELSE Bool(Fold(y) \in {Empty, Fold(x)})
  BY <1>2, <1>3
<1>6. y \in {Empty, x} => Fold(y) \in {Empty, Fold(x)}
  BY <1>4
<1> QED BY <1>2, <1>5, <1>6 DEF Below, Bool

\* A row that is neither boolean nor JSON
LEMMA LegibleRow ==
    ASSUME NEW o, NEW v, Row(o, v), o.type \notin {"boolean", "jsonb"}
    PROVE  v \in Legible /\ TextOf(v) \in Written /\ Val(o) = v
<1>1. Val(o) = v
  BY RowFacts
<1>2. \A b \in Bits("boolean") : b[1] = "boolean"
  BY Parts
<1>3. v \in Legible
  BY <1>2, ValueKinds DEF Row, Legible, Texts, Types
<1> QED BY <1>1, <1>3 DEF Written

\* LIKE of PostgreSQL is below that of SQLite, where it is accepted
LEMMA LikenessBelow ==
    ASSUME NEW p, NEW v, NEW r, NEW w, Row(p, v), Row(r, w),
           p.type \notin {"boolean", "jsonb"}, r.type \notin {"boolean", "jsonb"}
    PROVE  Likeness(p, r) \in {"E", Like(TextOf(v), TextOf(w))}
<1>1. ASSUME NEW o, NEW u, Row(o, u), o.type \notin {"boolean", "jsonb"}
      PROVE  AsText(o).type = "error" \/ AsText(o).val = TextOf(u)
  <2>1. u \in Legible /\ Val(o) = u
    BY <1>1, LegibleRow
  <2>2. CASE Bare(o).type = "unknown"
    <3>1. Bare(o).val = u
      BY <2>1 DEF Bare
    <3>2. AsText(o) = Bind(Bare(o), "text")
      BY <2>2 DEF AsText
    <3>3. Refused.type = "error"
      BY DEF Refused
    <3>4. CASE u = Null \/ u[1] = "text"
      <4>1. AsText(o).val = u
        BY <2>2, <3>1, <3>2, <3>4 DEF Bind
      <4>2. TextOf(u) = u
        <5>1. \A b \in Bits("numeric") : b[1] = "numeric"
          BY Parts
        <5>2. u \in Texts \/ u = Null
          BY <2>1, <3>4, <5>1 DEF Legible
        <5> QED BY <5>2, WrittenIs
      <4> QED BY <4>1, <4>2
    <3>5. CASE ~(u = Null \/ u[1] = "text")
      BY <2>2, <3>1, <3>2, <3>3, <3>5 DEF Bind
    <3> QED BY <3>4, <3>5
  <2>3. CASE Bare(o).type # "unknown"
    <3>1. AsText(o).val = Printed(o.type, u)
      BY <2>1, <2>3 DEF AsText
    <3>2. Printed(o.type, u) = TextOf(u)
      BY <1>1, <2>1, PrintedIs, WrittenIs DEF Legible
    <3> QED BY <3>1, <3>2
  <2> QED BY <2>2, <2>3
<1>2. r.kind = "param" => <<"text", Val(r)[2]>> = TextOf(w)
  <2>1. r.kind = "param" => w # Null
    BY ConstantsDiffer DEF Row
  <2> QED BY <2>1, LegibleRow DEF TextOf
<1>3. r.kind # "param" => AsText(r).val = TextOf(w)
  <2>1. ASSUME r.kind # "param" PROVE AsText(r).type # "error"
    <3>1. CASE Bare(r).type = "unknown"
      <4>1. w \in {Empty, Null}
        <5>1. \A b \in Bits("numeric") \cup Bits("boolean") : b[1] # "text"
          BY Parts
        <5>2. r.kind \notin {"field", "json"}
          <6>1. r.kind \in {"field", "json"} => r.type \in Types /\ Bare(r).type = r.type
            BY DEF Row, Bare, IsTextLiteral, Types
          <6> QED BY <3>1, <6>1 DEF Types
        <5>3. CASE r.kind = "literal"
          <6>1. r.type = w[1] /\ w \in {Empty} \cup Bits("numeric") \cup Bits("boolean")
            BY <5>3 DEF Row
          <6>2. w[1] \in {"text", "numeric", "boolean"}
            BY <6>1, Parts
          <6>3. r.type = "text"
            BY <3>1, <5>3, <6>1, <6>2 DEF Bare, IsTextLiteral
          <6> QED BY <5>1, <6>1, <6>3
        <5> QED BY <2>1, <5>2, <5>3 DEF Row
      <4>2. Bare(r).val = w
        BY LegibleRow DEF Bare
      <4>3. Bind(Bare(r), "text").type = "text"
        BY <3>1, <4>1, <4>2, Parts DEF Bind
      <4> QED BY <3>1, <4>3 DEF AsText
    <3>2. CASE Bare(r).type # "unknown"
      BY <3>2 DEF AsText
    <3> QED BY <3>1, <3>2
  <2> QED BY <1>1, <2>1
<1> QED BY <1>1, <1>2, <1>3 DEF Likeness

\* So are the conditions, and for !~ it is the other way round
LEMMA ConditionBelow ==
    ASSUME NEW p, NEW q, NEW v, NEW r, NEW s, NEW w, Pair(p, q, v), Pair(r, s, w),
           p.type \notin {"boolean", "jsonb"}, r.type \notin {"boolean", "jsonb"}
    PROVE  /\ \A o \in LikeOps : LiteCondition(o, q, s) # "E"
           /\ Condition("~", p, r) # "E" => Below(Condition("~", p, r), LiteCondition("~", q, s))
           /\ Condition("!~", p, r) # "E" => Below(LiteCondition("!~", q, s), Condition("!~", p, r))
<1> DEFINE x == TextOf(v)
           y == TextOf(w)
           pg == Likeness(p, r)
           lite == Like(Fold(x), Fold(y))
<1>1. /\ x \in Written /\ y \in Written /\ v \in Legible /\ w \in Legible
  BY LegibleRow DEF Pair
<1>2. ASSUME NEW u \in Legible PROVE LV(u) = u
  <2>1. u[1] # "boolean" /\ u # JsonNull
    <3>1. \A b \in Bits("numeric") : b[1] = "numeric"
      BY Parts
    <3>2. \A b \in Texts : b[1] = "text"
      BY Parts DEF Texts
    <3> QED BY <3>1, <3>2, Parts DEF Legible
  <2> QED BY <2>1 DEF LV
<1>3. LiteText(q) = x /\ LiteText(s) = y
  BY <1>1, <1>2 DEF Pair, LiteText, TextOf
<1>4. pg \in {"E", Like(x, y)}
  BY LikenessBelow DEF Pair
<1>5. lite \in {"T", "F", "U"} /\ (pg # "E" => Below(pg, lite))
  BY <1>1, <1>4, WrittenLike
<1>6. /\ Condition("~", p, r) = pg /\ Condition("!~", p, r) = Not(pg)
      /\ LiteCondition("~", q, s) = lite /\ LiteCondition("!~", q, s) = Not(lite)
  BY <1>3 DEF Condition, LiteCondition, EqualOps, LikeOps, OrderOps
<1> HIDE DEF x, y, pg, lite
<1> QED BY <1>5, <1>6 DEF Below, Not, LikeOps

\* A row of an operand has its type, in a subquery too
LEMMA TypesKept ==
    ASSUME NEW p, NEW q, Twins(p, q), NEW v \in p.vals, NEW many \in BOOLEAN
    PROVE  At(p, v).type = p.type /\ Sub("postgres", p, v, many).type = p.type
<1>1. At(p, v).type = p.type
  BY AtKeeps
<1>2. CASE IsField(p)
  <2>1. CASE p.many
    <3>1. Sub("postgres", p, v, many)
            = Column(p, v, IF many THEN p.fallback ELSE Kept("postgres", p.fallback))
      BY <2>1 DEF Sub
    <3>2. \A f : Column(p, v, f).type = p.type
      BY DEF Column, Operand
    <3> QED BY <1>1, <3>1, <3>2
  <2>2. CASE ~p.many
    <3>1. PICK k, t, f, m, s : p = Operand(k, t, f, m, s)
      BY <1>2 DEF IsField
    <3>2. Defaulted(p) = Operand(k, t, "auto", m, s)
      BY <3>1, DefaultedIs
    <3>3. At(Defaulted(p), v) = Operand(k, t, "auto", m, {v})
      BY <3>2, AtIs
    <3>4. Sub("postgres", p, v, many) = At(Defaulted(p), v)
      BY <2>2 DEF Sub, At, Defaulted
    <3>5. p.type = t /\ Sub("postgres", p, v, many).type = t
      BY <3>1, <3>3, <3>4, OperandParts
    <3> QED BY <1>1, <3>5
  <2> QED BY <2>1, <2>2
<1>3. CASE \E c : IsConstant(p, q, c)
  <2>1. PICK c : IsConstant(p, q, c)
    BY <1>3
  <2>2. v = c
    BY <2>1, ConstantMatches
  <2>3. PICK k : p = Plain(k, c)
    BY <2>1 DEF IsConstant
  <2>4. Sub("postgres", p, c, many) = p
    BY <2>3, PlainSub
  <2> QED BY <1>1, <2>2, <2>4
<1> QED BY <1>2, <1>3 DEF Twins

\* Of the values of a record LIKE selects no more, and its negation no fewer
LEMMA SelectedBelow ==
    ASSUME NEW o \in LikeOps, NEW any \in BOOLEAN, NEW l, NEW l2, NEW r, NEW r2,
           Twins(l, l2), Twins(r, r2),
           l.type \notin {"boolean", "jsonb"}, r.type \notin {"boolean", "jsonb"},
           Selected("postgres", o, any, l, r) # "E"
    PROVE  LET pg == Selected("postgres", o, any, l, r)
               lite == Selected("sqlite", o, any, l2, r2)
           IN IF o = "~" THEN pg = "T" => lite = "T" ELSE lite = "T" => pg = "T"
<1> DEFINE multi == ~any /\ (l.many \/ r.many)
           outer == Outer("postgres", o, l, r)
           inside == Inside("postgres", o, l, r)
           outer2 == Outer("sqlite", o, l2, r2)
           inside2 == Inside("sqlite", o, l2, r2)
           Ordering(pg, lite) == IF o = "~" THEN Below(pg, lite) ELSE Below(lite, pg)
<1>1. /\ l.many \in BOOLEAN /\ r.many \in BOOLEAN /\ l2.many = l.many /\ r2.many = r.many
  BY TwinRows
<1>2. /\ \A v \in l.vals : \E u \in l2.vals : Match(l, l2, v, u)
      /\ \A u \in l2.vals : \E v \in l.vals : Match(l, l2, v, u)
      /\ \A w \in r.vals : \E t \in r2.vals : Match(r, r2, w, t)
      /\ \A t \in r2.vals : \E w \in r.vals : Match(r, r2, w, t)
  BY TwinRows
<1>3. o \in {"~", "!~"}
  BY DEF LikeOps
<1>4. ASSUME NEW p, NEW q, NEW v, NEW x, NEW y, NEW w, Pair(p, q, v), Pair(x, y, w),
             p.type = l.type, x.type = r.type
      PROVE  /\ Cond("sqlite", o, q, y) # "E"
             /\ Cond("postgres", o, p, x) # "E" =>
                  Ordering(Cond("postgres", o, p, x), Cond("sqlite", o, q, y))
  <2>1. Cond("sqlite", o, q, y) = LiteCondition(o, q, y) /\ Cond("postgres", o, p, x) = Condition(o, p, x)
    BY DEF Cond
  <2>2. p.type \notin {"boolean", "jsonb"} /\ x.type \notin {"boolean", "jsonb"}
    BY <1>4
  <2>3. /\ \A n \in LikeOps : LiteCondition(n, q, y) # "E"
        /\ Condition("~", p, x) # "E" => Below(Condition("~", p, x), LiteCondition("~", q, y))
        /\ Condition("!~", p, x) # "E" => Below(LiteCondition("!~", q, y), Condition("!~", p, x))
    BY <1>4, <2>2, ConditionBelow
  <2> QED BY <1>3, <2>1, <2>3
<1>5. ASSUME NEW v \in l.vals, NEW u \in l2.vals, NEW w \in r.vals, NEW t \in r2.vals,
             Match(l, l2, v, u), Match(r, r2, w, t)
      PROVE  LET pg == Cond("postgres", o, At(l, v), At(r, w))
                 lite == Cond("sqlite", o, At(l2, u), At(r2, t))
                 pgIn == Cond("postgres", o, Sub("postgres", l, v, r.many), Sub("postgres", r, w, l.many))
                 liteIn == Cond("sqlite", o, Sub("sqlite", l2, u, r2.many), Sub("sqlite", r2, t, l2.many))
             IN /\ lite # "E" /\ (pg # "E" => Ordering(pg, lite))
                /\ liteIn # "E" /\ (pgIn # "E" => Ordering(pgIn, liteIn))
  <2>1. /\ Pair(At(l, v), At(l2, u), v) /\ Pair(At(r, w), At(r2, t), w)
        /\ Pair(Sub("postgres", l, v, r.many), Sub("sqlite", l2, u, r.many), v)
        /\ Pair(Sub("postgres", r, w, l.many), Sub("sqlite", r2, t, l.many), w)
    BY <1>1, <1>5 DEF Match
  <2>2. /\ At(l, v).type = l.type /\ Sub("postgres", l, v, r.many).type = l.type
        /\ At(r, w).type = r.type /\ Sub("postgres", r, w, l.many).type = r.type
    BY <1>1, TypesKept
  <2> HIDE DEF Ordering
  <2>3. /\ Cond("sqlite", o, At(l2, u), At(r2, t)) # "E"
        /\ Cond("postgres", o, At(l, v), At(r, w)) # "E" =>
             Ordering(Cond("postgres", o, At(l, v), At(r, w)), Cond("sqlite", o, At(l2, u), At(r2, t)))
    BY <1>4, <2>1, <2>2
  <2> DEFINE a == Sub("postgres", l, v, r.many)
             b == Sub("sqlite", l2, u, r.many)
             c == Sub("postgres", r, w, l.many)
             d == Sub("sqlite", r2, t, l.many)
  <2>4. /\ Cond("sqlite", o, b, d) # "E"
        /\ Cond("postgres", o, a, c) # "E" => Ordering(Cond("postgres", o, a, c), Cond("sqlite", o, b, d))
    <3>1. Pair(a, b, v) /\ Pair(c, d, w) /\ a.type = l.type /\ c.type = r.type
      BY <2>1, <2>2
    <3> HIDE DEF a, b, c, d
    <3> QED BY <1>4, <3>1
  <2> QED BY <1>1, <2>3, <2>4
<1>6. "E" \notin outer2 /\ "E" \notin inside2
  BY <1>2, <1>5 DEF Outer, Inside
<1>7. Selected("postgres", o, any, l, r) = Bool("T" \in outer /\ (multi => "F" \notin inside))
      /\ "E" \notin outer /\ (multi => "E" \notin inside)
  <2>1. \A b : Bool(b) # "E"
    BY DEF Bool
  <2> QED BY <2>1, SelectedIs
<1>8. Selected("sqlite", o, any, l2, r2) = Bool("T" \in outer2 /\ (multi => "F" \notin inside2))
  BY <1>1, <1>6, SelectedIs
<1>9. CASE o = "~"
  <2>1. ASSUME "T" \in outer PROVE "T" \in outer2
    <3>1. PICK v \in l.vals, w \in r.vals : Cond("postgres", o, At(l, v), At(r, w)) = "T"
      BY <2>1 DEF Outer
    <3>2. PICK u \in l2.vals, t \in r2.vals : Match(l, l2, v, u) /\ Match(r, r2, w, t)
      BY <1>2
    <3>3. Cond("sqlite", o, At(l2, u), At(r2, t)) = "T"
      BY <1>5, <1>9, <3>1, <3>2 DEF Below
    <3> QED BY <3>3 DEF Outer
  <2>2. ASSUME multi, "F" \in inside2 PROVE "F" \in inside
    <3>1. PICK u \in l2.vals, t \in r2.vals :
             Cond("sqlite", o, Sub("sqlite", l2, u, r2.many), Sub("sqlite", r2, t, l2.many)) = "F"
      BY <2>2 DEF Inside
    <3>2. PICK v \in l.vals, w \in r.vals : Match(l, l2, v, u) /\ Match(r, r2, w, t)
      BY <1>2
    <3>3. Cond("postgres", o, Sub("postgres", l, v, r.many), Sub("postgres", r, w, l.many)) # "E"
      BY <1>7, <2>2 DEF Inside
    <3>4. Cond("postgres", o, Sub("postgres", l, v, r.many), Sub("postgres", r, w, l.many)) = "F"
      BY <1>5, <1>9, <3>1, <3>2, <3>3 DEF Below
    <3> QED BY <3>4 DEF Inside
  <2> HIDE DEF outer, inside, outer2, inside2, multi
  <2> QED BY <1>7, <1>8, <1>9, <2>1, <2>2 DEF Bool
<1>10. CASE o # "~"
  <2>1. ASSUME "T" \in outer2 PROVE "T" \in outer
    <3>1. PICK u \in l2.vals, t \in r2.vals : Cond("sqlite", o, At(l2, u), At(r2, t)) = "T"
      BY <2>1 DEF Outer
    <3>2. PICK v \in l.vals, w \in r.vals : Match(l, l2, v, u) /\ Match(r, r2, w, t)
      BY <1>2
    <3>3. Cond("postgres", o, At(l, v), At(r, w)) # "E"
      BY <1>7 DEF Outer
    <3>4. Cond("postgres", o, At(l, v), At(r, w)) = "T"
      BY <1>5, <1>10, <3>1, <3>2, <3>3 DEF Below
    <3> QED BY <3>4 DEF Outer
  <2>2. ASSUME multi, "F" \in inside PROVE "F" \in inside2
    <3>1. PICK v \in l.vals, w \in r.vals :
             Cond("postgres", o, Sub("postgres", l, v, r.many), Sub("postgres", r, w, l.many)) = "F"
      BY <2>2 DEF Inside
    <3>2. PICK u \in l2.vals, t \in r2.vals : Match(l, l2, v, u) /\ Match(r, r2, w, t)
      BY <1>2
    <3>3. Cond("sqlite", o, Sub("sqlite", l2, u, r2.many), Sub("sqlite", r2, t, l2.many)) = "F"
      BY <1>5, <1>10, <3>1, <3>2 DEF Below
    <3> QED BY <3>3 DEF Inside
  <2> HIDE DEF outer, inside, outer2, inside2, multi
  <2> QED BY <1>7, <1>8, <1>10, <2>1, <2>2 DEF Bool
<1> QED BY <1>9, <1>10

\* On texts and numbers ~ selects no record that SQLite does not, and !~ leaves none
\* out, however many values a multi-match field has (castToText, wrapLikeParams)
THEOREM LikeSelectsNoMore == Spec => []LikeIsNarrower
<1>1. TypeOK => LikeIsNarrower
  <2> SUFFICES ASSUME TypeOK, Read, op[1] \in LikeOps, Pg # "E",
                      {L.type, R.type} \cap {"boolean", "jsonb"} = {}
               PROVE  IF op[1] = "~" THEN Pg = "T" => Lite = "T" ELSE Lite = "T" => Pg = "T"
    BY DEF LikeIsNarrower
  <2>1. Twins(L, ResolveLite(left)) /\ Twins(R, ResolveLite(right)) /\ op[2] \in BOOLEAN
    BY WhenRead
  <2>2. L.type \notin {"boolean", "jsonb"} /\ R.type \notin {"boolean", "jsonb"}
    OBVIOUS
  <2>3. /\ Pg = Selected("postgres", op[1], op[2], L, R)
        /\ Lite = Selected("sqlite", op[1], op[2], ResolveLite(left), ResolveLite(right))
    BY DEF Pg, PgOf, Lite
  <2>4. Selected("postgres", op[1], op[2], L, R) # "E"
    BY <2>3
  <2> QED BY <2>1, <2>2, <2>3, <2>4, SelectedBelow
<1> QED BY <1>1, TypeCorrect, PTL
===============================================================================
