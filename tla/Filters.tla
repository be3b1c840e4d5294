-------------------------------- MODULE Filters --------------------------------
(***************************************************************************)
(* A filter `left op right` as the search provider turns it into SQL, for  *)
(* PostgreSQL and, as the reference, for SQLite.                           *)
(*                                                                         *)
(* Sources: _overlay/tools/search/filter_postgres.go and filter_sqlite.go. *)
(* An operand is a ResolverResult without its name: what its identifier    *)
(* is, its NullFallback, whether it has a MultiMatchSubQuery, and the      *)
(* values it has in the rows of one record.  The condition that is built   *)
(* is evaluated as the dialect does, as far as the comments of the code    *)
(* tell: PostgreSQL wants both sides of one type, SQLite compares          *)
(* anything.  No text here looks like a number, so nothing hangs on a      *)
(* conversion between the two.                                             *)
(***************************************************************************)
EXTENDS Naturals, Sequences, FiniteSets

CONSTANTS
    MaxMany,  \* bound on the values of a multi-match subquery
    AnyOps,   \* are the ?= operators read too
    Collation \* that of the database: "bytewise" as SQLite's, or "linguistic"

ASSUME FilterAssumption ==
    MaxMany \in Nat /\ AnyOps \in BOOLEAN /\ Collation \in {"bytewise", "linguistic"}

VARIABLES left, op, right   \* the tokens of the filter read so far

vars == <<left, op, right>>

-----------------------------------------------------------------------------
(* Values and operands.                                                    *)

Null == <<"null", "sql">>
JsonNull == <<"null", "null">>
Empty == <<"text", "">>
Words == {<<"text", "a">>, <<"text", "A">>}
Bits(type) == {<<type, "0">>, <<type, "1">>}

\* the values of a field of each type
ValuesOf(type) ==
    CASE type = "text" -> Words \cup {Empty, Null}
      [] type \in {"numeric", "boolean"} -> Bits(type) \cup {Null}
      [] type = "jsonb" -> Words \cup Bits("numeric") \cup Bits("boolean") \cup {JsonNull, Null}

\* kind: a plain "field", a "json" extraction (it ends in ::jsonb), a bound
\* "param", a "literal", the "null" identifier
Operand(kind, type, fallback, many, vals) ==
    [kind |-> kind, type |-> type, fallback |-> fallback, many |-> many, vals |-> vals]

\* what a field is in the rows of one record: one value, or those of the subquery
Samples(type) ==
    {<<FALSE, {v}>> : v \in ValuesOf(type)}
      \cup {<<TRUE, S>> : S \in {T \in SUBSET ValuesOf(type) :
                                    T # {} /\ Cardinality(T) <= MaxMany}}

\* what the field resolver may return; a JSON extraction disables the fallback
Fields ==
    {Operand("field", t[1], t[2], t[3][1], t[3][2]) : t \in
        UNION {{type} \X {"auto", "enforced"} \X Samples(type) :
                  type \in {"text", "numeric", "boolean"}}}
      \cup {Operand("json", "jsonb", "disabled", s[1], s[2]) : s \in Samples("jsonb")}

\* what else a filter is written with
Constants ==
    ({"text"} \X (Words \cup {Empty})) \cup ({"number"} \X Bits("numeric"))
      \cup ({"macro"} \X (Words \cup Bits("numeric"))) \cup ({"bool"} \X Bits("boolean"))
      \cup {<<"null", Null>>}

Tokens == ({"field"} \X Fields) \cup Constants

Plain(kind, v) == Operand(kind, v[1], "auto", FALSE, {v})

\* resolveToken, PostgreSQL: a number and the empty text stand in the statement
\* itself, the macros and other texts become parameters
Resolve(t) ==
    CASE t[1] = "field" -> t[2]
      [] t[1] \in {"number", "bool"} \/ t = <<"text", Empty>> -> Plain("literal", t[2])
      [] t[1] = "macro" \/ (t[1] = "text" /\ t[2] # Empty) -> Plain("param", t[2])
      [] t[1] = "null" -> Plain("null", Null)

\* resolveToken, SQLite: true and false are the numbers 1 and 0
ResolveLite(t) ==
    CASE t[1] = "field" -> t[2]
      [] t[1] \in {"text", "number", "macro"} -> Plain("param", t[2])
      [] t[1] = "bool" -> Plain("literal", <<"numeric", t[2][2]>>)
      [] t[1] = "null" -> Plain("null", Null)

Val(o) == CHOOSE v \in o.vals : TRUE

\* isEmptyIdentifier and hasEmptyParamValue
IsEmpty(o) == o.kind = "null" \/ (o.kind \in {"literal", "param"} /\ Val(o) = Empty)

-----------------------------------------------------------------------------
(* Three-valued logic; "E" is a statement the server refuses.              *)

Bool(b) == IF b THEN "T" ELSE "F"
Not(x) == CASE x = "T" -> "F" [] x = "F" -> "T" [] OTHER -> x
And(x, y) == IF "E" \in {x, y} THEN "E"
             ELSE IF "F" \in {x, y} THEN "F"
             ELSE IF "U" \in {x, y} THEN "U"
             ELSE "T"
Or(x, y) == Not(And(Not(x), Not(y)))

EqualOps == {"=", "!="}
LikeOps == {"~", "!~"}
OrderOps == {"<", "<=", ">", ">="}

\* texts in the order of their bytes, and in that of a language, where capital letters
\* come second; CREATE DATABASE takes the collation of the template
Bytewise == <<"", "'A'", "'a'", "0", "1", "A", "a", "false", "null", "true">>
Linguistic == <<"", "'a'", "'A'", "0", "1", "a", "A", "false", "null", "true">>

\* jsonb puts texts before numbers, SQLite numbers before texts
JsonKinds == <<"null", "text", "numeric", "boolean">>
LiteKinds == <<"numeric", "text">>

Place(x, order) == CHOOSE n \in DOMAIN order : order[n] = x
RankIn(kinds, texts, v) == 20 * Place(v[1], kinds) + Place(v[2], texts)
Rank(v) == RankIn(JsonKinds, IF Collation = "bytewise" THEN Bytewise ELSE Linguistic, v)
LiteRank(v) == RankIn(LiteKinds, Bytewise, v)

InOrder(o, m, n) == CASE o = "<" -> m < n [] o = "<=" -> m <= n
                      [] o = ">" -> m > n [] o = ">=" -> m >= n

\* "IS" and "IS NOT" are IS NOT DISTINCT FROM and IS DISTINCT FROM in PostgreSQL
Compare(o, x, y) ==
    IF Null \in {x, y} /\ o \notin {"IS", "IS NOT"} THEN "U"
    ELSE Bool(CASE o \in {"IS", "="} -> x = y
                [] o = "IS NOT" -> x # y
                [] OTHER -> InOrder(o, Rank(x), Rank(y)))

LiteOrder(o, x, y) ==
    IF Null \in {x, y} THEN "U" ELSE Bool(InOrder(o, LiteRank(x), LiteRank(y)))

\* a word of JSON as text
Quoted(v) == <<"text", IF v[2] = "a" THEN "'a'" ELSE "'A'">>

\* how PostgreSQL prints a value: booleans as words, the texts of JSON in quotes
Printed(type, v) ==
    CASE v = Null -> Null
      [] v[1] = "boolean" -> <<"text", IF v[2] = "1" THEN "true" ELSE "false">>
      [] v = JsonNull -> <<"text", "null">>
      [] type = "jsonb" /\ v[1] = "text" -> Quoted(v)
      [] OTHER -> <<"text", v[2]>>

\* LIKE with % on both sides, on texts so short that one is in the other only
\* if it is empty, the same or what the quotes are around
Like(x, y) ==
    IF Null \in {x, y} THEN "U"
    ELSE Bool(y \in {Empty, x} \/ (y \in Words /\ x = Quoted(y)))

-----------------------------------------------------------------------------
(* PostgreSQL: types.                                                      *)

\* inferDeterministicType; "" if the text of the identifier does not tell
Inferred(o) ==
    IF \/ o.kind = "json"
       \/ o.kind = "literal" /\ o.type # "text"
       \/ o.kind = "param" /\ o.type = "numeric"
    THEN o.type ELSE ""

\* inferPolymorphicLiteral
IsTextLiteral(o) == o.kind \in {"literal", "param"} /\ o.type = "text"

\* a term of the statement: its type, "unknown" if the server has to find it from
\* the context, "error" if it cannot be; and its value
Refused == [type |-> "error", val |-> Null]
Bare(o) ==
    [type |-> IF o.kind \in {"param", "null"} \/ IsTextLiteral(o) THEN "unknown" ELSE o.type,
     val |-> Val(o)]

\* an untyped term in a place of type t: it must be written as a value of t
Bind(term, t) ==
    IF term.type # "unknown" THEN term
    ELSE IF term.val = Null \/ term.val[1] = t THEN [type |-> t, val |-> term.val]
    ELSE Refused

\* withNonJsonbType(o, "text"), what is no text printed as one
AsText(o) ==
    IF Bare(o).type = "unknown" THEN Bind(Bare(o), "text")
    ELSE [type |-> "text", val |-> Printed(o.type, Val(o))]

\* withNonJsonbType(o, "numeric"): booleans have no such cast, and a JSON value
\* must hold a number
AsNumeric(o) ==
    IF o.type # "boolean" /\ (Val(o) = Null \/ Val(o)[1] = "numeric")
    THEN [type |-> "numeric", val |-> Val(o)] ELSE Refused

\* castToJsonb; to_jsonb of a parameter needs the ::text that only texts get
AsJson(o) ==
    IF o.kind = "param" /\ o.type # "text" THEN Refused
    ELSE [type |-> "jsonb", val |-> Val(o)]

\* an operator between two terms
Apply(o, a, b) ==
    LET t == IF a.type # "unknown" THEN a.type
             ELSE IF b.type # "unknown" THEN b.type ELSE "text"
        x == Bind(a, t)
        y == Bind(b, t)
    IN IF \/ "error" \in {x.type, y.type} \/ x.type # y.type
          \/ \* NULL IS [NOT] DISTINCT FROM $1: "could not determine data type"
             a.type = "unknown" /\ b.type = "unknown" /\ Null \in {a.val, b.val}
               /\ o \in {"IS", "IS NOT"}
       THEN "E" ELSE Compare(o, x.val, y.val)

-----------------------------------------------------------------------------
(* PostgreSQL: conditions.                                                 *)

\* mutant: a side with no type of its own is never cast
Adapted_Typed(x, y) ==
    IF Inferred(x) # "" /\ Inferred(y) # "" /\ Inferred(x) # Inferred(y)
    THEN AsJson(x) ELSE Bare(x)

\* typeAwareJoinNoCoalesce: one side as it faces the other
Adapted(x, y) ==
    IF Inferred(x) = "jsonb" \/ (Inferred(x) = Inferred(y) /\ Inferred(x) # "") THEN Bare(x)
    ELSE IF Inferred(y) = "jsonb" \/ (Inferred(x) # "" /\ Inferred(y) # "") THEN AsJson(x)
    ELSE IF y.kind = "null" /\ IsTextLiteral(x) THEN AsText(x)
    ELSE Bare(x)

\* mutant: the right side is never cast
Join_Left(o, l, r) == Apply(o, Adapted(l, r), Bare(r))

Join(o, l, r) == Apply(o, Adapted(l, r), Adapted(r, l))

\* x = '' OR x IS NULL, x IS DISTINCT FROM '' AND x IS NOT NULL
EmptyOrNull(equal, x) ==
    LET isEmpty == Apply(IF equal THEN "=" ELSE "IS NOT", AsText(x), Bare(Plain("literal", Empty)))
        isNull == Bool(Val(x) = Null)
    IN IF equal THEN Or(isEmpty, isNull) ELSE And(isEmpty, Not(isNull))

\* isKnownNonEmptyIdentifier
KnownNonEmpty(o) == o.kind \in {"literal", "param"} /\ ~IsEmpty(o)

\* mutant: = where IS NOT DISTINCT FROM is needed
NullSafe_Plain(equal) == IF equal THEN "=" ELSE "IS NOT"
\* nullEqualOp
NullSafe(equal) == IF equal THEN "IS" ELSE "IS NOT"

\* resolveEqualExpr
Equality(equal, l, r) ==
    IF "disabled" \in {l.fallback, r.fallback} THEN Join(NullSafe(equal), l, r)
    ELSE IF IsEmpty(l) /\ IsEmpty(r) THEN Bool(equal)
    ELSE IF KnownNonEmpty(l) \/ KnownNonEmpty(r) THEN Join(IF equal THEN "=" ELSE "IS NOT", l, r)
    ELSE IF IsEmpty(l) THEN EmptyOrNull(equal, r)
    ELSE IF IsEmpty(r) THEN EmptyOrNull(equal, l)
    ELSE Apply(NullSafe(equal), AsJson(l), AsJson(r))

\* resolveOrderingExpr: one side as it faces the other
Ordered(x, y) ==
    IF "" \in {Inferred(x), Inferred(y)} \/ Inferred(x) \in {Inferred(y), "numeric"} THEN Bare(x)
    ELSE IF Inferred(y) = "numeric" THEN AsNumeric(x)
    ELSE AsText(x)

\* mutant: the text is looked for in the pattern
Likeness_Swapped(l, r) ==
    IF "error" \in {AsText(l).type, AsText(r).type} THEN "E"
    ELSE Like(AsText(r).val, AsText(l).val)
\* LIKE; a parameter on the right is wrapped, and with it made a text
Likeness(l, r) ==
    LET y == IF r.kind = "param" THEN <<"text", Val(r)[2]>> ELSE AsText(r).val IN
    IF AsText(l).type = "error" THEN "E" ELSE Like(AsText(l).val, y)

\* the condition for two operands with one value each
Condition(o, l, r) ==
    CASE o \in EqualOps -> Equality(o = "=", l, r)
      [] o = "~" -> Likeness(l, r)
      [] o = "!~" -> Not(Likeness(l, r))
      [] o \in OrderOps -> Apply(o, Ordered(l, r), Ordered(r, l))

-----------------------------------------------------------------------------
(* SQLite.                                                                 *)

\* booleans are numbers, a JSON null is extracted as NULL
LiteVal(o) == CASE Val(o)[1] = "boolean" -> <<"numeric", Val(o)[2]>>
                [] Val(o) = JsonNull -> Null
                [] OTHER -> Val(o)

LiteText(o) == IF LiteVal(o) = Null THEN Null ELSE <<"text", LiteVal(o)[2]>>

LiteEmpty(o) == IsEmpty(o) /\ (o.kind = "param" => o.fallback = "auto")

LiteKnown(o) == o.fallback # "enforced" /\ o.kind \in {"literal", "param"} /\ ~IsEmpty(o)

Coalesced(o) == IF LiteVal(o) = Null THEN Empty ELSE LiteVal(o)

\* resolveEqualExpr
LiteEquality(equal, l, r) ==
    LET eq == IF equal THEN "=" ELSE "IS NOT"
        Side(o) == IF LiteEmpty(o) THEN Empty ELSE LiteVal(o)
        OrNull(o) == IF equal THEN Bool(LiteVal(o) \in {Empty, Null})
                     ELSE Bool(LiteVal(o) \notin {Empty, Null})
    IN IF "disabled" \in {l.fallback, r.fallback}
         THEN Compare(IF equal THEN "IS" ELSE "IS NOT", LiteVal(l), LiteVal(r))
       ELSE IF LiteEmpty(l) /\ LiteEmpty(r) THEN Bool(equal)
       ELSE IF LiteKnown(l) \/ LiteKnown(r) THEN Compare(eq, Side(l), Side(r))
       ELSE IF LiteEmpty(l) THEN OrNull(r)
       ELSE IF LiteEmpty(r) THEN OrNull(l)
       ELSE Compare(eq, Coalesced(l), Coalesced(r))

\* LIKE does not tell small from capital letters
Fold(v) == IF v = <<"text", "A">> THEN <<"text", "a">> ELSE v

LiteCondition(o, l, r) ==
    LET likeness == Like(Fold(LiteText(l)), Fold(LiteText(r))) IN
    CASE o \in EqualOps -> LiteEquality(o = "=", l, r)
      [] o = "~" -> likeness
      [] o = "!~" -> Not(likeness)
      [] o \in OrderOps -> LiteOrder(o, LiteVal(l), LiteVal(r))

-----------------------------------------------------------------------------
(* Multi-match: buildResolversExpr, manyVsManyExpr and manyVsOneExpr.      *)

\* the subquery's "multiMatchValue" column
Column(o, v, fallback) == Operand("field", o.type, fallback, FALSE, {v})

\* some value refutes the condition: NOT condition is true for it
Refuted(results) == "F" \in results

Cond(dialect, o, l, r) ==
    IF dialect = "sqlite" THEN LiteCondition(o, l, r) ELSE Condition(o, l, r)

\* mutant: the fallback is lost altogether
Passed_Nothing(fallback) == "auto"
\* noCoalesce passes on whether the fallback is disabled and nothing else
Passed(fallback) == IF fallback = "disabled" THEN "disabled" ELSE "auto"
Kept(dialect, fallback) == IF dialect = "sqlite" THEN fallback ELSE Passed(fallback)

\* is a record selected?  The condition holds in one of its rows, and unless the
\* operator is one of the ?= family no value refutes it.  The other operand, if
\* single, goes into the subquery with the default fallback.
Selected(dialect, o, any, l, r) ==
    LET outer == {Cond(dialect, o, [l EXCEPT !.vals = {v}], [r EXCEPT !.vals = {w}]) :
                     v \in l.vals, w \in r.vals}
        Inner(x, v, y) ==
            IF x.many THEN Column(x, v, IF y.many THEN x.fallback ELSE Kept(dialect, x.fallback))
            ELSE [x EXCEPT !.fallback = "auto", !.vals = {v}]
        inner == {Cond(dialect, o, Inner(l, v, r), Inner(r, w, l)) : v \in l.vals, w \in r.vals}
        multi == ~any /\ (l.many \/ r.many)
    IN IF "E" \in outer \/ (multi /\ "E" \in inner) THEN "E"
       ELSE Bool("T" \in outer /\ (multi => ~Refuted(inner)))

-----------------------------------------------------------------------------
(* The filter is read from left to right.                                  *)

None == <<"none", Null>>

Init == left = None /\ op = <<"none", FALSE>> /\ right = None

ReadLeft == left = None /\ left' \in Tokens /\ UNCHANGED <<op, right>>

ReadOp ==
    /\ left # None /\ op[1] = "none"
    /\ \E o \in EqualOps \cup LikeOps \cup OrderOps, any \in {FALSE, AnyOps} : op' = <<o, any>>
    /\ UNCHANGED <<left, right>>

\* mutant: the right operand is read where the operator should be
ReadRight_Early == left # None /\ right = None /\ right' \in Tokens /\ UNCHANGED <<left, op>>
ReadRight == op[1] # "none" /\ right = None /\ right' \in Tokens /\ UNCHANGED <<left, op>>

Next == ReadLeft \/ ReadOp \/ ReadRight

Spec == Init /\ [][Next]_vars

-----------------------------------------------------------------------------
Read == right # None
L == Resolve(left)
R == Resolve(right)
PgOf(o, l, r) == Selected("postgres", o, op[2], l, r)
Pg == PgOf(op[1], L, R)
Lite == Selected("sqlite", op[1], op[2], ResolveLite(left), ResolveLite(right))

\* a filter is read in order, and a statement selects, rejects or is refused
TypeOK ==
    /\ left \in Tokens \cup {None} /\ right \in Tokens \cup {None}
    /\ op \in ((EqualOps \cup LikeOps \cup OrderOps) \X BOOLEAN) \cup {<<"none", FALSE>>}
    /\ right # None => op[1] # "none"
    /\ op[1] # "none" => left # None
    /\ Read => Pg \in {"T", "F", "E"}

Values == L.vals \cup R.vals
IsColumn(o) == o.kind \in {"field", "json"}
Single == ~L.many /\ ~R.many

\* SQLite knows no booleans: 1 is true, and both come before any text
KindsMixed ==
    \E v, w \in Values : v[1] = "boolean" /\ w[1] \in {"numeric", "text"}
                           /\ (op[1] \in EqualOps => w[1] = "numeric")
\* texts and numbers of JSON are not in the same order
TextWithNumber ==
    op[1] \in OrderOps /\ \E v \in L.vals, w \in R.vals : {v[1], w[1]} = {"text", "numeric"}
\* nor are small and capital letters, unless the collation is that of the bytes
LettersDiffer ==
    op[1] \in OrderOps /\ Collation # "bytewise" /\ \E v \in L.vals, w \in R.vals : {v, w} = Words
\* COALESCE(column, '') is not translated when both sides are columns
TwoEmpties == IsColumn(L) /\ IsColumn(R) /\ {Empty, Null} \subseteq Values

\* Whatever the tokens, casts and NULLs of a filter, and whether a field has one
\* value or those of a multi-match subquery: a statement that PostgreSQL accepts
\* selects a record if and only if that of SQLite does.  What is left aside are
\* values that SQLite has no types for or another order, and the differences named above
\* (resolveEqualExpr, resolveOrderingExpr, manyVsOneExpr, manyVsManyExpr).
SelectsAsSqlite ==
    Read /\ Pg # "E" /\ op[1] \notin LikeOps
      /\ ~KindsMixed /\ ~TextWithNumber /\ ~LettersDiffer
      /\ JsonNull \notin Values /\ ~TwoEmpties
    => (Pg = "T" <=> Lite = "T")

\* On texts and numbers ~ never selects more than it does with SQLite, and !~ never
\* less: LIKE tells small from capital letters here (castToText, wrapLikeParams).
LikeIsNarrower ==
    Read /\ op[1] \in LikeOps /\ Pg # "E"
      /\ {L.type, R.type} \cap {"boolean", "jsonb"} = {}
    => IF op[1] = "~" THEN Pg = "T" => Lite = "T" ELSE Lite = "T" => Pg = "T"

\* No record is lost between = and !=: of a record with one value on each side
\* exactly one of them selects it, NULLs included, whatever casts the types need
\* (nullEqualOp, typeAwareJoinNoCoalesce).
EqualOrUnequal ==
    Read /\ op[1] = "=" /\ Single /\ Pg # "E"
    => (Pg = "T") # (PgOf("!=", L, R) = "T")

\* the same comparison seen from the other side
Mirrored(o) ==
    CASE o = "<" -> ">" [] o = ">" -> "<" [] o = "<=" -> ">=" [] o = ">=" -> "<=" [] OTHER -> o

\* It does not matter on which side an operand stands: a filter and its mirror image
\* are refused together or select the same records, multi-match included
\* (the inverse flag of manyVsOneExpr, the casts of either side).
MirrorSelectsTheSame ==
    Read /\ op[1] \notin LikeOps => Pg = PgOf(Mirrored(op[1]), R, L)

\* Two columns of any types may be compared with = and !=, and a JSON value with
\* anything but a number from a macro: "to_jsonb() erase the type so that different
\* types can be compared safely" (resolveEqualExpr, castToJsonb).
EqualityIsAccepted ==
    Read /\ op[1] \in EqualOps /\ Single
      /\ (\/ IsColumn(L) /\ IsColumn(R)
          \/ "json" \in {L.kind, R.kind} /\ "macro" \notin {left[1], right[1]})
    => Pg # "E"

=============================================================================
