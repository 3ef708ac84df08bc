------------------------------ MODULE MCValidate ------------------------------
(***************************************************************************)
(* Applications for small instances of the validator: messages of rules    *)
(* and names; names that share fields, walked with and without bail();     *)
(* conditions, filters and repeated validations; the registries of rules;  *)
(* and every rule on every value.                                          *)
(***************************************************************************)
EXTENDS Integers, Sequences, TLC

Value(type, num, size) ==
    [type |-> type, num |-> num, size |-> size, numeric |-> FALSE, digits |-> FALSE, formats |-> {}]
Nil == Value("null", 0, 0)
Yes == Value("true", 1, 0)
Blank == Value("string", 0, 0)
Word == [Value("string", 0, 3) EXCEPT !.formats = {"email", "match"}]
Digits == [Value("string", 12, 2) EXCEPT !.numeric = TRUE, !.digits = TRUE]
Dozen == Value("long", 12, 0)
Half == Value("double", 0, 0)
Bare == Value("array", 0, 0)
Pair == Value("array", 0, 2)

Call(name) == [call |-> name]
NameCall(key) == [call |-> "name", key |-> key]
RuleCall(rule, args) == [call |-> "rule", rule |-> rule, args |-> args]
Text(m) == [text |-> m, args |-> <<>>]
MsgCall(m) == [call |-> "msg", msg |-> Text(m)]
FilterCall(v) == [call |-> "filter", result |-> v]
Guarded(f, g) == [call |-> "sometimes", field |-> f, guard |-> g]
ExtendCall(rule, types) == [call |-> "extend", rule |-> rule, func |-> types]
ValidatorCall(name, types, m) == [call |-> "validator", name |-> name, func |-> types, msg |-> Text(m)]
Both == {Call("valid"), Call("groupValid")}

Form(data, choices) == [data |-> data, calls |-> choices]
Times(n, choices) == [i \in 1..n |-> choices]

Messages ==
    LET rules == {RuleCall("min", <<13>>), RuleCall("min", <<12>>), RuleCall("max", <<11>>),
                  MsgCall("m1"), MsgCall("m2")}
    IN  Form({"a" :> Digits}, <<{NameCall("a")}>> \o Times(3, rules \cup {NameCall("a")}) \o <<rules, Both>>)
Shared ==
    LET names == {NameCall("a"), NameCall("a,b"), NameCall("b")}
        rules == {RuleCall("required", <<>>), RuleCall("min", <<1>>)}
    IN  Form({"a" :> Word @@ "b" :> Blank, "a" :> Digits @@ "b" :> Word},
             <<names, rules, rules \cup {Call("bail"), Call("groupValid")}, names \cup rules,
               rules \cup Both, rules \cup Both, Both>>)
Conditional ==
    LET rules == {RuleCall("min", <<1>>), MsgCall("m1"), Call("skip"), Guarded("a", "b"), Guarded("a", "a"), Guarded("b", "a")}
        filters == {FilterCall(Dozen), FilterCall(Blank)}
    IN  Form({"a" :> Word @@ "b" :> Blank, "b" :> Digits},
             <<{NameCall("a"), NameCall("a,b")}>> \o Times(3, rules) \o <<filters \cup Both, filters \cup rules, Both>>)
(* The first call may come before any name().                              *)
Registered ==
    LET rules == {RuleCall("int", <<>>), RuleCall("own", <<>>),
                  ValidatorCall("own", {"string"}, "v1"), ValidatorCall("own", {"long"}, "v2"),
                  ValidatorCall("int", {"string"}, "v3"),
                  ExtendCall("own", {}), ExtendCall("int", {"string"})}
    IN  Form({"a" :> Digits, "a" :> Dozen},
             <<rules \cup {MsgCall("m1"), Call("skip"), FilterCall(Half), Guarded("a", "b")}, {NameCall("a")}, rules, rules,
               {Call("init"), Call("valid")}, {NameCall("a")}, rules \cup {Call("valid")}, {Call("valid")}>>)
(* Every rule, with the arguments that it takes, on every value.           *)
Ruled ==
    LET values == {Nil, Yes, Blank, Word, Digits, Dozen, Half, Bare, Pair}
    IN  Form({"a" :> v @@ "b" :> w : v \in values, w \in values} \cup {"b" :> Dozen},
             <<{NameCall("a")},
               {RuleCall(r, <<>>) : r \in {"required", "number", "int", "digit", "string", "email", "match"}}
                 \cup {RuleCall(r, <<n>>) : r \in {"max", "min"}, n \in {0, 1, 12}}
                 \cup {RuleCall(r, b) : r \in {"range", "length", "size"}, b \in {<<0, 2>>, <<1, 12>>}}
                 \cup {RuleCall("equal", <<"b">>), RuleCall("equals", <<Digits>>)},
               {Call("valid")}>>)

FormChoices == {Messages, Shared, Conditional, Registered, Ruled}
===============================================================================
