------------------------------- MODULE Validate -------------------------------
(***************************************************************************)
(* Gene\Validate (src/http/validate.c): a chain of calls on one object     *)
(* says which rules the fields of an array have to pass, with which        *)
(* arguments and messages; valid() walks the fields up to the first        *)
(* failure, groupValid() through all of them.  The object collects errors  *)
(* and values until the next init().                                       *)
(*                                                                         *)
(* A value is known by what the rules tell apart: its type, the number     *)
(* that it is or starts with, its length or number of elements, whether it *)
(* is numeric or only digits, and the formats it has.  A callback accepts  *)
(* the values of some types, and no absent field.                          *)
(***************************************************************************)
EXTENDS Integers, Sequences, SequencesExt, FiniteSets, FiniteSetsExt, Functions, TLC

CONSTANTS
    Forms,   \* applications: [data: arrays to validate, calls: what may be called first,
             \*  second, ...]
    Absent

VARIABLES
    form,    \* the application
    object,  \* the validator
    ext,     \* GENE_G(validate_ext): the rules of extend()
    chain,   \* ghost: the calls since init()
    calls,   \* calls so far
    outcome  \* the last verdict, with the errors and values that were there before

validateVars == <<form, object, ext, chain, calls, outcome>>

ValidateAssumption == \A u \in Forms : u.data # {} /\ \A i \in DOMAIN u.calls : u.calls[i] # {}

Nothing == [x \in {} |-> Absent]

-----------------------------------------------------------------------------
(* required(): there, and not null, "" or an empty array.                  *)
Required(data, f) ==
    /\ f \in DOMAIN data
    /\ data[f].type # "null"
    /\ data[f].type \in {"string", "array"} => data[f].size > 0

(* compareSizeMax(), compareSizeMin(): a string counts as the integer that *)
(* it starts with, what is no number as 0.                                 *)
Number(v) ==
    CASE v.type \in {"long", "string"} -> v.num
      [] v.type = "true" -> 1
      [] OTHER -> 0

(* rule_equal() and rule_equals(): of one type, and equal where the type   *)
(* is compared at all.                                                     *)
Same(v, w) ==
    /\ v.type = w.type
    /\ \/ v.type \in {"null", "true", "false"}
       \/ v.type \in {"long", "double", "string"} /\ v = w

(* Rules that leave the value to PCRE, filter_var() or another function.   *)
Formats == {"match", "in", "url", "email", "ip", "mobile", "date", "datetime"}

BuiltIns ==
    {"required", "max", "min", "range", "length", "size", "number", "int", "digit", "string",
     "equal", "equals"} \cup Formats

(* rule_*(): none of them passes an absent field.                          *)
BuiltIn(rule, args, data, f) ==
    /\ f \in DOMAIN data
    /\ LET v == data[f]
       IN  CASE rule = "required" -> Required(data, f)
             [] rule = "max" -> Number(v) <= args[1]
             [] rule = "min" -> Number(v) >= args[1]
             [] rule = "range" -> args[1] <= Number(v) /\ Number(v) <= args[2]
             [] rule = "length" -> v.type = "string" /\ v.size \in args[1]..args[2]
             [] rule = "size" -> v.type = "array" /\ v.size \in args[1]..args[2]
             [] rule = "number" -> v.type \in {"long", "double"} \/ (v.type = "string" /\ v.numeric)
             [] rule = "int" -> v.type = "long"
             [] rule = "digit" -> v.type = "long" \/ (v.type = "string" /\ v.digits)
             [] rule = "string" -> v.type = "string"
             [] rule = "equal" -> args[1] \in DOMAIN data /\ Same(v, data[args[1]])
             [] rule = "equals" -> Same(v, args[1])
             [] OTHER -> rule \in v.formats

Accepts(func, data, f) == f \in DOMAIN data /\ data[f].type \in func

(* getErrorMsg(), formatted with the arguments.                            *)
ErrorMsg(rule, args) ==
    IF rule \in BuiltIns THEN [text |-> rule, args |-> args]
    ELSE [text |-> "Validation error", args |-> args]

(* gene_split_comma(): the fields of a name.                               *)
SplitComma(key) == CASE key = "a,b" -> <<"a", "b">> [] OTHER -> <<key>>

-----------------------------------------------------------------------------
(* reset_params(), and the array.  config is in the order of the hash:     *)
(* per name skip, msg and the list of rules with their args and msg.       *)
Reset(data) ==
    [data |-> data, key |-> Absent, method |-> Absent, config |-> <<>>, value |-> Nothing,
     error |-> <<>>, closure |-> Nothing, bail |-> FALSE, sometimes |-> Nothing]

(* zend_hash_update() on an ordered hash of messages.                      *)
SetError(errors, f, m) ==
    LET i == SelectInSeq(errors, LAMBDA e : e.field = f)
    IN  IF i = 0 THEN Append(errors, [field |-> f, msg |-> m])
        ELSE [errors EXCEPT ![i].msg = m]
HasError(errors, f) == \E i \in DOMAIN errors : errors[i].field = f

(* The configuration with an entry for the current name, and where it is.  *)
Opened(o) ==
    IF \E i \in DOMAIN o.config : o.config[i].key = o.key THEN o.config
    ELSE Append(o.config, [key |-> o.key, skip |-> FALSE, msg |-> Absent, list |-> <<>>])
Current(o) == SelectInSeq(Opened(o), LAMBDA e : e.key = o.key)

Name(o, key) == [o EXCEPT !.method = Absent, !.key = key]
Bail(o) == [o EXCEPT !.bail = TRUE]
Sometimes(o, f, guard) == [o EXCEPT !.sometimes = (f :> guard) @@ @]
AddValidator(o, name, func, m) == [o EXCEPT !.closure = @ @@ (name :> [func |-> func, msg |-> m])]

(* skipOnEmpty(), __call(), msg() and filter() only warn without a name;   *)
(* what is called first for a rule or as a message counts.                 *)
SkipOnEmpty(o) ==
    IF o.key = Absent THEN o
    ELSE [o EXCEPT !.config = [Opened(o) EXCEPT ![Current(o)].skip = TRUE]]

Rule(o, rule, args) ==
    IF o.key = Absent THEN [o EXCEPT !.method = rule]
    ELSE [o EXCEPT
            !.method = rule,
            !.config = [Opened(o) EXCEPT ![Current(o)].list =
                IF \E i \in DOMAIN @ : @[i].rule = rule THEN @
                ELSE Append(@, [rule |-> rule, args |-> args, msg |-> Absent])]]

(* msg(): of the rule called last, or of the name if none was since name().*)
Msg(o, m) ==
    IF o.key = Absent THEN o
    ELSE [o EXCEPT !.config = [Opened(o) EXCEPT ![Current(o)] =
            IF o.method = Absent THEN [@ EXCEPT !.msg = IF @ = Absent THEN m ELSE @]
            ELSE LET i == SelectInSeq(@.list, LAMBDA l : l.rule = o.method)
                 IN  IF i = 0
                     THEN [@ EXCEPT !.list = Append(@, [rule |-> o.method, args |-> <<>>, msg |-> m])]
                     ELSE [@ EXCEPT !.list[i].msg = IF @ = Absent THEN m ELSE @]]]

(* filter(): the fields that are there are changed in the array at once.   *)
Filter(o, result) ==
    IF o.key = Absent THEN o
    ELSE [o EXCEPT !.data = [f \in DOMAIN @ |->
            IF f \in Range(SplitComma(o.key)) THEN result ELSE @[f]]]

-----------------------------------------------------------------------------
(* validCheck(): the rules of one field.  A walk is the object, whether    *)
(* all was valid, and whether the rest is left out.                        *)

(* addValidator() before extend() before the rules of the class.  The      *)
(* names fit their buffer: of the last two kinds, the code passes over one *)
(* of 59 characters or more with a warning.                                *)
Known(o, rule) == rule \in DOMAIN o.closure \cup DOMAIN ext \cup BuiltIns
Passes(o, rule, args, f) ==
    IF rule \in DOMAIN o.closure THEN Accepts(o.closure[rule].func, o.data, f)
    ELSE IF rule \in DOMAIN ext THEN Accepts(ext[rule], o.data, f)
    ELSE BuiltIn(rule, args, o.data, f)

(* The message of the rule, of the name, of the validator, of the class.   *)
Message(o, entry, l) ==
    LET given == SelectSeq(<<l.msg, entry.msg>>, LAMBDA m : m # Absent)
    IN  IF given # <<>> THEN Head(given)
        ELSE IF l.rule \in DOMAIN o.closure THEN o.closure[l.rule].msg
        ELSE ErrorMsg(l.rule, l.args)

Proceeds(o, f) == f \in DOMAIN o.sometimes => Required(o.data, o.sometimes[f])

(* Mutant: a value is stored also next to an error.                        *)
PassedAnyway(o, f) == [o EXCEPT !.value = (f :> o.data[f]) @@ @]

Passed(o, f) ==
    IF HasError(o.error, f) THEN o ELSE [o EXCEPT !.value = (f :> o.data[f]) @@ @]

Failed(o, f, m) ==
    [o EXCEPT !.value = Restrict(@, DOMAIN @ \ {f}), !.error = SetError(@, f, m)]

Checked(o, entry, f, isGroup) ==
    LET One(w, l) ==
          IF w.stop \/ ~Known(w.obj, l.rule) THEN w
          ELSE IF Passes(w.obj, l.rule, l.args, f) THEN [w EXCEPT !.obj = Passed(w.obj, f)]
          ELSE [obj |-> Failed(w.obj, f, Message(w.obj, entry, l)), valid |-> FALSE,
                stop |-> ~isGroup \/ w.obj.bail]
        start == [obj |-> o, valid |-> TRUE, stop |-> FALSE]
    IN  IF entry.list # <<>> /\ Proceeds(o, f) THEN FoldLeft(One, start, entry.list) ELSE start

(* valid() and groupValid().                                               *)
Walk(o, isGroup) ==
    LET places == FlattenSeq([i \in DOMAIN o.config |->
                     [j \in DOMAIN SplitComma(o.config[i].key) |->
                        <<o.config[i], SplitComma(o.config[i].key)[j]>>]])
        One(w, p) ==
          IF (~isGroup /\ ~w.valid) \/ (p[1].skip /\ ~Required(w.obj.data, p[2])) THEN w
          ELSE LET c == Checked(w.obj, p[1], p[2], isGroup)
               IN  [obj |-> c.obj, valid |-> w.valid /\ c.valid]
    IN  FoldLeft(One, [obj |-> o, valid |-> TRUE], places)

-----------------------------------------------------------------------------
NoOutcome == [verdict |-> Absent, error |-> <<>>, value |-> Nothing]

ValidateInit ==
    /\ form \in Forms
    /\ \E data \in form.data : object = Reset(data)
    /\ ext = Nothing /\ chain = <<>> /\ calls = 0 /\ outcome = NoOutcome

Callable(kinds) ==
    {c \in UNION {form.calls[i] : i \in DOMAIN form.calls \cap {calls + 1}} : c.call \in kinds}

(* init(): everything but the rules of extend() starts again.              *)
Start ==
    /\ Callable({"init"}) # {}
    /\ \E data \in form.data : object' = Reset(data)
    /\ chain' = <<>> /\ calls' = calls + 1 /\ outcome' = NoOutcome
    /\ UNCHANGED <<form, ext>>

Extend ==
    /\ \E c \in Callable({"extend"}) : ext' = (c.rule :> c.func) @@ ext
    /\ calls' = calls + 1 /\ outcome' = NoOutcome
    /\ UNCHANGED <<form, object, chain>>

Configured(o, c) ==
    CASE c.call = "name" -> Name(o, c.key)
      [] c.call = "rule" -> Rule(o, c.rule, c.args)
      [] c.call = "msg" -> Msg(o, c.msg)
      [] c.call = "skip" -> SkipOnEmpty(o)
      [] c.call = "bail" -> Bail(o)
      [] c.call = "sometimes" -> Sometimes(o, c.field, c.guard)
      [] c.call = "filter" -> Filter(o, c.result)
      [] c.call = "validator" -> AddValidator(o, c.name, c.func, c.msg)

Configure ==
    /\ \E c \in Callable({"name", "rule", "msg", "skip", "bail", "sometimes", "filter", "validator"}) :
         /\ object' = Configured(object, c)
         /\ chain' = Append(chain, c)
    /\ calls' = calls + 1 /\ outcome' = NoOutcome
    /\ UNCHANGED <<form, ext>>

Validation ==
    /\ \E c \in Callable({"valid", "groupValid"}) :
         LET w == Walk(object, c.call = "groupValid")
         IN  /\ object' = w.obj
             /\ outcome' = [verdict |-> w.valid, error |-> object.error, value |-> object.value]
             /\ chain' = Append(chain, c)
    /\ calls' = calls + 1
    /\ UNCHANGED <<form, ext>>

ValidateNext == Start \/ Extend \/ Configure \/ Validation

ValidateSpec == ValidateInit /\ [][ValidateNext]_validateVars

-----------------------------------------------------------------------------
(* Names are opened once, a field has one message, and what is stored was  *)
(* in the array or came from a filter.                                     *)
ValidateTypeOK ==
    /\ form \in Forms /\ calls \in 0..Len(form.calls) /\ Len(chain) <= calls
    /\ \A i, j \in DOMAIN object.config : object.config[i].key = object.config[j].key => i = j
    /\ \A i, j \in DOMAIN object.error : object.error[i].field = object.error[j].field => i = j
    /\ DOMAIN object.value \subseteq DOMAIN object.data
    /\ outcome.verdict \in BOOLEAN \cup {Absent}
    /\ outcome.verdict # Absent => Last(chain).call \in {"valid", "groupValid"}

-----------------------------------------------------------------------------
(* What the chain asks for, read off the calls.                            *)
CallsOf(kinds, upTo) == {i \in 1..upTo : chain[i].call \in kinds}
KeyAt(i) ==
    LET names == CallsOf({"name"}, i) IN IF names = {} THEN Absent ELSE chain[Max(names)].key
Under(kinds, key) == {i \in CallsOf(kinds, Len(chain)) : KeyAt(i) = key}
RuleCalls(key, rule) == {i \in Under({"rule"}, key) : chain[i].rule = rule}
(* A message belongs to the last rule or name before it.                   *)
MessagesOf(key, Owner(_)) ==
    {i \in Under({"msg"}, key) : Owner(chain[Max(CallsOf({"name", "rule"}, i))])}

Validators == {chain[i].name : i \in CallsOf({"validator"}, Len(chain))}
Validator(name) ==
    chain[Min({i \in CallsOf({"validator"}, Len(chain)) : chain[i].name = name})]

(* A test: a rule of a name, for one of its fields.                        *)
Tests ==
    LET keys == {KeyAt(i) : i \in CallsOf({"rule"}, Len(chain))} \ {Absent}
    IN  UNION {{[key |-> k, field |-> f, rule |-> chain[i].rule] :
                  f \in Range(SplitComma(k)), i \in Under({"rule"}, k)} : k \in keys}

Rank(t) ==
    <<Min(Under({"rule", "msg", "skip"}, t.key)),
      CHOOSE n \in 1..2 : SplitComma(t.key)[n] = t.field,
      Min(RuleCalls(t.key, t.rule))>>
Before(t, u) ==
    LET r == Rank(t)  s == Rank(u)
    IN  \E n \in 1..3 : r[n] < s[n] /\ \A m \in 1..(n-1) : r[m] = s[m]

Wanted(t) ==
    LET guards == {i \in CallsOf({"sometimes"}, Len(chain)) : chain[i].field = t.field}
    IN  /\ t.rule \in Validators \cup DOMAIN ext \cup BuiltIns
        /\ Under({"skip"}, t.key) # {} => Required(object.data, t.field)
        /\ guards # {} => Required(object.data, chain[Max(guards)].guard)

Holds(t) ==
    LET args == chain[Min(RuleCalls(t.key, t.rule))].args
    IN  IF t.rule \in Validators THEN Accepts(Validator(t.rule).func, object.data, t.field)
        ELSE IF t.rule \in DOMAIN ext THEN Accepts(ext[t.rule], object.data, t.field)
        ELSE BuiltIn(t.rule, args, object.data, t.field)

Says(t) ==
    LET own == MessagesOf(t.key, LAMBDA c : c.call = "rule" /\ c.rule = t.rule)
        general == MessagesOf(t.key, LAMBDA c : c.call = "name")
        given == IF own # {} THEN own ELSE general
    IN  IF given # {} THEN chain[Min(given)].msg
        ELSE IF t.rule \in Validators THEN Validator(t.rule).msg
        ELSE ErrorMsg(t.rule, chain[Min(RuleCalls(t.key, t.rule))].args)

Failures == {t \in Tests : Wanted(t) /\ ~Holds(t)}

(* The tests that are run: valid() stops after the first failure, bail()   *)
(* after the first of the name and field.                                  *)
Ran ==
    {t \in Tests : Wanted(t) /\
        \A u \in Failures :
           ~ /\ Before(u, t)
             /\ \/ Last(chain).call = "valid"
                \/ /\ CallsOf({"bail"}, Len(chain)) # {}
                   /\ u.key = t.key /\ u.field = t.field}
Reported == Failures \cap Ran

(* A validation says what the chain of calls asks for, however the calls   *)
(* were mixed and repeated: the verdict is false exactly if a wanted rule  *)
(* fails; a field has the message of its last failure that was met, and    *)
(* the errors stand in the order in which the fields first failed, behind  *)
(* those of earlier validations; the values are those of the fields that   *)
(* were tested and have never failed since init().                         *)
ValidationExact ==
    outcome.verdict # Absent =>
      LET of(f) == {t \in Reported : t.field = f}
          failed == {t.field : t \in Reported}
          old == {e.field : e \in Range(outcome.error)}
          ErrorOf(f) == CHOOSE e \in Range(object.error) : e.field = f
          Latest(f) == CHOOSE t \in of(f) : \A u \in of(f) : u = t \/ Before(u, t)
          Earliest(f) == CHOOSE t \in of(f) : \A u \in of(f) : u = t \/ Before(t, u)
          tested == {t.field : t \in Ran}
      IN  /\ outcome.verdict = (Failures = {})
          /\ {e.field : e \in Range(object.error)} = old \cup failed
          /\ \A f \in failed : ErrorOf(f).msg = Says(Latest(f))
          /\ \A f \in old \ failed : ErrorOf(f) \in Range(outcome.error)
          /\ \A i \in DOMAIN outcome.error : object.error[i].field = outcome.error[i].field
          /\ \A f, g \in failed \ old :
                Before(Earliest(f), Earliest(g)) =>
                  \E i, j \in DOMAIN object.error :
                     i < j /\ object.error[i].field = f /\ object.error[j].field = g
          /\ DOMAIN object.value = (DOMAIN outcome.value \cup tested) \ (old \cup failed)
          /\ \A f \in DOMAIN object.value :
                object.value[f] = IF f \in tested THEN object.data[f] ELSE outcome.value[f]
===============================================================================
