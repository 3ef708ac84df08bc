------------------------------ MODULE MCDispatch ------------------------------
(***************************************************************************)
(* Applications for small instances of the router: files that register     *)
(* trees, hooks and groups, served by FPM processes and Swoole workers.    *)
(***************************************************************************)
EXTENDS Integers, Sequences, FiniteSets, TLC

CONSTANT Absent

(* Calls on the Router object.                                             *)

StringCode(id) == [kind |-> "string", id |-> id]
ClosureCode(id) == [kind |-> "closure", id |-> id]
Codes(id) == {StringCode(id), ClosureCode(id)}
Get(path, code) == [op |-> "route", method |-> "get", path |-> path, code |-> code]
GetWith(path, code, hook) == [hook |-> hook] @@ Get(path, code)
Hook(name, code) == [op |-> "hook", name |-> <<name>>, code |-> code]
Error(name, code) == [op |-> "error", name |-> <<name>>, code |-> code]
Group(path) == [op |-> "group", path |-> path]
Through(names) == [op |-> "through", hooks |-> [i \in DOMAIN names |-> <<names[i]>>]]
Call(op) == [op |-> op]
Own(name, before, after) == [name |-> name, before |-> before, after |-> after]

Application ==
    [mode |-> "fpm", precompile |-> FALSE, file |-> <<>>, reload |-> TRUE, rebuilds |-> {},
     requests |-> {1}, paths |-> {<<"a">>}, probes |-> {}]
Worker == [Application EXCEPT !.mode = "swoole", !.precompile = TRUE]

(* Trees: up to three patterns in any order, and every path over them.     *)
Patterns == {<<"a">>, <<":p">>, <<"a", "b">>, <<"a", ":p">>, <<":p", "b">>, <<":q", ":p">>,
             <<"a", "b", "b">>, <<":p", "a", ":q">>}
Orders == UNION {{s \in [1..n -> Patterns] : \A i, j \in 1..n : i # j => s[i] # s[j]} : n \in 1..3}
TreeSites ==
    {[Application EXCEPT !.requests = {},
                         !.paths = UNION {[1..n -> {"a", "b"}] : n \in 0..3},
                         !.file = [i \in DOMAIN s |-> Get(s[i], StringCode("A"))]] : s \in Orders}

(* Hooks: each of before, after and a named one is absent, a string or a   *)
(* closure, and so is the route; the named hook belongs to the route, to   *)
(* its group or to both, with and without the global ones.                 *)
Registered(name, code) == IF code = Absent THEN <<>> ELSE <<Hook(name, code)>>
HookFile(before, after, named_, route, by, flags) ==
    Registered("before", before) \o Registered("after", after) \o Registered("named", named_)
      \o <<Error("404", StringCode("E")), Group(<<"a">>)>>
      \o (IF by = "group" THEN <<Through(<<"named">>)>> ELSE <<>>)
      \o (IF ~flags[1] THEN <<Call("withoutBefore")>> ELSE <<>>)
      \o <<IF by = "route" THEN GetWith(<<>>, route, Own(<<"named">>, TRUE, flags[2]))
                           ELSE GetWith(<<>>, route, Own(Absent, TRUE, flags[2]))>>
      \o <<Group(Absent)>>
HookSites ==
    {[a EXCEPT !.file = HookFile(b, f, n, r, by, flags), !.paths = {<<"a">>, <<"b">>}] :
        a \in {Application, Worker, [Worker EXCEPT !.precompile = FALSE]},
        b \in Codes("B") \cup {Absent}, f \in Codes("F") \cup {Absent},
        n \in Codes("N") \cup {Absent}, r \in Codes("A"),
        by \in {"group", "none"}, flags \in BOOLEAN \X BOOLEAN}
      \cup
    {[a EXCEPT !.file = HookFile(b, Absent, n, r, "route", flags), !.paths = {<<"a">>}] :
        a \in {Application, Worker}, b \in Codes("B") \cup {Absent}, n \in Codes("N"),
        r \in Codes("A"), flags \in BOOLEAN \X BOOLEAN}
      \cup
    {[Application EXCEPT !.reload = FALSE, !.file = HookFile(b, f, n, r, "route", <<TRUE, TRUE>>)] :
        b \in Codes("B"), f \in Codes("F"), n \in Codes("N"), r \in Codes("A")}

(* Groups in groups, a group whose hook is not registered, prefixes and    *)
(* languages, and what takes them back.                                    *)
OtherSites ==
    {[Application EXCEPT
        !.file = <<Hook("auth", StringCode("N")), Group(<<"a">>), Through(<<"auth">>),
                   Group(<<"b">>), Through(<<"auth">>), Get(<<>>, ClosureCode("A")), Group(Absent),
                   Call("withoutHooks"), Call("withoutAfter"), Get(<<":p">>, StringCode("C")),
                   Group(Absent), Group(Absent)>>,
        !.paths = {<<"a", "b">>, <<"a", "c">>}],
     [Application EXCEPT
        !.file = <<Group(<<"a">>), Through(<<"auth">>), Get(<<>>, StringCode("A"))>>],
     [Worker EXCEPT
        !.file = <<[op |-> "prefix", path |-> <<"v">>], [op |-> "lang", langs |-> {"en"}],
                   Get(<<"a">>, StringCode("A")), Get(<<":p", "a">>, StringCode("C"))>>,
        !.paths = {<<"v", "en", "a">>, <<"v", "a">>, <<"en", "a">>, <<"a">>, <<"v", "de", "a">>}],
     [Application EXCEPT
        !.file = <<[op |-> "prefix", path |-> <<"v">>], [op |-> "lang", langs |-> {"en"}],
                   Call("delConf"), Get(<<"a">>, StringCode("A"))>>,
        !.paths = {<<"v", "en", "a">>, <<"a">>}]}

(* Workers whose requests overlap each other and rebuilds of the table.    *)
RebuildSites ==
    {[Worker EXCEPT !.file = Registered("before", b) \o <<Get(<<"a">>, r)>>,
                    !.rebuilds = {<<Call("clear")>>, <<Call("delTree"), Call("delEvent")>>}
                        \cup (IF b # ClosureCode("B")
                                THEN {<<Call("clear"), Get(<<"a">>, ClosureCode("D"))>>} ELSE {}),
                    !.requests = {1, 2}] :
        b \in Codes("B") \cup {Absent}, r \in Codes("A")}

(* Requests that probe the table with match() while they are served, also  *)
(* paths with a language, found or not.                                    *)
ProbeSites ==
    {[Application EXCEPT !.file = <<Get(<<":c", ":p">>, StringCode("A")), Get(<<":c">>, StringCode("C"))>>,
                         !.paths = {<<"x", "a">>, <<"long", "a">>, <<"y">>},
                         !.probes = {<<"y", "b">>, <<"long", "b">>, <<"z">>, <<"a", "b", "c">>}],
     [Application EXCEPT !.file = <<[op |-> "lang", langs |-> {"en", "de"}],
                                    Get(<<":c">>, StringCode("C"))>>,
                         !.paths = {<<"y">>, <<"en", "y">>},
                         !.requests = {1, 2},
                         !.probes = {<<"z">>, <<"de", "long">>, <<"en", "a", "b">>}]}

HandleOrder == <<11, 12, 13, 14, 15, 16>>
SiteChoices == TreeSites \cup HookSites \cup OtherSites \cup RebuildSites \cup ProbeSites
===============================================================================
