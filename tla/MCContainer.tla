------------------------------ MODULE MCContainer ------------------------------
(***************************************************************************)
(* Applications for small instances of the service container: services     *)
(* that use each other, shared and not; keys with underscores, which may   *)
(* be properties of classes; aliases of aliases, also in constructors;     *)
(* constructors that throw; and the response of a request.                 *)
(***************************************************************************)
EXTENDS Naturals, Sequences, TLC

CONSTANT Absent

Service(class, shared) == [class |-> class, shared |-> shared]
Get(name) == [do |-> "get", name |-> name]
GetInstance(class) == [do |-> "getInstance", class |-> class]
Create(class, keep) == [do |-> "create", class |-> class, keep |-> keep]
InstanceOf(name) == [do |-> "instance", name |-> name]
Property(class, name) == [do |-> "property", class |-> class, name |-> name]
SetTo(name) == [do |-> "set", name |-> name]
SetProperty(class, name) == [do |-> "setProperty", class |-> class, name |-> name]
Del(name) == [do |-> "del", name |-> name]
Alias(name, alias) == [do |-> "alias", name |-> name, alias |-> alias]
SetResponse == [do |-> "setResponse"]
Reply == [do |-> "reply"]
Throw == [do |-> "throw"]

db == <<"db">>
read == <<"read">>
log == <<"log">>
D == <<"D">>
L == <<"L">>
A == <<"A">>
Ab == <<"A", "b">>
c == <<"c">>
bc == <<"b", "c">>

Plain == [config |-> [name \in {} |-> Absent], builds |-> [class \in {} |-> <<>>], calls |-> {},
          length |-> 4, fpm |-> FALSE, requests |-> 2]

(* Two names of one shared class, used by a service that is not shared.    *)
Services ==
    [Plain EXCEPT !.config = (db :> Service(D, TRUE)) @@ (read :> Service(D, TRUE)) @@ (log :> Service(L, FALSE)),
                  !.builds = (D :> <<>>) @@ (L :> <<Get(db), Get(read)>>),
                  !.calls = {Get(db), Get(read), Get(log), GetInstance(D), Create(L, TRUE), Create(D, FALSE),
                             InstanceOf(L), SetTo(db), Del(D), Del(read), GetInstance(A)}]

(* The property c of A_b, also as the property b_c of A, and a service c.  *)
Underscores ==
    [Plain EXCEPT !.config = (c :> Service(D, TRUE)) @@ (bc :> Service(Ab, TRUE)),
                  !.builds = (D :> <<>>) @@ (A :> <<SetProperty(A, c)>>) @@ (Ab :> <<Property(Ab, c)>>),
                  !.calls = {Property(A, c), Property(Ab, c), Property(A, bc), SetProperty(Ab, c),
                             SetTo(bc), SetTo(A \o c), Create(Ab, TRUE), GetInstance(A), Get(bc), Del(A \o c)}]

(* Aliases of a service and of each other, also made while it is built.    *)
Aliases ==
    [Plain EXCEPT !.config = (db :> Service(D, FALSE)) @@ (read :> Service(L, TRUE)),
                  !.builds = (D :> <<Alias(read, db), Get(db)>>) @@ (L :> <<>>),
                  !.calls = {Alias(db, c), Alias(c, log), Alias(log, c), Alias(read, c), Get(db), Get(c),
                             Get(log), Get(read), SetTo(c), InstanceOf(c), Del(db)},
                  !.fpm = TRUE]

(* A constructor that fails, below one that does not.                      *)
Throwing ==
    [Plain EXCEPT !.config = (db :> Service(D, TRUE)) @@ (log :> Service(L, TRUE)),
                  !.builds = (D :> <<Throw>>) @@ (L :> <<Get(read), Get(db), SetTo(c)>>),
                  !.calls = {Get(db), Get(log), Create(L, FALSE), Get(c), SetTo(read)}]

Responses ==
    [Plain EXCEPT !.config = (db :> Service(D, TRUE)), !.builds = (D :> <<Reply>>),
                  !.calls = {SetResponse, Reply, Get(db), Property(A, <<"response">>)}]

ShopChoices ==
    {Services, Underscores, Aliases, Throwing, Responses, [Responses EXCEPT !.fpm = TRUE]}
================================================================================
