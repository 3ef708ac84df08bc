------------------------------- MODULE Container -------------------------------
(***************************************************************************)
(* The service container of one request (src/di/di.c): objects under keys, *)
(* built on demand from the configuration, under other names by alias, and *)
(* per class by the magic properties of controllers, services and views;   *)
(* with the factory and the autoloader that build them, and the response   *)
(* that the context keeps.  A constructor is a list of calls of its own,   *)
(* so services are built inside services.                                  *)
(*                                                                         *)
(* A key is the sequence of its parts between underscores: the property    *)
(* <<"c">> of the class <<"A", "b">> has the key <<"A", "b", "c">>.        *)
(*                                                                         *)
(* Careful names what the application does not do:                         *)
(*   "throws"    it goes on after a constructor has thrown;                *)
(*   "response"  it replaces a response that has been written to;          *)
(*   "itself"    a constructor asks for what it is built for, or writes it.*)
(***************************************************************************)
EXTENDS Naturals, Sequences, SequencesExt

CONSTANTS
    Shops,             \* applications: [config: name -> [class, shared], builds: class -> calls
                       \*  of its constructor, calls: those of handlers, length: their number,
                       \*  fpm: the process forgets after a request, requests: bound]
    ContainerCareful,  \* the mistakes that the application does not make
    Absent

Response == <<"response">>
Names == Seq(STRING) \ {<<>>}
Calls ==
         [do : {"get", "instance", "set", "del"}, name : Names]
    \cup [do : {"getInstance"}, class : Names]
    \cup [do : {"create"}, class : Names, keep : BOOLEAN]
    \cup [do : {"property", "setProperty"}, class : Names, name : Names]
    \cup [do : {"alias"}, name : Names, alias : Names \ {Response}]
    \cup [do : {"setResponse", "reply", "throw"}]

(* A name that is also a class stands for an object of that class, and     *)
(* nothing but what setResponse() sets stands under the name of the        *)
(* response.                                                               *)
ContainerAssumption ==
    /\ ContainerCareful \subseteq {"throws", "response", "itself"}
    /\ Absent \notin Nat \cup Names /\ Response \in Names
    /\ \A s \in Shops :
          /\ s.length \in Nat /\ s.requests \in Nat /\ s.fpm \in BOOLEAN /\ s.calls \subseteq Calls
          /\ \A c \in DOMAIN s.builds : c \in Names \ {Response} /\ s.builds[c] \in Seq(Calls)
          /\ \A n \in DOMAIN s.config :
                /\ n \in Names \ {Response} /\ s.config[n] \in [class : Names, shared : BOOLEAN]
                /\ n \in DOMAIN s.builds => s.config[n].class = n

VARIABLES
    shop,      \* the application
    regs,      \* ctx->di_regs: key -> object
    aliases,   \* di_alias: alias -> name
    keyCount,  \* di_class_keys
    response,  \* response_obj, or Absent
    making,    \* the constructors under way, the innermost last
    thrown,    \* one of them has thrown
    built,     \* every object there was: [class, whole]
    loader,    \* [flag: autoload_registered, spl: the engine knows the autoloader]
    serving,   \* 0 between requests, else one more than the calls left to this one
    answer,    \* history: what the last call was for and gave
    given,     \* history: name -> the object that it gave
    touched,   \* history: the keys that the request wrote itself
    seen       \* history: requests

containerVars == <<shop, regs, aliases, keyCount, response, making, thrown, built, loader,
                   serving, answer, given, touched, seen>>

Empty == [key \in {} |-> Absent]
Without(f, keys) == [k \in DOMAIN f \ keys |-> f[k]]
With(f, keys, x) == [k \in DOMAIN f \cup keys |-> IF k \in keys THEN x ELSE f[k]]

-----------------------------------------------------------------------------
(* An alias leads to a name, which may be an alias again: eight times.     *)
ResolveIn(links, name) ==
    LET hop(n) == IF n \in DOMAIN links THEN links[n] ELSE n
    IN  hop(hop(hop(hop(hop(hop(hop(hop(name))))))))
Resolve(name) == ResolveIn(aliases, name)

(* gene_di_note_key(): a key with an underscore may be a property's.       *)
Note(n, key) == IF Len(key) > 1 THEN n + 1 ELSE n

Configured(name) == IF name \in DOMAIN shop.config THEN shop.config[name] ELSE Absent

(* A class has a file below the application or the library, and the        *)
(* autoloader, if the engine knows it, reads it when it is looked for.     *)
HasFile(class) == class \in DOMAIN shop.builds
Loadable(class) == loader.spl /\ HasFile(class)

(* What is there already: under the name, or, shared, under its class.     *)
Found(name) ==
    LET key == Resolve(name)
        service == Configured(key)
    IN  IF key \in DOMAIN regs THEN regs[key]
        ELSE IF service # Absent /\ service.shared /\ service.class \in DOMAIN regs
               THEN regs[service.class]
        ELSE Absent

-----------------------------------------------------------------------------
Answered(name, object, threw) == [name |-> name, object |-> object, threw |-> threw]
Remembered(name, object) ==
    IF object = Absent \/ name = Absent \/ name \in DOMAIN given THEN given
    ELSE With(given, {name}, object)

(* A call ends with an object that is there, or with null.                 *)
Answer(name, object, stack) ==
    /\ answer' = Answered(name, object, FALSE)
    /\ given' = Remembered(name, object)
    /\ making' = stack
    /\ UNCHANGED built

(* What is being built will be kept under these keys.                      *)
Claims(frame) ==
    IF frame.keep THEN {frame.key} \cup (IF frame.shared THEN {frame.class} ELSE {}) ELSE {}
Unclaimed(keys, stack) ==
    "itself" \in ContainerCareful => \A i \in DOMAIN stack : Claims(stack[i]) \cap keys = {}

(* A new object, whose constructor has to run; the frame says for whom.    *)
Construct(name, key, shared, keep, class, stack) ==
    LET frame == [name |-> name, key |-> key, shared |-> shared, keep |-> keep, class |-> class,
                  object |-> Len(built) + 1, todo |-> shop.builds[class]]
    IN  /\ Unclaimed(Claims(frame), stack)
        /\ built' = Append(built, [class |-> class, whole |-> FALSE])
        /\ making' = Append(stack, frame)
        /\ UNCHANGED <<answer, given>>

(* gene_di_get(), also by isset(): what is there, or what the              *)
(* configuration says, built and kept under the resolved name.             *)
Get(name, stack) ==
    LET key == Resolve(name)
        service == Configured(key)
    IN  IF Found(name) = Absent /\ service # Absent /\ Loadable(service.class)
          THEN Construct(name, key, service.shared, TRUE, service.class, stack)
          ELSE Answer(name, Found(name), stack)

(* gene_di_get_class(): a property of a class, else the service.           *)
GetProperty(class, name, stack) ==
    IF keyCount # 0 /\ class \o name \in DOMAIN regs
      THEN Answer(Absent, regs[class \o name], stack)
      ELSE Get(name, stack)

(* gene_class_instance(), the getInstance() of models and services.        *)
GetInstance(class, stack) ==
    IF class \notin DOMAIN regs /\ Loadable(class)
      THEN Construct(Absent, class, FALSE, TRUE, class, stack)
      ELSE Answer(Absent, IF class \in DOMAIN regs THEN regs[class] ELSE Absent, stack)

(* Factory::create(), kept or not, and Di::instance(), which is not.       *)
Create(class, keep, stack) ==
    IF keep THEN GetInstance(class, stack)
    ELSE IF Loadable(class) THEN Construct(Absent, class, FALSE, FALSE, class, stack)
    ELSE Answer(Absent, Absent, stack)
Instance(name, stack) == Create(Resolve(name), FALSE, stack)

Reading(call, stack) ==
    /\ CASE call.do = "get" -> Get(call.name, stack)
         [] call.do = "property" -> GetProperty(call.class, call.name, stack)
         [] call.do = "getInstance" -> GetInstance(call.class, stack)
         [] call.do = "create" -> Create(call.class, call.keep, stack)
         [] OTHER -> Instance(call.name, stack)
    /\ UNCHANGED <<regs, aliases, keyCount, response, touched>>

-----------------------------------------------------------------------------
(* Calls that write.  What a name was to give is open again, when its key  *)
(* or its class is written, or it leads elsewhere.                         *)

Open(key) ==
    {n \in DOMAIN given :
        \/ Resolve(n) = key
        \/ Configured(Resolve(n)) # Absent /\ Configured(Resolve(n)).class = key}
Value == [class |-> Absent, whole |-> TRUE]

MayWrite(key, stack) ==
    /\ Unclaimed({key}, stack)
    /\ "response" \in ContainerCareful /\ key = Response => response = Absent

Keep(key, stack) ==
    /\ MayWrite(key, stack)
    /\ built' = Append(built, Value)
    /\ regs' = With(regs, {key}, Len(built) + 1)
    /\ given' = With(Without(given, Open(key)), IF Resolve(key) = key THEN {key} ELSE {}, Len(built) + 1)
    /\ touched' = touched \cup {key}
    /\ making' = stack

(* Di::set(): under the name itself, whatever it is an alias of.           *)
Set(name, stack) == Keep(name, stack) /\ keyCount' = Note(keyCount, name) /\ UNCHANGED aliases

(* __set() of a controller, service, view: counted when it is new.         *)
SetProperty(class, name, stack) ==
    /\ Keep(class \o name, stack)
    /\ keyCount' = IF class \o name \in DOMAIN regs THEN keyCount ELSE keyCount + 1
    /\ UNCHANGED aliases

Del(name, stack) ==
    /\ MayWrite(name, stack)
    /\ regs' = Without(regs, {name})
    /\ given' = Without(given, Open(name))
    /\ touched' = touched \cup {name}
    /\ making' = stack /\ UNCHANGED <<aliases, keyCount, built>>

Alias(name, alias, stack) ==
    LET links == With(aliases, {alias}, name)
    IN  /\ aliases' = links
        /\ given' = Without(given, {n \in DOMAIN given : ResolveIn(links, n) # Resolve(n)})
        /\ making' = stack /\ UNCHANGED <<regs, keyCount, built, touched>>

(* Application::setResponse().                                             *)
SetResponse(stack) == Keep(Response, stack) /\ UNCHANGED <<aliases, keyCount>>

Writing(call, stack) ==
    /\ CASE call.do = "set" -> Set(call.name, stack)
         [] call.do = "setProperty" -> SetProperty(call.class, call.name, stack)
         [] call.do = "del" -> Del(call.name, stack)
         [] call.do = "alias" -> Alias(call.name, call.alias, stack)
         [] OTHER -> SetResponse(stack)
    /\ answer' = Answered(Absent, Absent, FALSE) /\ UNCHANGED response

(* gene_response_context_obj(): what header(), end() and the others write  *)
(* to, looked up once.                                                     *)
Reply(stack) ==
    LET object == IF shop.fpm \/ response # Absent THEN response ELSE Found(Response)
    IN  /\ response' = object
        /\ Answer(Absent, object, stack) /\ UNCHANGED <<regs, aliases, keyCount, touched>>

Written == {"set", "setProperty", "del", "alias", "setResponse"}
Perform(call, stack) ==
    \/ call.do = "reply" /\ Reply(stack)
    \/ call.do \in Written /\ Writing(call, stack)
    \/ call.do \notin Written \cup {"reply", "throw"} /\ Reading(call, stack)

-----------------------------------------------------------------------------
(* The innermost constructor: its next call, or an exception.              *)
Step ==
    /\ making # <<>> /\ Last(making).todo # <<>> /\ ~thrown
    /\ LET call == Head(Last(making).todo)
           stack == [making EXCEPT ![Len(making)].todo = Tail(@)]
       IN  IF call.do = "throw"
             THEN /\ thrown' = TRUE
                  /\ UNCHANGED <<regs, aliases, keyCount, response, making, built, answer, given, touched>>
             ELSE Perform(call, stack) /\ UNCHANGED thrown
    /\ UNCHANGED <<shop, loader, serving, seen>>

(* Mutant: the name is resolved again after the constructor has run.       *)
RegisterResolved(frame) == With(regs, Claims([frame EXCEPT !.key = Resolve(@)]), frame.object)

(* The object under its name, and under its class when it is shared.       *)
Register(frame) == With(regs, Claims(frame), frame.object)

(* A constructor has returned, or thrown: the object is kept all the same, *)
(* and the exception goes on to the constructor that asked for it.  A name *)
(* that leads elsewhere by now is not what the answer is for.              *)
Finish ==
    /\ making # <<>> /\ (Last(making).todo = <<>> \/ thrown)
    /\ LET frame == Last(making)
           name == IF frame.name = Absent \/ Resolve(frame.name) = frame.key THEN frame.name ELSE Absent
       IN  /\ making' = Front(making)
           /\ regs' = Register(frame)
           /\ keyCount' = IF ~frame.keep THEN keyCount
                          ELSE Note(IF frame.shared THEN Note(keyCount, frame.class) ELSE keyCount, frame.key)
           /\ built' = [built EXCEPT ![frame.object].whole = ~thrown]
           /\ answer' = Answered(name, frame.object, thrown)
           /\ given' = IF thrown THEN given ELSE Remembered(name, frame.object)
    /\ thrown' = (thrown /\ Len(making) > 1)
    /\ UNCHANGED <<shop, aliases, response, loader, serving, touched, seen>>

(* A handler makes a call.                                                 *)
Handle ==
    /\ making = <<>> /\ serving > 1
    /\ ("throws" \in ContainerCareful => ~answer.threw)
    /\ \E call \in shop.calls : Perform(call, <<>>)
    /\ serving' = serving - 1
    /\ UNCHANGED <<shop, thrown, loader, seen>>

(* Application::run() registers the autoloader first; the flag says that   *)
(* the engine has it already.                                              *)
RegisterLoader == IF loader.flag THEN loader ELSE [flag |-> TRUE, spl |-> TRUE]
Run ==
    /\ serving = 0 /\ seen < shop.requests
    /\ loader' = RegisterLoader
    /\ serving' = shop.length + 1 /\ seen' = seen + 1
    /\ UNCHANGED <<shop, regs, aliases, keyCount, response, making, thrown, built, answer, given, touched>>

(* The end of the request: its context is emptied; a process of FPM also   *)
(* forgets the autoloader, and the flag with it.                           *)
End ==
    /\ making = <<>> /\ serving > 0 /\ serving' = 0
    /\ regs' = Empty /\ aliases' = Empty /\ keyCount' = 0 /\ response' = Absent
    /\ loader' = IF shop.fpm THEN [flag |-> FALSE, spl |-> FALSE] ELSE loader
    /\ answer' = Answered(Absent, Absent, FALSE) /\ given' = Empty /\ touched' = {}
    /\ built' = <<>>
    /\ UNCHANGED <<shop, making, thrown, seen>>

ContainerInit ==
    /\ shop \in Shops
    /\ regs = Empty /\ aliases = Empty /\ keyCount = 0 /\ response = Absent
    /\ making = <<>> /\ thrown = FALSE /\ built = <<>>
    /\ loader = [flag |-> FALSE, spl |-> FALSE] /\ serving = 0 /\ seen = 0
    /\ answer = Answered(Absent, Absent, FALSE) /\ given = Empty /\ touched = {}
ContainerNext == Step \/ Finish \/ Handle \/ Run \/ End
ContainerSpec == ContainerInit /\ [][ContainerNext]_containerVars

-----------------------------------------------------------------------------
ContainerTypeOK ==
    /\ shop \in Shops /\ keyCount \in Nat /\ thrown \in BOOLEAN /\ serving \in 0..shop.length + 1
    /\ \A k \in DOMAIN regs : regs[k] \in DOMAIN built
    /\ \A i \in DOMAIN making : making[i].object \in DOMAIN built
    /\ loader \in [{"flag", "spl"} -> BOOLEAN]

(* A lookup of a property is left out only when there is no such key:      *)
(* "Every di_regs writer [...] must call this on '_' keys" (src/gene.h).   *)
KeysNoted == keyCount = 0 => \A key \in DOMAIN regs : Len(key) = 1

(* Within a request a name gives one object, whoever asks for it, in a     *)
(* handler or in a constructor, until its key is written; and the names of *)
(* a shared class give the same one.                                       *)
OneAnswer ==
    /\ answer.name \in DOMAIN given /\ ~answer.threw => given[answer.name] = answer.object
    /\ \A m, n \in DOMAIN given :
          LET a == Configured(Resolve(m))
              b == Configured(Resolve(n))
          IN  (/\ a # Absent /\ b # Absent /\ a.class = b.class /\ a.shared /\ b.shared
               /\ touched \cap {Resolve(m), Resolve(n), a.class} = {})
              => given[m] = given[n]

(* What is handed out has been constructed.                                *)
WholeAnswer == answer.object # Absent /\ ~answer.threw => built[answer.object].whole

(* The response that is written to is the one that was set last.           *)
OwnResponse == response # Absent /\ making = <<>> => response = regs[Response]

(* The engine can load classes while a request runs.                       *)
LoaderKnown == serving > 0 => loader.spl

(* The container gives whole, stable services for as long as the request  *)
(* lasts, and finds every property and every class.                        *)
ServicesKept == KeysNoted /\ OneAnswer /\ WholeAnswer /\ OwnResponse /\ LoaderKnown
===============================================================================
