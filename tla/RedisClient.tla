----------------------------- MODULE RedisClient -----------------------------
(***************************************************************************)
(* Gene\Cache\Redis (src/cache/redis.c) and the server it talks to: locks, *)
(* rate limits and plain commands, over connections that break before or   *)
(* after the server has run a command.  A command that fails so is sent    *)
(* once more over another connection; the server may still run the first   *)
(* copy, even after the second.                                            *)
(***************************************************************************)
EXTENDS Integers, FiniteSets

CONSTANTS
    Callers,   \* coroutines that call the client, one client object each
    Absent,
    Ttl,       \* of locks
    Max, Window,  \* of the rate limit
    Uses,      \* which operations an application calls, and how often
    MaxClock, MaxStrays

VARIABLES
    use,      \* the application: [ops, calls]
    lock,     \* the lock's key: [token, ends]; ends = 0 when there is none
    rate,     \* the counter's key: [n, ends]
    scripts,  \* the scripts the server has cached
    clock,
    call,     \* what each caller waits for: [op, token, via, attempt, step, reply]
    strays,   \* commands of broken connections the server may still run
    holds,    \* the token lock() returned to each caller, or Absent
    leases,   \* until when the server keeps each token, from when it took it
    allowed,  \* calls of the current window that rateLimit() allowed
    runs,     \* how often the server ran the command each caller waits for
    calls     \* calls so far; the next lock's token

clientVars == <<use, lock, rate, scripts, clock, call, strays, holds, leases, allowed, runs, calls>>

Ops == {"lock", "unlock", "rate", "command"}

RedisClientAssumption ==
    /\ Ttl \in Nat \ {0} /\ Max \in Nat \ {0} /\ Window \in Nat \ {0}
    /\ Uses \subseteq [ops : SUBSET Ops, calls : Nat]
    /\ Absent \notin Nat

Idle == [op |-> "none", token |-> 0, via |-> "none", attempt |-> 0, step |-> "idle", reply |-> "none"]

RedisClientInit ==
    /\ use \in Uses
    /\ lock = [token |-> 0, ends |-> 0]
    /\ rate = [n |-> 0, ends |-> 0]
    /\ scripts = {} /\ clock = 0 /\ strays = {} /\ allowed = 0 /\ calls = 0
    /\ call = [c \in Callers |-> Idle]
    /\ holds = [c \in Callers |-> Absent]
    /\ leases = [t \in 1..use.calls |-> 0]
    /\ runs = [c \in Callers |-> 0]

-----------------------------------------------------------------------------
(* The server.                                                             *)

Live(key) == key.ends > clock

(* SET key token NX EX ttl                                                 *)
RunLock(token) ==
    /\ IF Live(lock) THEN UNCHANGED <<lock, leases>>
                     ELSE /\ lock' = [token |-> token, ends |-> clock + Ttl]
                          /\ leases' = [leases EXCEPT ![token] = clock + Ttl]
    /\ UNCHANGED <<rate, scripts, allowed>>

(* GENE_REDIS_UNLOCK_LUA, and without its comparison (mutant).             *)
RunUnlockAny(token) ==
    /\ lock' = [lock EXCEPT !.ends = 0]
    /\ UNCHANGED <<rate, leases, allowed>>

RunUnlock(token) ==
    /\ lock' = IF Live(lock) /\ lock.token = token THEN [lock EXCEPT !.ends = 0] ELSE lock
    /\ UNCHANGED <<rate, leases, allowed>>

(* GENE_REDIS_RATE_LIMIT_LUA; the window starts with its first call.       *)
Counted == IF Live(rate) THEN rate.n + 1 ELSE 1
RunRate ==
    /\ rate' = IF Live(rate) THEN [rate EXCEPT !.n = @ + 1] ELSE [n |-> 1, ends |-> clock + Window]
    /\ allowed' = (IF Live(rate) THEN allowed ELSE 0) + (IF Counted <= Max THEN 1 ELSE 0)
    /\ UNCHANGED <<lock, leases>>

Scripted == {"unlock", "rate"}
Reply(m) ==
    CASE m.via = "sha" /\ m.op \notin scripts -> "noscript"
      [] m.op = "lock" -> IF Live(lock) THEN "false" ELSE "true"
      [] m.op = "unlock" -> IF Live(lock) /\ lock.token = m.token THEN "true" ELSE "false"
      [] m.op = "rate" -> IF Counted <= Max THEN "true" ELSE "false"
      [] OTHER -> "true"

(* The server runs message m.                                              *)
Run(m) ==
    \/ /\ m.via = "sha" /\ m.op \notin scripts
       /\ UNCHANGED <<lock, rate, leases, allowed, scripts>>
    \/ /\ m.op = "lock" /\ RunLock(m.token)
    \/ /\ m.op \in Scripted /\ (m.via = "sha" => m.op \in scripts)
       /\ scripts' = scripts \cup {m.op}
       /\ \/ m.op = "unlock" /\ RunUnlock(m.token)
          \/ m.op = "rate" /\ RunRate
    \/ m.op = "command" /\ UNCHANGED <<lock, rate, leases, allowed, scripts>>

Serve(c) ==
    /\ call[c].step = "sent"
    /\ Run(call[c])
    /\ call' = [call EXCEPT ![c].step = "served", ![c].reply = Reply(call[c])]
    /\ runs' = [runs EXCEPT ![c] = @ + (IF Reply(call[c]) # "noscript" THEN 1 ELSE 0)]
    /\ UNCHANGED <<use, clock, strays, holds, calls>>

ServeStray(s) ==
    /\ strays' = strays \ {s}
    /\ Run(s)
    /\ UNCHANGED <<use, clock, call, holds, runs, calls>>

(* The server restarts with its data, and has forgotten the scripts.       *)
Restart ==
    /\ scripts # {} /\ scripts' = {}
    /\ UNCHANGED <<use, lock, rate, clock, call, strays, holds, leases, allowed, runs, calls>>

Tick ==
    /\ clock < MaxClock /\ clock' = clock + 1
    /\ UNCHANGED <<use, lock, rate, scripts, call, strays, holds, leases, allowed, runs, calls>>

-----------------------------------------------------------------------------
(* The client.                                                             *)

Message(op, token, attempt) ==
    [op |-> op, token |-> token, via |-> IF op \in Scripted THEN "sha" ELSE "none",
     attempt |-> attempt, step |-> "sent", reply |-> "none"]

(* lock() draws a token; unlock() gives its token up.                      *)
Call(c, op) ==
    /\ call[c].step = "idle" /\ calls < use.calls
    /\ op = "lock" => holds[c] = Absent
    /\ op = "unlock" => holds[c] # Absent
    /\ calls' = calls + 1
    /\ call' = [call EXCEPT ![c] = Message(op, IF op = "unlock" THEN holds[c] ELSE calls + 1, 1)]
    /\ holds' = IF op = "unlock" THEN [holds EXCEPT ![c] = Absent] ELSE holds
    /\ runs' = [runs EXCEPT ![c] = 0]
    /\ UNCHANGED <<use, lock, rate, scripts, clock, strays, leases, allowed>>

(* The answer arrives: an unknown script is sent in full, else the call    *)
(* returns what the server said.                                           *)
Answer(c) ==
    /\ call[c].step = "served"
    /\ \/ /\ call[c].reply = "noscript"
          /\ call' = [call EXCEPT ![c].via = "source", ![c].step = "sent", ![c].reply = "none"]
          /\ UNCHANGED holds
       \/ /\ call[c].reply # "noscript"
          /\ call' = [call EXCEPT ![c] = [Idle EXCEPT !.op = call[c].op, !.reply = call[c].reply]]
          /\ holds' = IF call[c].op = "lock" /\ call[c].reply = "true"
                        THEN [holds EXCEPT ![c] = call[c].token] ELSE holds
    /\ UNCHANGED <<use, lock, rate, scripts, clock, strays, leases, allowed, runs, calls>>

(* The connection breaks: once the command is sent again, unless there is  *)
(* no other connection or the error is not one of a lost one; the second   *)
(* time it fails.  What was on its way may still be run.                   *)
Break(c) ==
    /\ call[c].step \in {"sent", "served"}
    /\ \/ /\ call[c].step = "sent" /\ Cardinality(strays) < MaxStrays
          /\ strays' = strays \cup {call[c]}
       \/ UNCHANGED strays
    /\ \/ /\ call[c].attempt = 1
          /\ call' = [call EXCEPT ![c] = Message(@.op, @.token, 2)]
       \/ call' = [call EXCEPT ![c] = [Idle EXCEPT !.op = call[c].op, !.reply = "failed"]]
    /\ UNCHANGED <<use, lock, rate, scripts, clock, holds, leases, allowed, runs, calls>>

RedisClientNext ==
    \/ \E c \in Callers : Serve(c) \/ Answer(c) \/ Break(c) \/ (\E op \in use.ops : Call(c, op))
    \/ \E s \in strays : ServeStray(s)
    \/ Restart \/ Tick

RedisClientSpec == RedisClientInit /\ [][RedisClientNext]_clientVars

-----------------------------------------------------------------------------
RedisClientTypeOK ==
    /\ lock.ends \in Nat /\ rate.n \in Nat
    /\ \A c \in Callers : call[c].op \in Ops \cup {"none"}

(* Whatever was lost, repeated or run late: who was told that it has the   *)
(* lock is the only one, until its time is up or it gives it back; and of  *)
(* the calls of one window the server let no more through than the limit.  *)
(* A command that was answered was run, once or twice.                     *)
AnswersTrue ==
    /\ \A c \in Callers : holds[c] # Absent /\ clock < leases[holds[c]] => Live(lock) /\ lock.token = holds[c]
    /\ allowed <= Max
    /\ \A c \in Callers : call[c].step = "idle" /\ call[c].reply = "true" => runs[c] \in 1..2
=============================================================================
