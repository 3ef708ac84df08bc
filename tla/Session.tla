------------------------------- MODULE Session -------------------------------
(***************************************************************************)
(* Sessions of one browser (src/session/session.c).  A request has one     *)
(* Gene\Session object, which takes its id from the cookie, loads the      *)
(* record lazily, enforces the idle, absolute and binding limits when it   *)
(* does, writes back when dirty, and sends the cookie early.  The record   *)
(* lives in a store with expiry (Gene\Memory, Redis, ...), whose calls may *)
(* park under Swoole: a method is cut at each of them.                     *)
(*                                                                         *)
(* The session's data is one value, which set() makes new every time.  A   *)
(* reply reaches the browser at the end of the request, or earlier if the  *)
(* response is sent before the work is done.                               *)
(***************************************************************************)
EXTENDS Integers, FiniteSets

CONSTANTS
    Requests,     \* requests that may be under way at the same time
    Installations \* configurations and uses to explore: see Installation

(* ttl, uttl, idle and absolute (0 = off) in seconds and bind, of the      *)
(* configuration; then what happens: requests overlap, a response is sent  *)
(* before the request ends, the device changes; and bounds on the clock,   *)
(* the ids ever generated and the calls of set().                          *)
Installation ==
    [ttl: Nat \ {0}, uttl: Nat, idle: Nat, absolute: Nat, bind: BOOLEAN,
     overlap: BOOLEAN, early: BOOLEAN, devices: SUBSET {1, 2},
     horizon: Nat \ {0}, maxIds: Nat, maxWrites: Nat]

SessionAssumption ==
    Installations \subseteq Installation

VARIABLES
    records,   \* the store: the record of an id and when it expires
    jar,       \* the id in the browser's cookie, 0 = none
    req,       \* the Session object of each request: see SessionType
    conf,      \* the installation
    clock,
    ids,       \* ids generated so far
    writes,    \* calls of set() so far
    kept,      \* ghost: the value that the application last left, when, how old
    dead,      \* ghost: values of sessions that were destroyed
    excused    \* ghost: something happened that loses data by right

sessionVars == <<records, jar, req, conf, clock, ids, writes, kept, dead, excused>>

-----------------------------------------------------------------------------
Ids == 0..conf.maxIds
(* The array in _data: the value (0 = none), stime, _born and _bind.       *)
Payload == [v: 0..conf.maxWrites, stime: 0..conf.horizon, born: 0..conf.horizon, bind: 0..2]
Empty == [v |-> 0, stime |-> 0, born |-> 0, bind |-> 0]
Null == [v |-> -1]       \* DATA is NULL: not loaded yet

SessionType ==
    [at: {"off", "run", "kick"}, id: Ids, device: 0..2, data: Payload \cup {Null},
     dirty: BOOLEAN, new: BOOLEAN, sent: BOOLEAN, ended: BOOLEAN, out: Ids]
Off == [at |-> "off", id |-> 0, device |-> 0, data |-> Null, dirty |-> FALSE,
        new |-> FALSE, sent |-> FALSE, ended |-> FALSE, out |-> 0]

NoRecord == [data |-> Null, until |-> 0]

Running(r) == req[r].at = "run"
Loaded(r) == Running(r) /\ req[r].data # Null

(* gene_session_touch_interval().                                          *)
TouchInterval == IF conf.idle > 0 /\ conf.idle \div 2 < conf.uttl
                 THEN conf.idle \div 2 ELSE conf.uttl

(* gene_session_fingerprint(): 0 with binding off.                         *)
Fingerprint(s) == IF conf.bind THEN s.device ELSE 0

(* gene_cookie() and gene_session_emit_cookie(): lost once the response is *)
(* out.                                                                    *)
Cookie(s) == IF s.ended THEN s ELSE [s EXCEPT !.sent = TRUE, !.out = s.id]
MarkDirty(s) == [s EXCEPT !.dirty = TRUE, !.sent = FALSE]
AutoCookie(s) == IF ~s.sent /\ (s.new \/ s.dirty) THEN Cookie(s) ELSE s

(* What data_save_ex() adds to the array before it stores it.              *)
Stamped(s) ==
    IF s.data = Null THEN Null
    ELSE [s.data EXCEPT
            !.stime = clock,
            !.born = IF conf.absolute > 0 /\ @ = 0 THEN clock ELSE @,
            !.bind = IF conf.bind THEN Fingerprint(s) ELSE @]

(* The handler's set() with the life time, and its get().                  *)
Written(s) == [records EXCEPT ![s.id] = [data |-> Stamped(s), until |-> clock + conf.ttl]]
Found(id) == IF records[id].until > clock /\ records[id].data # Null
             THEN records[id].data ELSE Empty

(* gene_data_save_ex() in the object.                                      *)
Saved(s, sendCookie) ==
    LET t == [s EXCEPT !.data = Stamped(s), !.dirty = FALSE]
    IN  IF sendCookie /\ ~t.sent THEN Cookie(t) ELSE t

(* gene_session_enforce(): the record must go.                             *)
Violates(s, d) ==
    \/ conf.absolute > 0 /\ d.born # 0 /\ clock - d.born > conf.absolute
    \/ conf.idle > 0 /\ d.stime # 0 /\ clock - d.stime > conf.idle
    \/ conf.bind /\ d.bind # 0 /\ d.bind # Fingerprint(s)

(* ... and a record without _born is given one.                            *)
Aged(d) == IF conf.absolute > 0 /\ d.born = 0
           THEN [d EXCEPT !.born = IF d.stime # 0 THEN d.stime ELSE clock] ELSE d

-----------------------------------------------------------------------------
(* How far apart two uses of a live session may be: the record is written  *)
(* only when it is older than the touch interval.                          *)
Grace == LET life == IF conf.idle > 0 /\ conf.idle < conf.ttl THEN conf.idle ELSE conf.ttl - 1
         IN  life - TouchInterval

(* Nobody used the session for too long or it is too old: its value may be *)
(* gone by right.                                                          *)
Lapsed ==
    \/ clock - kept.used > Grace
    \/ conf.absolute > 0 /\ clock - kept.since > conf.absolute

(* Where the old value may be gone, what is loaded counts: its value, its  *)
(* last use that the record knows of, and its age.                         *)
Loads(v, d) ==
    LET birth == IF d.born = 0 THEN clock ELSE d.born IN
    kept' = IF excused \/ Lapsed
            THEN [kept EXCEPT !.value = v, !.used = d.stime, !.since = birth]
            ELSE [kept EXCEPT !.since = IF d.born = 0 THEN birth ELSE @]

Leave(v) == kept' = [kept EXCEPT !.value = v, !.used = clock]

Alone(r) == \A q \in Requests \ {r} : req[q].at = "off"

SessionInit ==
    /\ conf \in Installations
    /\ records = [i \in Ids |-> NoRecord] /\ jar = 0
    /\ req = [r \in Requests |-> Off]
    /\ clock = 1 /\ ids = 0 /\ writes = 0
    /\ kept = [value |-> 0, used |-> 0, since |-> 0, device |-> 0]
    /\ dead = {} /\ excused = FALSE

(* __construct() and gene_init_ssid(): the cookie's id, or a new one.      *)
Begin(r, d) ==
    /\ req[r].at = "off" /\ (conf.overlap \/ (Alone(r) /\ r = CHOOSE q \in Requests : TRUE))
    /\ LET s == [Off EXCEPT !.at = "run", !.device = d] IN
       \/ /\ jar # 0
          /\ req' = [req EXCEPT ![r] = [s EXCEPT !.id = jar]] /\ ids' = ids
       \/ /\ jar = 0 /\ ids < conf.maxIds
          /\ req' = [req EXCEPT ![r] = [s EXCEPT !.id = ids + 1, !.new = TRUE]]
          /\ ids' = ids + 1
    /\ kept' = [kept EXCEPT !.device = d]
    /\ excused' = (excused \/ (conf.bind /\ kept.device \notin {0, d}))
    /\ UNCHANGED <<records, jar, conf, clock, writes, dead>>

(* gene_session_get_data(), at the first get(), has(), all() or set(): the *)
(* handler's get(), then the limits.                                       *)
LazyLoad(r) ==
    LET s == req[r]
        d == Found(s.id)
        t == [s EXCEPT !.data = Aged(d), !.dirty = FALSE]
    IN  /\ Running(r) /\ s.data = Null
        /\ req' = [req EXCEPT ![r] = IF Violates(s, d) THEN [s EXCEPT !.at = "kick"]
                                     ELSE IF Aged(d) # d THEN MarkDirty(t) ELSE t]
        /\ Loads(IF Violates(s, d) THEN 0 ELSE d.v, d)
        /\ excused' = FALSE
        /\ UNCHANGED <<records, jar, conf, clock, ids, writes, dead>>

(* gene_data_clear(): the handler's delete(), then a new id.               *)
Cleared(s) == Cookie([s EXCEPT !.data = Null, !.id = ids + 1, !.new = TRUE, !.dirty = FALSE])
Bury(r) ==
    dead' = IF Alone(r)
            THEN dead \cup ({req[r].id} \X ({records[req[r].id].data.v, req[r].data.v} \ {0, -1}))
            ELSE dead

(* What enforce() does with a record that must go; the request goes on     *)
(* with an empty session.                                                  *)
Kick(r) ==
    /\ req[r].at = "kick" /\ ids < conf.maxIds
    /\ records' = [records EXCEPT ![req[r].id] = NoRecord]
    /\ req' = [req EXCEPT ![r] = [Cleared(req[r]) EXCEPT !.at = "run", !.data = Empty]]
    /\ ids' = ids + 1
    /\ Bury(r)
    /\ UNCHANGED <<jar, conf, clock, writes, kept, excused>>

(* Mutant: a read does not refresh the record.                             *)
GetUntouched(r) ==
    /\ Loaded(r) /\ req[r].data.v # 0
    /\ kept' = [kept EXCEPT !.used = clock]
    /\ UNCHANGED <<records, req, jar, conf, clock, ids, writes, dead, excused>>

(* get() of what is there: a record older than the touch interval is saved *)
(* again.                                                                  *)
Get(r) ==
    LET s == req[r] IN
    /\ Loaded(r) /\ s.data.v # 0
    /\ IF s.data.stime # 0 /\ clock - s.data.stime > TouchInterval
       THEN records' = Written(s) /\ req' = [req EXCEPT ![r] = Saved(s, TRUE)]
       ELSE UNCHANGED <<records, req>>
    /\ kept' = [kept EXCEPT !.used = clock]
    /\ UNCHANGED <<jar, conf, clock, ids, writes, dead, excused>>

(* gene_session_walk_path() and gene_session_delete_path(): the data of a  *)
(* session is one value, whose path is left out.                           *)
Put(s, v) == [s EXCEPT !.data.v = v]
Unset(s) == [s EXCEPT !.data.v = 0]

(* Mutant: set() puts the value into the array without loading it first.   *)
SetUnloaded(r) ==
    /\ Running(r) /\ writes < conf.maxWrites
    /\ req' = [req EXCEPT ![r] = AutoCookie(MarkDirty(Put(@, writes + 1)))]
    /\ writes' = writes + 1
    /\ Leave(writes + 1)
    /\ UNCHANGED <<records, jar, conf, clock, ids, dead, excused>>

(* set(), del() of what is there, and clear(), which needs no load.        *)
Set(r) ==
    /\ Loaded(r) /\ writes < conf.maxWrites
    /\ req' = [req EXCEPT ![r] = AutoCookie(MarkDirty(Put(@, writes + 1)))]
    /\ writes' = writes + 1
    /\ Leave(writes + 1)
    /\ UNCHANGED <<records, jar, conf, clock, ids, dead, excused>>

Del(r) ==
    /\ Loaded(r) /\ req[r].data.v # 0
    /\ req' = [req EXCEPT ![r] = AutoCookie(MarkDirty(Unset(@)))]
    /\ Leave(0)
    /\ UNCHANGED <<records, jar, conf, clock, ids, writes, dead, excused>>

Clear(r) ==
    /\ Running(r)
    /\ req' = [req EXCEPT ![r] = AutoCookie(MarkDirty([@ EXCEPT !.data = Empty]))]
    /\ kept' = [kept EXCEPT !.value = 0, !.used = clock, !.since = clock]
    /\ UNCHANGED <<records, jar, conf, clock, ids, writes, dead, excused>>

(* Mutant: destroy() leaves the object as it was.                          *)
DestroyKeeps(r) ==
    /\ Running(r) /\ ids < conf.maxIds
    /\ records' = [records EXCEPT ![req[r].id] = NoRecord]
    /\ ids' = ids + 1
    /\ Bury(r) /\ Leave(0)
    /\ UNCHANGED <<req, jar, conf, clock, writes, excused>>

(* destroy().                                                              *)
Destroy(r) ==
    /\ Running(r) /\ ids < conf.maxIds
    /\ records' = [records EXCEPT ![req[r].id] = NoRecord]
    /\ req' = [req EXCEPT ![r] = Cleared(req[r])]
    /\ ids' = ids + 1
    /\ Bury(r) /\ Leave(0)
    /\ UNCHANGED <<jar, conf, clock, writes, excused>>

(* regenerateId($deleteOld): the old record goes, the data stays in the    *)
(* object and is saved under the new id.  Data that was not loaded is lost *)
(* with the old record or left behind under it.                            *)
RegenerateId(r, deleteOld) ==
    LET s == [req[r] EXCEPT !.id = ids + 1, !.new = FALSE] IN
    /\ Running(r) /\ ids < conf.maxIds
    /\ records' = IF deleteOld THEN [records EXCEPT ![req[r].id] = NoRecord] ELSE records
    /\ req' = [req EXCEPT ![r] = AutoCookie(MarkDirty(s))]
    /\ ids' = ids + 1
    /\ excused' = (excused \/ req[r].data = Null)
    /\ UNCHANGED <<jar, conf, clock, writes, kept, dead>>

(* setSessionId(), before anything else, with the id that the client sent  *)
(* by other means, which is the one in the cookie.  Dirty without data,    *)
(* the record is overwritten with nothing unless a load comes in between.  *)
SetSessionId(r) ==
    /\ Running(r) /\ req[r].id = jar /\ req[r].data = Null
    /\ req' = [req EXCEPT ![r] = AutoCookie(MarkDirty([@ EXCEPT !.new = FALSE]))]
    /\ excused' = TRUE
    /\ UNCHANGED <<records, jar, conf, clock, ids, writes, kept, dead>>

(* save(), and load() of a dirty session before it reads again.            *)
Save(r) ==
    /\ Running(r)
    /\ IF req[r].dirty
       THEN records' = Written(req[r]) /\ req' = [req EXCEPT ![r] = Saved(@, TRUE)]
       ELSE records' = records /\ req' = [req EXCEPT ![r] = IF @.sent THEN @ ELSE Cookie(@)]
    /\ UNCHANGED <<jar, conf, clock, ids, writes, kept, dead, excused>>

(* load(): reads again, and does not look at the limits.                   *)
Load(r) ==
    /\ Running(r) /\ ~req[r].dirty
    /\ req' = [req EXCEPT ![r].data = Found(req[r].id)]
    /\ Loads(Found(req[r].id).v, Found(req[r].id))
    /\ excused' = (excused \/ Lapsed)
    /\ UNCHANGED <<records, jar, conf, clock, ids, writes, dead>>

(* The response is sent while the request still runs.                      *)
Flush(r) ==
    /\ conf.early /\ Running(r) /\ ~req[r].ended
    /\ req' = [req EXCEPT ![r].ended = TRUE]
    /\ jar' = IF req[r].out # 0 THEN req[r].out ELSE jar
    /\ UNCHANGED <<records, conf, clock, ids, writes, kept, dead, excused>>

(* __destruct(): saves what is dirty, without a cookie.  An id that could  *)
(* not be sent any more is lost, and so is its data.                       *)
End(r) ==
    LET s == req[r]
        j == IF ~s.ended /\ s.out # 0 THEN s.out ELSE jar
    IN  /\ Running(r)
        /\ records' = IF s.dirty THEN Written(s) ELSE records
        /\ jar' = j
        /\ req' = [req EXCEPT ![r] = Off]
        /\ excused' = (excused \/ (s.ended /\ s.id # j))
        /\ UNCHANGED <<conf, clock, ids, writes, kept, dead>>

TimePasses ==
    /\ clock < conf.horizon
    /\ clock' = clock + 1
    /\ UNCHANGED <<records, jar, req, conf, ids, writes, kept, dead, excused>>

SessionNext ==
    \/ \E r \in Requests :
        \/ \E d \in conf.devices : Begin(r, d)
        \/ LazyLoad(r) \/ Kick(r) \/ Get(r) \/ Set(r) \/ Del(r) \/ Clear(r)
        \/ Destroy(r) \/ (\E b \in BOOLEAN : RegenerateId(r, b)) \/ SetSessionId(r)
        \/ Save(r) \/ Load(r) \/ Flush(r) \/ End(r)
    \/ TimePasses

SessionSpec == SessionInit /\ [][SessionNext]_sessionVars

-----------------------------------------------------------------------------
(* The variables have their types.                                         *)
SessionTypeOK ==
    /\ conf \in Installations
    /\ records \in [Ids -> [data: Payload \cup {Null}, until: Nat]]
    /\ jar \in 0..ids /\ ids \in 0..conf.maxIds /\ writes \in 0..conf.maxWrites
    /\ req \in [Requests -> SessionType]
    /\ clock \in 1..conf.horizon
    /\ dead \subseteq Ids \X (1..conf.maxWrites) /\ excused \in BOOLEAN

(* With one request at a time, a session is what the application left in   *)
(* it: no request loads anything else than the value that was last set, or *)
(* nothing after del(), clear() and destroy(), whatever was regenerated,   *)
(* saved, touched and expired in between; as long as uses are no further   *)
(* apart than the idle limit or the life time less the touch interval.     *)
SessionKept ==
    ~conf.overlap /\ ~excused => \A r \in Requests : Loaded(r) => req[r].data.v = kept.value

(* With requests that overlap, a value that was in the session when it was *)
(* destroyed, or expired, while nobody else was under way does not come    *)
(* back.                                                                   *)
DestroyedGone ==
    \A r \in Requests : Loaded(r) => <<req[r].id, req[r].data.v>> \notin dead
=============================================================================
