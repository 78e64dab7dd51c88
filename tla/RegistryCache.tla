---------------------------- MODULE RegistryCache ---------------------------
(***************************************************************************)
(* RegistryClient (registry_client.py): validate_pv and validate_device    *)
(* ask the configuration service whether a name exists and remember the    *)
(* answer for a while.  Lookups run concurrently on the event loop and     *)
(* await only the HTTP request, so an answer may be read in the registry   *)
(* long before it is cached, and an older one cached over a newer one.     *)
(*                                                                         *)
(* The two caches, of PVs and of devices, work alike; Name stands for      *)
(* either.  Time passes in ticks.  httpx gives up a request whose answer   *)
(* does not arrive within HttpTimeout; the loop is taken to run a          *)
(* coroutine whose answer is there before the clock moves on.              *)
(***************************************************************************)
EXTENDS Integers

CONSTANTS
    Name,
    Lookup,        \* the coroutines that validate names
    TTL,           \* _cache_ttl
    HttpTimeout,   \* of the client made by _get_client
    MaxTime,       \* bound: the last tick
    NoEntry        \* a key missing in the cache

ASSUME TimesAssumption == TTL \in Nat /\ HttpTimeout \in Nat
ASSUME NoEntryAssumption == NoEntry \notin [exists : BOOLEAN, at : Nat]

VARIABLES
    now,           \* time.monotonic()
    registered,    \* the names the registry has
    had, lacked,   \* history: the last tick at which it had a name, or had not
    cache,         \* _pv_cache or _device_cache
    pc,            \* of each lookup: "idle", "asked", "answered"
    name,          \* what it asks for
    reply,         \* [status, at]: what the registry answered, and when
    verdict,       \* the outcome of its last validation
    age            \* history: for how long that verdict had been out of date

vars == <<now, registered, had, lacked, cache, pc, name, reply, verdict, age>>

\* Long before anything that matters.
Never == -(TTL + HttpTimeout + 1)

Status == {"200", "404", "other"}
Verdict == {"none", "exists", "absent", "refused", "unavailable"}

TypeOK ==
    /\ now \in Nat
    /\ registered \subseteq Name
    /\ had \in [Name -> Int]
    /\ lacked \in [Name -> Int]
    /\ cache \in [Name -> [exists : BOOLEAN, at : Nat] \cup {NoEntry}]
    /\ pc \in [Lookup -> {"idle", "asked", "answered"}]
    /\ name \in [Lookup -> Name]
    /\ reply \in [Lookup -> [status : Status, at : Nat]]
    /\ verdict \in [Lookup -> Verdict]
    /\ age \in [Lookup -> Int]

Init ==
    /\ now = 0
    /\ registered \in SUBSET Name
    /\ had = [n \in Name |-> IF n \in registered THEN 0 ELSE Never]
    /\ lacked = [n \in Name |-> IF n \in registered THEN Never ELSE 0]
    /\ cache = [n \in Name |-> NoEntry]
    /\ pc = [l \in Lookup |-> "idle"]
    /\ name \in [Lookup -> Name]
    /\ reply = [l \in Lookup |-> [status |-> "other", at |-> 0]]
    /\ verdict = [l \in Lookup |-> "none"]
    /\ age = [l \in Lookup |-> 0]

-----------------------------------------------------------------------------
(* Validation                                                              *)

\* When it was last so that n exists, or does not.
LastSo(n, exists) == IF exists THEN had[n] ELSE lacked[n]

\* Lookup l says that n exists or not.
Say(l, n, exists) ==
    /\ verdict' = [verdict EXCEPT ![l] = IF exists THEN "exists" ELSE "absent"]
    /\ age' = [age EXCEPT ![l] = now - LastSo(n, exists)]

\* It raises without having learned anything of n.
Raise(l, outcome) ==
    /\ verdict' = [verdict EXCEPT ![l] = outcome]
    /\ age' = [age EXCEPT ![l] = 0]

\* Mistake: an entry is looked at only for being there.
ValidEver(n) == cache[n] # NoEntry

\* _cache_get
Valid(n) == cache[n] # NoEntry /\ now - cache[n].at <= TTL

Hit(l, n) ==
    /\ pc[l] = "idle"
    /\ Valid(n)
    /\ name' = [name EXCEPT ![l] = n]
    /\ Say(l, n, cache[n].exists)
    /\ UNCHANGED <<now, registered, had, lacked, cache, pc, reply>>

\* Mistake: an entry that is too old is marked instead of deleted.
AskMarking(l, n) ==
    /\ pc[l] = "idle"
    /\ ~Valid(n)
    /\ cache' = [cache EXCEPT ![n] = [exists |-> FALSE, at |-> Never]]
    /\ pc' = [pc EXCEPT ![l] = "asked"]
    /\ name' = [name EXCEPT ![l] = n]
    /\ UNCHANGED <<now, registered, had, lacked, reply, verdict, age>>

\* No entry, or one that is too old, which is deleted: the request goes out.
Ask(l, n) ==
    /\ pc[l] = "idle"
    /\ ~Valid(n)
    /\ cache' = [cache EXCEPT ![n] = NoEntry]
    /\ pc' = [pc EXCEPT ![l] = "asked"]
    /\ name' = [name EXCEPT ![l] = n]
    /\ UNCHANGED <<now, registered, had, lacked, reply, verdict, age>>

\* The configuration service looks the name up, or fails in some other way.
RegistryAnswers(l) ==
    /\ pc[l] = "asked"
    /\ pc' = [pc EXCEPT ![l] = "answered"]
    /\ \E status \in {IF name[l] \in registered THEN "200" ELSE "404", "other"} :
            reply' = [reply EXCEPT ![l] = [status |-> status, at |-> now]]
    /\ UNCHANGED <<now, registered, had, lacked, cache, name, verdict, age>>

\* Mistake: whatever is not a 200 is remembered as absent.
ReceiveAny(l) ==
    LET n == name[l]
        exists == reply[l].status = "200"
    IN  /\ pc[l] = "answered"
        /\ pc' = [pc EXCEPT ![l] = "idle"]
        /\ cache' = [cache EXCEPT ![n] = [exists |-> exists, at |-> now]]
        /\ Say(l, n, exists)
        /\ UNCHANGED <<now, registered, had, lacked, name, reply>>

\* The answer is there.  200 and 404 are cached as of now; any other status
\* raises the same error as a 404 and leaves the cache alone.
Receive(l) ==
    LET n == name[l]
        exists == reply[l].status = "200"
    IN  /\ pc[l] = "answered"
        /\ pc' = [pc EXCEPT ![l] = "idle"]
        /\ IF reply[l].status = "other"
           THEN Raise(l, "refused") /\ UNCHANGED cache
           ELSE /\ cache' = [cache EXCEPT ![n] = [exists |-> exists, at |-> now]]
                /\ Say(l, n, exists)
        /\ UNCHANGED <<now, registered, had, lacked, name, reply>>

\* httpx.RequestError: no connection, or a timeout.
Fail(l) ==
    /\ pc[l] # "idle"
    /\ pc' = [pc EXCEPT ![l] = "idle"]
    /\ Raise(l, "unavailable")
    /\ UNCHANGED <<now, registered, had, lacked, cache, name, reply>>

-----------------------------------------------------------------------------
(* The world                                                               *)

\* A name is added to the registry or removed.
Change(n) ==
    /\ \/ /\ n \in registered
          /\ registered' = registered \ {n}
          /\ lacked' = [lacked EXCEPT ![n] = now]
          /\ UNCHANGED had
       \/ /\ n \notin registered
          /\ registered' = registered \cup {n}
          /\ had' = [had EXCEPT ![n] = now]
          /\ UNCHANGED lacked
    /\ UNCHANGED <<now, cache, pc, name, reply, verdict, age>>

\* An answer on its way for HttpTimeout has arrived or been given up.
Tick ==
    /\ now < MaxTime
    /\ \A l \in Lookup : pc[l] = "answered" => now < reply[l].at + HttpTimeout
    /\ now' = now + 1
    /\ had' = [n \in Name |-> IF n \in registered THEN now + 1 ELSE had[n]]
    /\ lacked' = [n \in Name |-> IF n \in registered THEN lacked[n] ELSE now + 1]
    /\ UNCHANGED <<registered, cache, pc, name, reply, verdict, age>>

-----------------------------------------------------------------------------

Next ==
    \/ \E l \in Lookup :
        \/ \E n \in Name : Hit(l, n) \/ Ask(l, n)
        \/ RegistryAnswers(l) \/ Receive(l) \/ Fail(l)
    \/ \E n \in Name : Change(n)
    \/ Tick

Spec == Init /\ [][Next]_vars

-----------------------------------------------------------------------------
(* Properties                                                              *)

\* A cached answer was the registry's at most HttpTimeout before the time it is
\* stamped with, whichever of two overlapping lookups returned last, and no
\* failure of the registry is ever remembered as an answer.
EntryHadEvidence ==
    \A n \in Name : cache[n] # NoEntry =>
        LastSo(n, cache[n].exists) >= cache[n].at - HttpTimeout

\* A verdict, cached or not, is at most TTL + HttpTimeout out of date: a name
\* removed from the registry is refused after that time, and a new one accepted.
AnswerAge == \A l \in Lookup : age[l] <= TTL + HttpTimeout

=============================================================================
