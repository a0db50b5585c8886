------------------------------ MODULE SharedConfig ------------------------------
(***************************************************************************)
(* The configuration that requests and the file watcher share:             *)
(* HotReloadConfig (server/config/hot_reload.rs) under ConfigManager       *)
(* (server/config/management.rs).  A request clones the configuration,     *)
(* changes a field and stores the whole; a reload stores what it read from *)
(* the file.  One action per access to something shared.                   *)
(***************************************************************************)
EXTENDS Integers, FiniteSets

CONSTANTS
  Clients,     \* requests that are served at a time
  Values,      \* the values of a field
  Contents,    \* the configurations that are written to the file
  Start,       \* the configuration the server starts with
  MaxEdits,    \* bound: the times that the file is written
  MaxUpdates   \* bound: the requests

ASSUME ConfigAssumption ==
  /\ Values \subseteq Nat \ {0} /\ Start \in [rate : Values, level : Values]
  /\ Contents \subseteq [rate : Values, level : Values]
  /\ MaxEdits \in Nat /\ MaxUpdates \in Nat

VARIABLES
  file,        \* what the file holds: a configuration, or Bad
  edits,       \* the times it was written: its modification time
  config,      \* HotReloadConfig.config
  override,    \* ConfigManager.rate_limiter, None at first
  seen,        \* the configuration the reload callbacks were called with last
  req,         \* of each request and of the watcher: where it stands, what it stores
  watched,     \* last_modified of watch, -1 for None
  updates,     \* the requests so far
  serial,      \* history: what the stores would make, each applied to the last
  raced,       \* history: a store came between a clone and its store, or a store
               \* and its callbacks
  reloaded,    \* history: a reload stored a configuration after the last rate limit
  loaded,      \* history: the modification times whose content was stored
  failed       \* history: the modification times whose content could not be read

shared  == <<config, override, seen>>
history == <<serial, raced, reloaded, loaded, failed>>
vars    == <<file, edits, shared, req, watched, updates, history>>

Configs   == [rate : Values, level : Values]
Bad       == [unparsable |-> TRUE]
None      == 0
Idle      == [at |-> "idle"]
Processes == Clients \cup {"watch"}
AtRest    == \A p \in Processes : req[p] = Idle

Begin(p, r) ==
  /\ req[p] = Idle
  /\ req' = [req EXCEPT ![p] = r]

Arrive(c, r) ==
  /\ updates < MaxUpdates
  /\ updates' = updates + 1
  /\ Begin(c, r)
  /\ UNCHANGED <<file, edits, shared, watched, history>>

--------------------------------------------------------------------------------
(* update_rate_limit and update_logging clone the configuration. *)
UpdateRateLimit(c, v) ==
  Arrive(c, [at |-> "override", field |-> "rate", stale |-> FALSE,
             new |-> [config EXCEPT !.rate = v]])

UpdateLogging(c, v) ==
  Arrive(c, [at |-> "store", field |-> "level", stale |-> FALSE,
             new |-> [config EXCEPT !.level = v]])

(* Mutant: the override is set from the configuration as it was. *)
OverrideOld(c) ==
  /\ req[c].at = "override"
  /\ override' = config.rate
  /\ req' = [req EXCEPT ![c].at = "store"]
  /\ UNCHANGED <<file, edits, config, seen, watched, updates, history>>

(* update_rate_limit sets the override under a lock of its own. *)
Override(c) ==
  /\ req[c].at = "override"
  /\ override' = req[c].new.rate
  /\ req' = [req EXCEPT ![c].at = "store"]
  /\ UNCHANGED <<file, edits, config, seen, watched, updates, history>>

(* update_config, and reload_config once the file is parsed. *)
Store(p) ==
  LET r == req[p] IN
  /\ r.at = "store"
  /\ config' = r.new
  /\ req' = [q \in Processes |->
       IF q = p THEN [r EXCEPT !.at = "call", !.stale = FALSE]
       ELSE IF req[q].at \in {"override", "store", "call"} THEN [req[q] EXCEPT !.stale = TRUE]
       ELSE req[q]]
  /\ raced' = (raced \/ (r.stale /\ r.field # "all"))
  /\ IF r.field = "all"
     THEN serial' = r.new /\ reloaded' = TRUE /\ loaded' = loaded \cup {r.read}
     ELSE /\ serial' = [serial EXCEPT ![r.field] = r.new[r.field]]
          /\ reloaded' = (reloaded /\ r.field # "rate")
          /\ UNCHANGED loaded
  /\ UNCHANGED <<file, edits, override, seen, watched, updates, failed>>

(* Mutant: the callbacks are called at a reload only. *)
CallAtReload(p) ==
  /\ req[p].at = "call"
  /\ seen' = IF req[p].field = "all" THEN req[p].new ELSE seen
  /\ req' = [req EXCEPT ![p] = Idle]
  /\ UNCHANGED <<file, edits, config, override, watched, updates, history>>

(* Then they call the callbacks with the configuration they stored. *)
Call(p) ==
  /\ req[p].at = "call"
  /\ seen' = req[p].new
  /\ req' = [req EXCEPT ![p] = Idle]
  /\ raced' = (raced \/ req[p].stale)
  /\ UNCHANGED <<file, edits, config, override, watched, updates, serial, reloaded, loaded, failed>>

(* reload_config of ConfigManager. *)
Reload(c) == Arrive(c, [at |-> "read"])

(* Mutant: the watcher reloads once. *)
TickOnce ==
  /\ watched = -1
  /\ watched' = edits
  /\ Begin("watch", [at |-> "read"])
  /\ UNCHANGED <<file, edits, shared, updates, history>>

(* watch finds a new modification time, and keeps it. *)
Tick ==
  /\ watched # edits
  /\ watched' = edits
  /\ Begin("watch", [at |-> "read"])
  /\ UNCHANGED <<file, edits, shared, updates, history>>

(* reload_config reads and parses the file; its caller is told Ok(false),  *)
(* which neither of the two treats as a failure.                           *)
ReadFile(p) ==
  /\ req[p].at = "read"
  /\ \/ /\ file # Bad
        /\ req' = [req EXCEPT ![p] = [at |-> "store", field |-> "all", stale |-> FALSE,
                                      new |-> file, read |-> edits]]
        /\ UNCHANGED failed
     \/ /\ req' = [req EXCEPT ![p] = Idle]
        /\ failed' = failed \cup {edits}
  /\ UNCHANGED <<file, edits, shared, watched, updates, serial, raced, reloaded, loaded>>

(* The client goes while its request waits for the lock or the file. *)
Cancel(c) ==
  /\ req[c].at \in {"override", "read"}
  /\ req' = [req EXCEPT ![c] = Idle]
  /\ UNCHANGED <<file, edits, shared, watched, updates, history>>

(* The operator writes the file. *)
Edit ==
  /\ edits < MaxEdits
  /\ edits' = edits + 1
  /\ file' \in Contents \cup {Bad}
  /\ UNCHANGED <<shared, req, watched, updates, history>>

--------------------------------------------------------------------------------
Init ==
  /\ file = Start /\ edits = 0
  /\ config = Start /\ override = None /\ seen = Start
  /\ req = [p \in Processes |-> Idle] /\ watched = -1 /\ updates = 0
  /\ serial = Start /\ raced = FALSE /\ reloaded = FALSE /\ loaded = {} /\ failed = {}

Serve(c) ==
  \/ \E v \in Values : UpdateRateLimit(c, v) \/ UpdateLogging(c, v)
  \/ Override(c) \/ Reload(c) \/ Cancel(c)

Finish(p) == ReadFile(p) \/ Store(p) \/ Call(p)

(* The edits and the requests of the bound have been made. *)
Rest ==
  /\ AtRest /\ edits = MaxEdits /\ updates = MaxUpdates
  /\ UNCHANGED vars

Next == (\E c \in Clients : Serve(c)) \/ (\E p \in Processes : Finish(p)) \/ Tick \/ Edit \/ Rest

(* The interval of watch fires again and again, and its task is scheduled. *)
Spec == Init /\ [][Next]_vars /\ WF_vars(Tick) /\ WF_vars(Finish("watch"))

--------------------------------------------------------------------------------
(* Properties *)

(* The range of each variable. *)
Request ==
  {Idle, [at |-> "read"]}
    \cup [at : {"override", "store", "call"}, field : {"rate", "level"}, stale : BOOLEAN,
          new : Configs]
    \cup [at : {"store", "call"}, field : {"all"}, stale : BOOLEAN, new : Configs,
          read : 0..MaxEdits]

TypeOK ==
  /\ file \in Contents \cup {Start, Bad} /\ config \in Configs /\ seen \in Configs
  /\ override \in Values \cup {None} /\ serial \in Configs
  /\ edits \in 0..MaxEdits /\ watched \in -1..edits /\ updates \in 0..MaxUpdates
  /\ req \in [Processes -> Request]
  /\ \A p \in Processes : req[p].at = "override" => req[p].field = "rate"
  /\ raced \in BOOLEAN /\ reloaded \in BOOLEAN
  /\ loaded \cup failed \subseteq 0..MaxEdits

(* No update is lost however requests, reloads and edits interleave, unless *)
(* another store came between the clone and the store of an update: the    *)
(* configuration is what the stores make one after the other, that of an   *)
(* update changing its own field only.  The callbacks were told of it last *)
(* unless a store came between another and its callbacks.                  *)
Serial == ~raced => config = serial /\ (AtRest => seen = config)

(* The override is the rate limit of the configuration, once it is set, if *)
(* no reload came after the last update: update_rate_limit sets both, in   *)
(* two steps.  Here too a store in between is the one exception.           *)
OverrideFollows ==
  ~raced /\ ~reloaded /\ AtRest => override \in {None, config.rate}

(* What is written to the file comes into force, also when it is written   *)
(* while the watcher reads, unless the content cannot be read or parsed:   *)
(* last_modified is kept before the reload, which is not tried again.      *)
EditTakesEffect ==
  \A n \in 0..MaxEdits : edits = n ~> n \in loaded \cup failed \/ edits > n
================================================================================
