--------------------------- MODULE SharedConfigProofs ---------------------------
(***************************************************************************)
(* Proofs about SharedConfig, for any number of requests, values, edits    *)
(* and updates.                                                            *)
(***************************************************************************)
EXTENDS SharedConfig, TLAPS

(* What a request of each kind carries. *)
LEMMA RequestForms ==
  ASSUME NEW r \in Request
  PROVE  /\ r.at \in {"idle", "read", "override", "store", "call"}
         /\ r.at = "idle" <=> r = Idle
         /\ r.at \in {"override", "store", "call"} =>
              /\ r.new \in Configs /\ r.stale \in BOOLEAN
              /\ r.field \in {"rate", "level", "all"}
              /\ r.field = "all" => r.at # "override" /\ r.read \in 0..MaxEdits
  BY DEF Request, Idle

(* A request goes on, or becomes stale. *)
LEMMA RequestGoesOn ==
  ASSUME NEW r \in Request
  PROVE  /\ r.at = "override" => [r EXCEPT !.at = "store"] \in Request
         /\ r.at = "store" => [r EXCEPT !.at = "call", !.stale = FALSE] \in Request
         /\ r.at \in {"override", "store", "call"} => [r EXCEPT !.stale = TRUE] \in Request
PROOF
  <1>1. CASE r \in {Idle, [at |-> "read"]}
    BY <1>1 DEF Idle
  <1>2. CASE r \in [at : {"override", "store", "call"}, field : {"rate", "level"},
                    stale : BOOLEAN, new : Configs]
    BY <1>2 DEF Request
  <1>3. CASE r \in [at : {"store", "call"}, field : {"all"}, stale : BOOLEAN, new : Configs,
                    read : 0..MaxEdits]
    BY <1>3 DEF Request
  <1> QED
    BY <1>1, <1>2, <1>3 DEF Request

LEMMA ConfigFields ==
  ASSUME NEW g \in Configs, NEW v \in Values
  PROVE  /\ [g EXCEPT !.rate = v] \in Configs /\ [g EXCEPT !.level = v] \in Configs
         /\ [g EXCEPT !.rate = v].rate = v /\ [g EXCEPT !.level = v].level = v
         /\ [g EXCEPT !.rate = v].level = g.level /\ [g EXCEPT !.level = v].rate = g.rate
  BY DEF Configs

LEMMA ConfigRange ==
  ASSUME NEW g \in Configs
  PROVE  g.rate \in Values /\ g.level \in Values
  BY DEF Configs

LEMMA InitTyped == Init => TypeOK
PROOF
  <1> SUFFICES ASSUME Init PROVE TypeOK
    OBVIOUS
  <1>1. Start \in Configs
    BY ConfigAssumption DEF ConfigAssumption, Configs
  <1>2. req \in [Processes -> Request] /\ \A p \in Processes : req[p].at # "override"
    BY DEF Init, Request, Idle
  <1>3. edits \in 0..MaxEdits /\ watched \in -1..edits /\ updates \in 0..MaxUpdates
    BY ConfigAssumption DEF ConfigAssumption, Init
  <1> QED
    BY <1>1, <1>2, <1>3 DEF Init, TypeOK

(* Store and Call see req alone. *)
LEMMA StoreTyped ==
  ASSUME TypeOK, NEW p \in Processes, Store(p)
  PROVE  /\ req' \in [Processes -> Request]
         /\ \A q \in Processes : req'[q].at = "override" => req'[q].field = "rate"
PROOF
  <1> DEFINE R(q) == IF q = p THEN [req[p] EXCEPT !.at = "call", !.stale = FALSE]
                     ELSE IF req[q].at \in {"override", "store", "call"}
                          THEN [req[q] EXCEPT !.stale = TRUE] ELSE req[q]
  <1>1. req' = [q \in Processes |-> R(q)]
    BY DEF Store
  <1>2. \A q \in Processes : req[q] \in Request
    BY DEF TypeOK
  <1>3. ASSUME NEW q \in Processes
        PROVE  R(q) \in Request /\ (R(q).at = "override" => R(q).field = "rate")
    <2>1. CASE q = p
      <3>1. R(q) \in Request
        BY <2>1, <1>2, RequestGoesOn DEF Store
      <3>2. R(q).at # "override"
        <4>1. CASE req[p] \in [at : {"override", "store", "call"}, field : {"rate", "level"},
                               stale : BOOLEAN, new : Configs]
          BY <2>1, <4>1
        <4>2. CASE req[p] \in [at : {"store", "call"}, field : {"all"}, stale : BOOLEAN,
                               new : Configs, read : 0..MaxEdits]
          BY <2>1, <4>2
        <4> QED
          BY <1>2, <4>1, <4>2 DEF Request, Store, Idle
      <3> QED
        BY <3>1, <3>2
    <2>2. CASE q # p /\ req[q].at \in {"override", "store", "call"}
      <3>1. R(q) \in Request
        BY <2>2, <1>2, RequestGoesOn
      <3>2. R(q).at = req[q].at /\ R(q).field = req[q].field
        <4>1. CASE req[q] \in [at : {"override", "store", "call"}, field : {"rate", "level"},
                               stale : BOOLEAN, new : Configs]
          BY <2>2, <4>1
        <4>2. CASE req[q] \in [at : {"store", "call"}, field : {"all"}, stale : BOOLEAN,
                               new : Configs, read : 0..MaxEdits]
          BY <2>2, <4>2
        <4> QED
          BY <1>2, <2>2, <4>1, <4>2 DEF Request, Idle
      <3> QED
        BY <3>1, <3>2 DEF TypeOK
    <2>3. CASE q # p /\ req[q].at \notin {"override", "store", "call"}
      BY <2>3, <1>2
    <2> QED
      BY <2>1, <2>2, <2>3
  <1>4. \A q \in Processes : req'[q] = R(q)
    BY <1>1
  <1> QED
    BY <1>1, <1>3, <1>4

(* What a request is replaced by keeps req typed. *)
LEMMA OneRequest ==
  ASSUME TypeOK, NEW p \in Processes, NEW r \in Request,
         req' = [req EXCEPT ![p] = r], r.at = "override" => r.field = "rate"
  PROVE  /\ req' \in [Processes -> Request]
         /\ \A q \in Processes : req'[q].at = "override" => req'[q].field = "rate"
  BY DEF TypeOK

LEMMA StepTyped == TypeOK /\ [Next]_vars => TypeOK'
PROOF
  <1> SUFFICES ASSUME TypeOK, [Next]_vars PROVE TypeOK'
    OBVIOUS
  <1> USE DEF TypeOK
  <1>1. ASSUME NEW c \in Clients, NEW r \in Request, r.at = "override" => r.field = "rate",
               Arrive(c, r)
        PROVE  TypeOK'
    <2>1. /\ req' \in [Processes -> Request]
          /\ \A q \in Processes : req'[q].at = "override" => req'[q].field = "rate"
      BY <1>1, OneRequest DEF Arrive, Begin, Processes
    <2>2. updates' \in 0..MaxUpdates
      BY <1>1, ConfigAssumption DEF Arrive, ConfigAssumption
    <2> QED
      BY <1>1, <2>1, <2>2 DEF Arrive, shared, history
  <1>2. ASSUME NEW c \in Clients, NEW v \in Values,
               UpdateRateLimit(c, v) \/ UpdateLogging(c, v)
        PROVE  TypeOK'
    <2>1. /\ [config EXCEPT !.rate = v] \in Configs /\ [config EXCEPT !.level = v] \in Configs
      BY ConfigFields
    <2>2. /\ [at |-> "override", field |-> "rate", stale |-> FALSE,
              new |-> [config EXCEPT !.rate = v]] \in Request
          /\ [at |-> "store", field |-> "level", stale |-> FALSE,
              new |-> [config EXCEPT !.level = v]] \in Request
      BY <2>1 DEF Request
    <2> QED
      BY <1>1, <1>2, <2>2 DEF UpdateRateLimit, UpdateLogging
  <1>3. ASSUME NEW c \in Clients, Reload(c) PROVE TypeOK'
    <2>1. [at |-> "read"] \in Request
      BY DEF Request
    <2> QED
      BY <1>1, <1>3, <2>1 DEF Reload
  <1>4. ASSUME NEW c \in Clients, Override(c) PROVE TypeOK'
    <2>1. c \in Processes /\ req[c] \in Request /\ req[c].new \in Configs
      BY <1>4, RequestForms DEF Override, Processes
    <2>2. [req[c] EXCEPT !.at = "store"] \in Request
      BY <1>4, <2>1, RequestGoesOn DEF Override
    <2>3. [req[c] EXCEPT !.at = "store"].at # "override"
      <3>1. req[c] \in [at : {"override", "store", "call"}, field : {"rate", "level"},
                        stale : BOOLEAN, new : Configs]
        BY <1>4, <2>1 DEF Override, Request, Idle
      <3> QED
        BY <3>1
    <2>4. /\ req' \in [Processes -> Request]
          /\ \A q \in Processes : req'[q].at = "override" => req'[q].field = "rate"
      <3>1. req' = [req EXCEPT ![c] = [req[c] EXCEPT !.at = "store"]]
        BY <1>4 DEF Override
      <3> QED
        BY <2>1, <2>2, <2>3, <3>1, OneRequest
    <2>5. override' \in Values
      BY <1>4, <2>1, ConfigRange DEF Override
    <2> QED
      BY <1>4, <2>4, <2>5 DEF Override, history
  <1>5. ASSUME NEW c \in Clients, Cancel(c) PROVE TypeOK'
    <2>1. /\ req' \in [Processes -> Request]
          /\ \A q \in Processes : req'[q].at = "override" => req'[q].field = "rate"
      BY <1>5 DEF Cancel, Request, Idle
    <2> QED
      BY <1>5, <2>1 DEF Cancel, shared, history
  <1>6. ASSUME NEW p \in Processes, ReadFile(p) PROVE TypeOK'
    <2> DEFINE r == [at |-> "store", field |-> "all", stale |-> FALSE, new |-> file,
                     read |-> edits]
    <2>1. CASE file # Bad /\ req' = [req EXCEPT ![p] = r] /\ UNCHANGED failed
      <3>1. file \in Configs
        BY <2>1, ConfigAssumption DEF ConfigAssumption, Configs
      <3>2. r \in Request
        BY <3>1 DEF Request
      <3>3. /\ req' \in [Processes -> Request]
            /\ \A q \in Processes : req'[q].at = "override" => req'[q].field = "rate"
        BY <2>1, <3>2, OneRequest
      <3> QED
        BY <1>6, <2>1, <3>3 DEF ReadFile, shared
    <2>2. CASE req' = [req EXCEPT ![p] = Idle] /\ failed' = failed \cup {edits}
      <3>1. /\ req' \in [Processes -> Request]
            /\ \A q \in Processes : req'[q].at = "override" => req'[q].field = "rate"
        BY <2>2 DEF Request, Idle
      <3> QED
        BY <1>6, <2>2, <3>1 DEF ReadFile, shared
    <2> QED
      BY <1>6, <2>1, <2>2 DEF ReadFile
  <1>7. ASSUME NEW p \in Processes, Store(p) PROVE TypeOK'
    <2>1. req[p].new \in Configs /\ req[p].field \in {"rate", "level", "all"}
          /\ req[p].stale \in BOOLEAN /\ (req[p].field = "all" => req[p].read \in 0..MaxEdits)
      BY <1>7, RequestForms DEF Store
    <2>2. serial' \in Configs
      <3>1. CASE req[p].field = "all"
        BY <1>7, <2>1, <3>1 DEF Store
      <3>2. CASE req[p].field = "rate"
        <4>1. serial' = [serial EXCEPT !["rate"] = req[p].new["rate"]]
          BY <1>7, <3>2 DEF Store
        <4>2. req[p].new["rate"] \in Values
          BY <2>1 DEF Configs
        <4> QED
          BY <4>1, <4>2 DEF Configs
      <3>3. CASE req[p].field = "level"
        <4>1. serial' = [serial EXCEPT !["level"] = req[p].new["level"]]
          BY <1>7, <3>3 DEF Store
        <4>2. req[p].new["level"] \in Values
          BY <2>1 DEF Configs
        <4> QED
          BY <4>1, <4>2 DEF Configs
      <3> QED
        BY <2>1, <3>1, <3>2, <3>3
    <2>3. raced' \in BOOLEAN /\ reloaded' \in BOOLEAN /\ loaded' \subseteq 0..MaxEdits
      BY <1>7, <2>1 DEF Store
    <2> QED
      BY <1>7, <2>1, <2>2, <2>3, StoreTyped DEF Store
  <1>8. ASSUME NEW p \in Processes, Call(p) PROVE TypeOK'
    <2>1. req[p].new \in Configs /\ req[p].stale \in BOOLEAN
      BY <1>8, RequestForms DEF Call
    <2>2. /\ req' \in [Processes -> Request]
          /\ \A q \in Processes : req'[q].at = "override" => req'[q].field = "rate"
      BY <1>8 DEF Call, Request, Idle
    <2> QED
      BY <1>8, <2>1, <2>2 DEF Call
  <1>9. ASSUME Tick PROVE TypeOK'
    <2>1. /\ req' \in [Processes -> Request]
          /\ \A q \in Processes : req'[q].at = "override" => req'[q].field = "rate"
      <3>1. [at |-> "read"] \in Request
        BY DEF Request
      <3> QED
        BY <1>9, <3>1 DEF Tick, Begin, Processes
    <2>2. watched' \in -1..edits'
      BY <1>9, ConfigAssumption DEF Tick, ConfigAssumption
    <2> QED
      BY <1>9, <2>1, <2>2 DEF Tick, shared, history
  <1>10. ASSUME Edit PROVE TypeOK'
    <2>1. edits' \in 0..MaxEdits /\ watched' \in -1..edits'
      BY <1>10, ConfigAssumption DEF Edit, ConfigAssumption
    <2> QED
      BY <1>10, <2>1 DEF Edit, shared, history
  <1>11. ASSUME UNCHANGED vars PROVE TypeOK'
    BY <1>11 DEF vars, shared, history
  <1> QED
    BY <1>2, <1>3, <1>4, <1>5, <1>6, <1>7, <1>8, <1>9, <1>10, <1>11
       DEF Next, Serve, Finish, Rest

(* TypeOK: the configuration, its override and the requests that are under *)
(* way keep their types (management.rs, hot_reload.rs).                    *)
THEOREM TypeCorrect == Spec => []TypeOK
  BY InitTyped, StepTyped, PTL DEF Spec

(***************************************************************************)
(* No update is lost.  While no store has come between a clone and its     *)
(* store, what a request is about to store differs from the configuration  *)
(* in its own field only, and the last to store calls the callbacks last.  *)
(***************************************************************************)
CloneIsFresh ==
  \A p \in Processes :
    req[p].at \in {"override", "store"} /\ ~req[p].stale =>
      /\ req[p].field = "rate" => req[p].new.level = config.level
      /\ req[p].field = "level" => req[p].new.rate = config.rate

CallIsFresh ==
  \A p \in Processes : req[p].at = "call" /\ ~req[p].stale => req[p].new = config

SeenOrCalled ==
  ~raced => seen = config \/ \E p \in Processes : req[p].at = "call" /\ ~req[p].stale

SerialInv ==
  /\ TypeOK /\ CloneIsFresh /\ CallIsFresh /\ SeenOrCalled
  /\ ~raced => config = serial

(* Where a store leaves the requests. *)
LEMMA StoreForms ==
  ASSUME NEW p \in Processes, Store(p), \A q \in Processes : req[q] \in Request
  PROVE  /\ req'[p].at = "call" /\ ~req'[p].stale /\ req'[p].new = req[p].new
         /\ req'[p].field = req[p].field
         /\ \A q \in Processes \ {p} :
              /\ req'[q].at \in {"override", "store", "call"} => req'[q].stale
              /\ req'[q].at = req[q].at
              /\ req[q].at \in {"override", "store", "call"} =>
                   req'[q].field = req[q].field /\ req'[q].new = req[q].new
PROOF
  <1>1. req'[p] = [req[p] EXCEPT !.at = "call", !.stale = FALSE]
    BY DEF Store
  <1>2. /\ req'[p].at = "call" /\ ~req'[p].stale /\ req'[p].new = req[p].new
        /\ req'[p].field = req[p].field
    <2>1. CASE req[p] \in [at : {"override", "store", "call"}, field : {"rate", "level"},
                           stale : BOOLEAN, new : Configs]
      BY <1>1, <2>1
    <2>2. CASE req[p] \in [at : {"store", "call"}, field : {"all"}, stale : BOOLEAN,
                           new : Configs, read : 0..MaxEdits]
      BY <1>1, <2>2
    <2> QED
      BY <2>1, <2>2 DEF Request, Store, Idle
  <1>3. ASSUME NEW q \in Processes \ {p}
        PROVE  /\ req'[q].at \in {"override", "store", "call"} => req'[q].stale
               /\ req'[q].at = req[q].at
               /\ req[q].at \in {"override", "store", "call"} =>
                    req'[q].field = req[q].field /\ req'[q].new = req[q].new
    <2>1. CASE req[q].at \in {"override", "store", "call"}
      <3>1. req'[q] = [req[q] EXCEPT !.stale = TRUE]
        BY <2>1 DEF Store
      <3>2. CASE req[q] \in [at : {"override", "store", "call"}, field : {"rate", "level"},
                             stale : BOOLEAN, new : Configs]
        BY <3>1, <3>2
      <3>3. CASE req[q] \in [at : {"store", "call"}, field : {"all"}, stale : BOOLEAN,
                             new : Configs, read : 0..MaxEdits]
        BY <3>1, <3>3
      <3> QED
        BY <2>1, <3>2, <3>3 DEF Request, Idle
    <2>2. CASE req[q].at \notin {"override", "store", "call"}
      BY <2>2 DEF Store
    <2> QED
      BY <2>1, <2>2
  <1> QED
    BY <1>2, <1>3

(* A step by which one request goes on, without a store. *)
LEMMA QuietStep ==
  ASSUME SerialInv, TypeOK', NEW p \in Processes,
         \A q \in Processes \ {p} : req'[q] = req[q],
         UNCHANGED <<config, serial, raced, seen>>,
         req[p].at # "call", req'[p].at # "call",
         req'[p].at \in {"override", "store"} =>
           /\ req'[p].field = "rate" => req'[p].new.level = config.level
           /\ req'[p].field = "level" => req'[p].new.rate = config.rate
  PROVE  SerialInv'
PROOF
  <1> USE DEF SerialInv
  <1>1. CloneIsFresh'
    BY DEF CloneIsFresh
  <1>2. CallIsFresh'
    BY DEF CallIsFresh
  <1>3. SeenOrCalled'
    BY DEF SeenOrCalled
  <1> QED
    BY <1>1, <1>2, <1>3

LEMMA StepSerial == SerialInv /\ [Next]_vars => SerialInv'
PROOF
  <1> SUFFICES ASSUME SerialInv, [Next]_vars PROVE SerialInv'
    OBVIOUS
  <1>0. TypeOK /\ TypeOK'
    BY StepTyped DEF SerialInv
  <1>a. req \in [Processes -> Request]
    BY <1>0 DEF TypeOK
  <1>1. ASSUME NEW c \in Clients, NEW v \in Values, UpdateRateLimit(c, v) PROVE SerialInv'
    <2> DEFINE r == [at |-> "override", field |-> "rate", stale |-> FALSE,
                     new |-> [config EXCEPT !.rate = v]]
    <2>1. c \in Processes /\ req[c].at # "call" /\ req' = [req EXCEPT ![c] = r]
      BY <1>1 DEF UpdateRateLimit, Arrive, Begin, Processes, Idle
    <2>2. UNCHANGED <<config, serial, raced, seen>>
      BY <1>1 DEF UpdateRateLimit, Arrive, shared, history
    <2>3. r.new.level = config.level
      BY <1>0, ConfigFields DEF TypeOK
    <2> QED
      BY <1>0, <1>a, <2>1, <2>2, <2>3, QuietStep
  <1>2. ASSUME NEW c \in Clients, NEW v \in Values, UpdateLogging(c, v) PROVE SerialInv'
    <2> DEFINE r == [at |-> "store", field |-> "level", stale |-> FALSE,
                     new |-> [config EXCEPT !.level = v]]
    <2>1. c \in Processes /\ req[c].at # "call" /\ req' = [req EXCEPT ![c] = r]
      BY <1>2 DEF UpdateLogging, Arrive, Begin, Processes, Idle
    <2>2. UNCHANGED <<config, serial, raced, seen>>
      BY <1>2 DEF UpdateLogging, Arrive, shared, history
    <2>3. r.new.rate = config.rate
      BY <1>0, ConfigFields DEF TypeOK
    <2> QED
      BY <1>0, <1>a, <2>1, <2>2, <2>3, QuietStep
  <1>3. ASSUME NEW c \in Clients, Reload(c) PROVE SerialInv'
    <2> DEFINE r == [at |-> "read"]
    <2>1. c \in Processes /\ req[c].at # "call" /\ req' = [req EXCEPT ![c] = r]
      BY <1>3 DEF Reload, Arrive, Begin, Processes, Idle
    <2>2. UNCHANGED <<config, serial, raced, seen>>
      BY <1>3 DEF Reload, Arrive, shared, history
    <2> QED
      BY <1>0, <1>a, <2>1, <2>2, QuietStep
  <1>5. ASSUME NEW c \in Clients, Cancel(c) PROVE SerialInv'
    <2>1. c \in Processes /\ req[c].at # "call" /\ req' = [req EXCEPT ![c] = Idle]
      BY <1>5 DEF Cancel, Processes
    <2>2. UNCHANGED <<config, serial, raced, seen>>
      BY <1>5 DEF Cancel, shared, history
    <2> QED
      BY <1>0, <1>a, <2>1, <2>2, QuietStep DEF Idle
  <1>6. ASSUME NEW p \in Processes, ReadFile(p) PROVE SerialInv'
    <2>1. req[p].at # "call" /\ UNCHANGED <<config, serial, raced, seen>>
      BY <1>6 DEF ReadFile, shared
    <2>2. CASE req' = [req EXCEPT ![p] = Idle]
      BY <1>0, <1>a, <2>1, <2>2, QuietStep DEF Idle
    <2>3. CASE req' = [req EXCEPT ![p] = [at |-> "store", field |-> "all", stale |-> FALSE,
                                          new |-> file, read |-> edits]]
      BY <1>0, <1>a, <2>1, <2>3, QuietStep
    <2> QED
      BY <1>6, <2>2, <2>3 DEF ReadFile
  <1>9. ASSUME Tick PROVE SerialInv'
    <2>1. /\ "watch" \in Processes /\ req["watch"].at # "call"
          /\ req' = [req EXCEPT !["watch"] = [at |-> "read"]]
      BY <1>9 DEF Tick, Begin, Processes, Idle
    <2>2. UNCHANGED <<config, serial, raced, seen>>
      BY <1>9 DEF Tick, shared, history
    <2> QED
      BY <1>0, <1>a, <2>1, <2>2, QuietStep
  <1>10. ASSUME UNCHANGED <<config, serial, raced, seen, req>> PROVE SerialInv'
    BY <1>0, <1>10 DEF SerialInv, CloneIsFresh, CallIsFresh, SeenOrCalled
  <1>4. ASSUME NEW c \in Clients, Override(c) PROVE SerialInv'
    <2> DEFINE r == [req[c] EXCEPT !.at = "store"]
    <2>1. c \in Processes /\ req[c].at = "override" /\ req' = [req EXCEPT ![c] = r]
      BY <1>4 DEF Override, Processes
    <2>2. UNCHANGED <<config, serial, raced, seen>>
      BY <1>4 DEF Override, history
    <2>3. r.at = "store" /\ r.field = req[c].field /\ r.stale = req[c].stale /\ r.new = req[c].new
      <3>1. req[c] \in [at : {"override", "store", "call"}, field : {"rate", "level"},
                        stale : BOOLEAN, new : Configs]
        BY <1>a, <2>1 DEF Request, Idle
      <3> QED
        BY <3>1
    <2>4. \A q \in Processes : req'[q] = IF q = c THEN r ELSE req[q]
      BY <2>1, <1>0 DEF TypeOK
    <2>5. CloneIsFresh'
      BY <2>1, <2>2, <2>3, <2>4 DEF SerialInv, CloneIsFresh
    <2>6. CallIsFresh' /\ SeenOrCalled'
      BY <2>1, <2>2, <2>3, <2>4 DEF SerialInv, CallIsFresh, SeenOrCalled
    <2> QED
      BY <1>0, <2>2, <2>5, <2>6 DEF SerialInv
  <1>7. ASSUME NEW p \in Processes, Store(p) PROVE SerialInv'
    <2>1. req[p].at = "store" /\ config' = req[p].new /\ UNCHANGED seen
      BY <1>7 DEF Store
    <2>2. /\ req'[p].at = "call" /\ ~req'[p].stale /\ req'[p].new = req[p].new
          /\ \A q \in Processes \ {p} :
               req'[q].at \in {"override", "store", "call"} => req'[q].stale
      BY <1>7, <1>a, StoreForms
    <2>3. CloneIsFresh'
      BY <2>2 DEF CloneIsFresh
    <2>4. CallIsFresh' /\ SeenOrCalled'
      BY <2>1, <2>2 DEF CallIsFresh, SeenOrCalled
    <2>5. ASSUME ~raced' PROVE config' = serial'
      <3>1. CASE req[p].field = "all"
        BY <1>7, <2>1, <3>1 DEF Store
      <3>2. CASE req[p].field # "all"
        <4>1. ~raced /\ ~req[p].stale
          BY <1>7, <1>0, <2>5, <3>2, RequestForms, <1>a DEF Store, TypeOK
        <4>2. /\ req[p].field = "rate" => req[p].new.level = config.level
              /\ req[p].field = "level" => req[p].new.rate = config.rate
          BY <2>1, <4>1 DEF SerialInv, CloneIsFresh
        <4>3. config = serial /\ config \in Configs /\ req[p].new \in Configs
              /\ req[p].field \in {"rate", "level"}
          BY <1>0, <1>a, <2>1, <3>2, <4>1, RequestForms DEF SerialInv, TypeOK
        <4>4. CASE req[p].field = "rate"
          <5>1. serial' = [serial EXCEPT !["rate"] = req[p].new["rate"]]
            BY <1>7, <4>4 DEF Store
          <5> QED
            BY <2>1, <4>2, <4>3, <4>4, <5>1 DEF Configs
        <4>5. CASE req[p].field = "level"
          <5>1. serial' = [serial EXCEPT !["level"] = req[p].new["level"]]
            BY <1>7, <4>5 DEF Store
          <5> QED
            BY <2>1, <4>2, <4>3, <4>5, <5>1 DEF Configs
        <4> QED
          BY <4>3, <4>4, <4>5
      <3> QED
        BY <3>1, <3>2
    <2> QED
      BY <1>0, <2>3, <2>4, <2>5 DEF SerialInv
  <1>8. ASSUME NEW p \in Processes, Call(p) PROVE SerialInv'
    <2>1. /\ req[p].at = "call" /\ seen' = req[p].new /\ UNCHANGED <<config, serial>>
          /\ raced' = (raced \/ req[p].stale)
      BY <1>8 DEF Call
    <2>2. \A q \in Processes : req'[q] = IF q = p THEN Idle ELSE req[q]
      BY <1>8, <1>0 DEF Call, TypeOK
    <2>3. CloneIsFresh' /\ CallIsFresh'
      BY <2>1, <2>2 DEF SerialInv, CloneIsFresh, CallIsFresh, Idle
    <2>4. SeenOrCalled'
      BY <1>a, <2>1, RequestForms DEF SerialInv, CallIsFresh, SeenOrCalled
    <2>5. ~raced' => ~raced
      BY <2>1
    <2> QED
      BY <1>0, <2>1, <2>3, <2>4, <2>5 DEF SerialInv
  <1> QED
    BY <1>1, <1>2, <1>3, <1>4, <1>5, <1>6, <1>7, <1>8, <1>9, <1>10
       DEF Next, Serve, Finish, Rest, Edit, vars, shared, history

(* Serial: no update is lost (update_config of hot_reload.rs, the updates  *)
(* of management.rs), for any number of requests.                          *)
THEOREM NoLostUpdate == Spec => []Serial
PROOF
  <1>1. Init => SerialInv
    BY InitTyped DEF Init, SerialInv, CloneIsFresh, CallIsFresh, SeenOrCalled, Idle
  <1>2. SerialInv => Serial
    BY DEF SerialInv, SeenOrCalled, Serial, AtRest, Idle
  <1> QED
    BY <1>1, <1>2, StepSerial, PTL DEF Spec

(***************************************************************************)
(* The override.  When it differs from the rate limit in force, a request  *)
(* that has set it is about to store the same rate, unless a reload came.  *)
(***************************************************************************)
ToStore(p) == req[p].at = "store" /\ req[p].field = "rate" /\ req[p].new.rate = override

OverrideBacked ==
  ~raced /\ ~reloaded =>
    override \in {None, config.rate} \/ \E p \in Processes : ToStore(p)

RateStoreBacked ==
  \A p \in Processes :
    req[p].at = "store" /\ req[p].field = "rate" /\ ~req[p].stale =>
      \E q \in Processes : ToStore(q)

OverrideInv == OverrideBacked /\ RateStoreBacked

(* A step by which one request goes on that has not set the override. *)
LEMMA QuietOverride ==
  ASSUME OverrideInv, NEW p \in Processes,
         \A q \in Processes \ {p} : req'[q] = req[q],
         UNCHANGED <<config, override, raced, reloaded>>,
         req[p].at = "store" => req[p].field # "rate",
         req'[p].at = "store" => req'[p].field # "rate"
  PROVE  OverrideInv'
PROOF
  <1>1. \A q \in Processes : ToStore(q) <=> ToStore(q)'
    BY DEF ToStore
  <1> QED
    BY <1>1 DEF OverrideInv, OverrideBacked, RateStoreBacked

LEMMA StepOverride == SerialInv /\ OverrideInv /\ [Next]_vars => OverrideInv'
PROOF
  <1> SUFFICES ASSUME SerialInv, OverrideInv, [Next]_vars PROVE OverrideInv'
    OBVIOUS
  <1>0. req \in [Processes -> Request]
    BY DEF SerialInv, TypeOK
  <1>1. ASSUME NEW c \in Clients, NEW r, Arrive(c, r), r.at = "store" => r.field # "rate"
        PROVE  OverrideInv'
    <2>1. /\ c \in Processes /\ req[c].at # "store" /\ req' = [req EXCEPT ![c] = r]
          /\ UNCHANGED <<config, override, raced, reloaded>>
      BY <1>1 DEF Arrive, Begin, Processes, Idle, shared, history
    <2> QED
      BY <1>0, <1>1, <2>1, QuietOverride
  <1>2. ASSUME NEW c \in Clients, NEW v \in Values,
               UpdateRateLimit(c, v) \/ UpdateLogging(c, v)
        PROVE  OverrideInv'
    BY <1>1, <1>2 DEF UpdateRateLimit, UpdateLogging
  <1>3. ASSUME NEW c \in Clients, Reload(c) PROVE OverrideInv'
    BY <1>1, <1>3 DEF Reload
  <1>4. ASSUME NEW c \in Clients, Override(c) PROVE OverrideInv'
    <2>1. /\ c \in Processes /\ req[c].at = "override" /\ override' = req[c].new.rate
          /\ req'[c] = [req[c] EXCEPT !.at = "store"]
      BY <1>0, <1>4 DEF Override, Processes
    <2>2. req[c] \in [at : {"override", "store", "call"}, field : {"rate", "level"},
                      stale : BOOLEAN, new : Configs]
      BY <1>0, <2>1 DEF Request, Idle
    <2>3. req[c].field = "rate"
      BY <2>1 DEF SerialInv, TypeOK
    <2>4. ToStore(c)'
      BY <2>1, <2>2, <2>3 DEF ToStore
    <2> QED
      BY <2>1, <2>4 DEF OverrideInv, OverrideBacked, RateStoreBacked
  <1>5. ASSUME NEW c \in Clients, Cancel(c) PROVE OverrideInv'
    <2>1. /\ c \in Processes /\ req[c].at # "store" /\ req' = [req EXCEPT ![c] = Idle]
          /\ UNCHANGED <<config, override, raced, reloaded>>
      BY <1>5 DEF Cancel, Processes, shared, history
    <2> QED
      BY <1>0, <2>1, QuietOverride DEF Idle
  <1>6. ASSUME NEW p \in Processes, ReadFile(p) PROVE OverrideInv'
    <2>1. req[p].at # "store" /\ UNCHANGED <<config, override, raced, reloaded>>
      BY <1>6 DEF ReadFile, shared
    <2>2. CASE req' = [req EXCEPT ![p] = Idle]
      BY <1>0, <2>1, <2>2, QuietOverride DEF Idle
    <2>3. CASE req' = [req EXCEPT ![p] = [at |-> "store", field |-> "all", stale |-> FALSE,
                                          new |-> file, read |-> edits]]
      BY <1>0, <2>1, <2>3, QuietOverride
    <2> QED
      BY <1>6, <2>2, <2>3 DEF ReadFile
  <1>7. ASSUME NEW p \in Processes, Store(p) PROVE OverrideInv'
    <2>1. /\ req[p].at = "store" /\ config' = req[p].new /\ UNCHANGED override
          /\ raced' = (raced \/ (req[p].stale /\ req[p].field # "all"))
      BY <1>7 DEF Store
    <2>2. /\ req'[p].at = "call"
          /\ \A q \in Processes \ {p} :
               /\ req'[q].at = "store" => req'[q].stale
               /\ ToStore(q) => ToStore(q)'
      BY <1>0, <1>7, <2>1, StoreForms DEF ToStore
    <2>3. RateStoreBacked'
      BY <2>2 DEF RateStoreBacked
    <2>4. ASSUME ~raced', ~reloaded'
          PROVE  override' \in {None, config'.rate} \/ \E q \in Processes : ToStore(q)'
      <3>1. /\ req[p].field \in {"rate", "level"} /\ ~req[p].stale /\ ~raced
            /\ req[p].field = "level" => ~reloaded
        <4>1. req[p].field \in {"rate", "level", "all"} /\ req[p].stale \in BOOLEAN
          BY <1>0, <2>1, RequestForms
        <4>2. req[p].field # "all"
          BY <1>7, <2>4 DEF Store
        <4>3. ~raced /\ ~req[p].stale
          BY <2>1, <2>4, <4>2
        <4>4. reloaded' = (reloaded /\ req[p].field # "rate")
          BY <1>7, <4>2 DEF Store
        <4> QED
          BY <2>4, <4>1, <4>2, <4>3, <4>4
      <3>2. CASE req[p].field = "rate"
        <4>1. PICK q \in Processes : ToStore(q)
          BY <2>1, <3>1, <3>2 DEF OverrideInv, RateStoreBacked
        <4> QED
          BY <2>1, <2>2, <4>1 DEF ToStore
      <3>3. CASE req[p].field = "level"
        <4>1. req[p].new.rate = config.rate
          BY <2>1, <3>1, <3>3 DEF SerialInv, CloneIsFresh
        <4>2. \A q \in Processes : ToStore(q) => ToStore(q)'
          BY <2>2, <3>3 DEF ToStore
        <4> QED
          BY <2>1, <3>1, <3>3, <4>1, <4>2 DEF OverrideInv, OverrideBacked
      <3> QED
        BY <3>1, <3>2, <3>3
    <2> QED
      BY <2>3, <2>4 DEF OverrideInv, OverrideBacked
  <1>8. ASSUME NEW p \in Processes, Call(p) PROVE OverrideInv'
    <2>1. /\ req[p].at = "call" /\ req' = [req EXCEPT ![p] = Idle]
          /\ UNCHANGED <<config, override, reloaded>> /\ (~raced' => ~raced)
      BY <1>8 DEF Call
    <2>2. \A q \in Processes : ToStore(q) <=> ToStore(q)'
      BY <1>0, <2>1 DEF ToStore, Idle
    <2>3. \A q \in Processes : req'[q].at = "store" => req'[q] = req[q]
      BY <1>0, <2>1 DEF Idle
    <2> QED
      BY <2>1, <2>2, <2>3 DEF OverrideInv, OverrideBacked, RateStoreBacked
  <1>9. ASSUME Tick PROVE OverrideInv'
    <2>1. /\ "watch" \in Processes /\ req["watch"].at # "store"
          /\ req' = [req EXCEPT !["watch"] = [at |-> "read"]]
          /\ UNCHANGED <<config, override, raced, reloaded>>
      BY <1>9 DEF Tick, Begin, Processes, Idle, shared, history
    <2> QED
      BY <1>0, <2>1, QuietOverride
  <1>10. ASSUME UNCHANGED <<config, override, raced, reloaded, req>> PROVE OverrideInv'
    BY <1>10 DEF OverrideInv, OverrideBacked, RateStoreBacked, ToStore
  <1> QED
    BY <1>2, <1>3, <1>4, <1>5, <1>6, <1>7, <1>8, <1>9, <1>10
       DEF Next, Serve, Finish, Rest, Edit, vars, shared, history

(* OverrideFollows: the override and the rate limit in force agree at rest *)
(* (update_rate_limit of management.rs), for any number of requests.       *)
THEOREM OverrideAgrees == Spec => []OverrideFollows
PROOF
  <1>1. Init => SerialInv /\ OverrideInv
    BY InitTyped DEF Init, SerialInv, CloneIsFresh, CallIsFresh, SeenOrCalled, Idle,
       OverrideInv, OverrideBacked, RateStoreBacked
  <1>2. OverrideInv => OverrideFollows
    BY DEF OverrideInv, OverrideBacked, ToStore, OverrideFollows, AtRest, Idle
  <1> QED
    BY <1>1, <1>2, StepSerial, StepOverride, PTL DEF Spec
================================================================================
