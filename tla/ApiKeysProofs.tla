------------------------------ MODULE ApiKeysProofs ------------------------------
(***************************************************************************)
(* Proofs about ApiKeys, for any number of requests, workspaces, keys and  *)
(* rotations.                                                              *)
(***************************************************************************)
EXTENDS ApiKeys, TLAPS

LEMMA RowsAreKeys == \A r \in Row : r # NoKey
PROOF
  <1> SUFFICES ASSUME NEW r \in Row, r = NoKey PROVE FALSE
    OBVIOUS
  <1>1. DOMAIN r = {"ws", "secret", "enabled"} /\ DOMAIN NoKey = {"ws"}
    BY DEF Row, NoKey
  <1> QED
    BY <1>1

LEMMA NewRow == \A w \in Workspaces : [ws |-> w, secret |-> 0, enabled |-> TRUE] \in Row
  BY KeyAssumption DEF Row, KeyAssumption

LEMMA RowChanged ==
  ASSUME NEW r \in Row
  PROVE  /\ [r EXCEPT !.enabled = FALSE] \in Row
         /\ r.secret < MaxRotations => [r EXCEPT !.secret = @ + 1] \in Row
PROOF
  <1>1. r.secret \in 0..MaxRotations
    BY DEF Row
  <1>2. r.secret < MaxRotations => r.secret + 1 \in 0..MaxRotations
    BY <1>1, KeyAssumption DEF KeyAssumption
  <1> QED
    BY <1>2 DEF Row

(* What a request of each kind carries. *)
LEMMA RequestForms ==
  ASSUME NEW r \in Request
  PROVE  /\ r.at \in {"idle", "insert", "delete", "touch"}
         /\ r.at = "idle" <=> r = Idle
         /\ r.at = "insert" => r \in [at : {"insert"}, ws : Workspaces]
         /\ r.at = "delete" => r \in [at : {"delete"}, ws : Workspaces, todo : (SUBSET Keys) \ {{}}]
         /\ r.at = "touch" => r \in [at : {"touch"}, key : Keys, row : Row]
  BY DEF Request, Idle

LEMMA DeleteForm ==
  ASSUME NEW w \in Workspaces, NEW T, T \subseteq Keys, T # {}
  PROVE  [at |-> "delete", ws |-> w, todo |-> T] \in Request
  BY DEF Request

LEMMA InitTyped == Init => TypeOK
PROOF
  <1> SUFFICES ASSUME Init PROVE TypeOK
    OBVIOUS
  <1>1. rows \in 0..MaxKeys
    BY KeyAssumption DEF Init, KeyAssumption
  <1>2. Present = {}
    BY DEF Init, Present
  <1> QED
    BY <1>1, <1>2 DEF Init, TypeOK, Request

LEMMA StepTyped == TypeOK /\ [Next]_vars => TypeOK'
PROOF
  <1> SUFFICES ASSUME TypeOK, [Next]_vars PROVE TypeOK'
    OBVIOUS
  <1> USE DEF TypeOK
  <1>1. ASSUME NEW c \in Clients, NEW w \in Workspaces, CreateWorkspace(c, w) PROVE TypeOK'
    BY <1>1 DEF CreateWorkspace, Start, Request, Present, age, Making
  <1>2. ASSUME NEW c \in Clients, NEW w \in Workspaces, CreateKey(c, w) PROVE TypeOK'
    BY <1>2 DEF CreateKey, Start, Request, Present, age, table
  <1>3. ASSUME NEW c \in Clients, NEW w \in Workspaces, Regenerate(c, w) PROVE TypeOK'
    <2>1. KeysOf(w) # {} =>
            [at |-> "delete", ws |-> w, todo |-> KeysOf(w)] \in Request
      BY DeleteForm DEF KeysOf, Present
    <2> QED
      BY <1>3, <2>1 DEF Regenerate, Start, Request, Present, age, table
  <1>4. ASSUME NEW c \in Clients, Delete(c) PROVE TypeOK'
    <2>1. req[c] \in [at : {"delete"}, ws : Workspaces, todo : (SUBSET Keys) \ {{}}]
      BY <1>4, RequestForms DEF Delete
    <2>2. PICK k \in req[c].todo :
            IF k \in Present
            THEN LET rest == req[c].todo \ {k} IN
                 /\ key' = [key EXCEPT ![k] = NoKey]
                 /\ req' = [req EXCEPT ![c] = IF rest = {} THEN [at |-> "insert", ws |-> @.ws]
                                              ELSE [@ EXCEPT !.todo = rest]]
            ELSE req' = [req EXCEPT ![c] = Idle] /\ UNCHANGED key
      BY <1>4 DEF Delete
    <2>3. req'[c] \in Request /\ req' = [req EXCEPT ![c] = req'[c]]
      <3>1. CASE k \in Present /\ req[c].todo \ {k} = {}
        BY <2>1, <2>2, <3>1 DEF Request
      <3>2. CASE k \in Present /\ req[c].todo \ {k} # {}
        <4>1. req'[c] = [req[c] EXCEPT !.todo = req[c].todo \ {k}]
          BY <2>2, <3>2
        <4>2. req'[c] \in [at : {"delete"}, ws : Workspaces, todo : (SUBSET Keys) \ {{}}]
          BY <2>1, <3>2, <4>1
        <4> QED
          BY <2>2, <3>2, <4>2 DEF Request
      <3>3. CASE k \notin Present
        BY <2>2, <3>3 DEF Request
      <3> QED
        BY <3>1, <3>2, <3>3
    <2>4. key' \in [Keys -> Row \cup {NoKey}] /\ Present' \subseteq Present
      BY <2>1, <2>2 DEF Present
    <2> QED
      BY <1>4, <2>3, <2>4 DEF Delete, age, history
  <1>5. ASSUME NEW c \in Clients, Insert(c) PROVE TypeOK'
    <2>1. req[c].ws \in Workspaces
      BY <1>5, RequestForms DEF Insert
    <2>2. rows' \in 0..MaxKeys /\ rows' = rows + 1 /\ rows + 1 \in Keys
      BY <1>5, KeyAssumption DEF Insert, Keys, KeyAssumption
    <2>3. key' \in [Keys -> Row \cup {NoKey}] /\ Present' \subseteq Present \cup {rows + 1}
      BY <1>5, <2>1, <2>2, NewRow DEF Insert, Present
    <2>4. 1..rows \cup {rows + 1} \subseteq 1..rows'
      BY <2>2
    <2>5. req' \in [Clients -> Request]
      BY <1>5 DEF Insert, Request
    <2>6. doubled' \subseteq Workspaces
      <3>1. doubled' \subseteq doubled \cup {req[c].ws}
        BY <1>5 DEF Insert
      <3> QED
        BY <2>1, <3>1
    <2> QED
      BY <1>5, <2>2, <2>3, <2>4, <2>5, <2>6 DEF Insert, age
  <1>6. ASSUME NEW c \in Clients, NEW k \in Keys, Revoke(c, k) PROVE TypeOK'
    <2>1. key[k] \in Row
      BY <1>6 DEF Revoke, Present
    <2>2. key[k].ws \in Workspaces
      BY <2>1 DEF Row
    <2> QED
      BY <1>6, <2>2 DEF Revoke, Present, age
  <1>7. ASSUME NEW c \in Clients, NEW k \in Keys, Disable(c, k) PROVE TypeOK'
    BY <1>7 DEF Disable, Present, age, history, Row
  <1>8. ASSUME NEW c \in Clients, NEW k \in Keys, Rotate(c, k) PROVE TypeOK'
    BY <1>8, RowChanged DEF Rotate, NewSecret, Present, age, history
  <1>9. ASSUME NEW c \in Clients, NEW k \in Keys, Validate(c, k) PROVE TypeOK'
    BY <1>9 DEF Validate, Present, age, history, table, Request
  <1>10. ASSUME NEW c \in Clients, Touch(c) \/ CutShort(c) PROVE TypeOK'
    BY <1>10 DEF Touch, CutShort, Present, age, history, table, Request
  <1>11. CASE FindOld
    BY <1>11 DEF FindOld, Present, age, history, table
  <1>12. CASE RotateOld
    BY <1>12, RowChanged DEF RotateOld, NewSecret, Present, age, history
  <1>13. ASSUME NEW k \in Present, Age(k) PROVE TypeOK'
    BY <1>13 DEF Age, Present, table, history
  <1>14. CASE UNCHANGED vars
    BY <1>14 DEF vars, table, age, history, Present
  <1> QED
    BY <1>1, <1>2, <1>3, <1>4, <1>5, <1>6, <1>7, <1>8, <1>9, <1>10, <1>11, <1>12, <1>13, <1>14
       DEF Next, Serve

(* The range of each variable is kept. *)
THEOREM TypeCorrect == Spec => []TypeOK
  BY InitTyped, StepTyped, PTL DEF Spec

--------------------------------------------------------------------------------
(* What is deleted stays deleted, what is disabled stays disabled, and an  *)
(* old secret never comes back: keys are numbered by rows, which only      *)
(* grows, and no statement writes a row that was read before.              *)
THEOREM Revoked == Spec => RevokedStays
PROOF
  <1>1. ASSUME TypeOK, [Next]_vars, NEW k \in 1..rows
        PROVE  /\ key[k] = NoKey => key'[k] = NoKey
               /\ key[k] # NoKey /\ key'[k] # NoKey =>
                    key'[k].secret >= key[k].secret /\ (key'[k].enabled => key[k].enabled)
    <2> USE <1>1
    <2>1. k \in Keys /\ rows \in Nat
      BY KeyAssumption DEF TypeOK, Keys, KeyAssumption
    <2>2. key[k] # NoKey => key[k] \in Row /\ key[k].secret \in Int
      BY <2>1, KeyAssumption DEF TypeOK, Row, KeyAssumption
    <2>3. CASE key'[k] = key[k] \/ (key[k] # NoKey /\ key'[k] = NoKey)
      BY <2>2, <2>3
    <2>4. ASSUME NEW c \in Clients, Insert(c) PROVE key'[k] = key[k]
      BY <2>1, <2>4 DEF Insert, TypeOK
    <2>5. ASSUME NEW c \in Clients, NEW j \in Keys, Disable(c, j), key'[k] # key[k]
          PROVE  key[k] # NoKey /\ key'[k] = [key[k] EXCEPT !.enabled = FALSE]
      BY <2>1, <2>5 DEF Disable, Present, TypeOK
    <2>6. ASSUME NEW j \in Present, NewSecret(j), key'[k] # key[k]
          PROVE  key[k] # NoKey /\ key'[k] = [key[k] EXCEPT !.secret = @ + 1]
      BY <2>1, <2>6 DEF NewSecret, Present, TypeOK
    <2>7. CASE \E c \in Clients, j \in Keys : Disable(c, j)
      BY <2>2, <2>3, <2>5, <2>7 DEF Row
    <2>8. CASE \E j \in Present : NewSecret(j)
      BY <2>2, <2>3, <2>6, <2>8 DEF Row
    <2>9. ASSUME NEW c \in Clients, Delete(c)
          PROVE  key'[k] = key[k] \/ (key[k] # NoKey /\ key'[k] = NoKey)
      BY <2>1, <2>9 DEF Delete, Present, TypeOK
    <2>10. ASSUME NEW c \in Clients, NEW j \in Keys, Revoke(c, j)
           PROVE  key'[k] = key[k] \/ (key[k] # NoKey /\ key'[k] = NoKey)
      BY <2>1, <2>10 DEF Revoke, Present, TypeOK
    <2>11. ASSUME NEW c \in Clients, NEW w \in Workspaces,
                  CreateWorkspace(c, w) \/ CreateKey(c, w) \/ Regenerate(c, w)
           PROVE  key' = key
      BY <2>11 DEF CreateWorkspace, CreateKey, Regenerate, table
    <2>12. ASSUME NEW c \in Clients, NEW j \in Keys, Validate(c, j) PROVE key' = key
      BY <2>12 DEF Validate, table
    <2>13. ASSUME NEW c \in Clients, NEW j \in Keys, Rotate(c, j)
           PROVE  \E i \in Present : NewSecret(i)
      BY <2>13 DEF Rotate
    <2>14. RotateOld => key' = key \/ \E j \in Present : NewSecret(j)
      BY DEF RotateOld
    <2>15. FindOld \/ (\E j \in Present : Age(j)) \/ UNCHANGED vars => key' = key
      BY DEF FindOld, Age, table, vars
    <2>16. ASSUME NEW c \in Clients, Touch(c) \/ CutShort(c) PROVE key' = key
      BY <2>16 DEF Touch, CutShort, table
    <2> QED
      BY <2>3, <2>4, <2>7, <2>8, <2>9, <2>10, <2>11, <2>12, <2>13, <2>14, <2>15, <2>16
         DEF Next, Serve
  <1>2. TypeOK /\ [Next]_vars =>
          [\A k \in 1..rows :
             /\ key[k] = NoKey => key'[k] = NoKey
             /\ key[k] # NoKey /\ key'[k] # NoKey =>
                  key'[k].secret >= key[k].secret /\ (key'[k].enabled => key[k].enabled)]_vars
    BY <1>1
  <1> QED
    BY <1>2, InitTyped, StepTyped, PTL DEF Spec, RevokedStays

--------------------------------------------------------------------------------
(* Who is making a key for a workspace, what it knows, and what is there.  *)

InWorkspaces ==
  /\ \A k \in Present : key[k].ws \in workspaces
  /\ \A c \in Clients : req[c].at \in {"insert", "delete"} => req[c].ws \in workspaces

OneMaker == \A w \in Workspaces \ overlapped : \A c, d \in Making(w) : c = d

(* Nobody else has given the workspace a key since the one that makes one  *)
(* looked.                                                                 *)
MakerKnows ==
  \A w \in Workspaces \ overlapped : \A c \in Making(w) :
    KeysOf(w) \subseteq (IF req[c].at = "insert" THEN {} ELSE req[c].todo)

KeyInv == TypeOK /\ InWorkspaces /\ OneMaker /\ MakerKnows /\ OneKey

(* Steps that make no key and delete none. *)
LEMMA QuietKeeps ==
  ASSUME KeyInv, TypeOK', [Next]_vars,
         workspaces' = workspaces, overlapped' = overlapped,
         \A k \in Keys : /\ key'[k] = NoKey <=> key[k] = NoKey
                         /\ key[k] # NoKey => key'[k].ws = key[k].ws,
         \A c \in Clients :
           req'[c] = req[c] \/ req'[c].at \notin {"insert", "delete"}
  PROVE  KeyInv'
PROOF
  <1>1. Present' = Present /\ \A w : KeysOf(w)' = KeysOf(w)
    BY DEF Present, KeysOf
  <1>2. \A w : Making(w)' \subseteq Making(w)
    BY DEF Making
  <1>3. \A w : \A c \in Making(w)' : req'[c] = req[c]
    BY DEF Making
  <1>4. InWorkspaces'
    BY <1>1 DEF KeyInv, InWorkspaces, Present
  <1>5. OneMaker' /\ OneKey'
    BY <1>1, <1>2 DEF KeyInv, OneMaker, OneKey
  <1>6. MakerKnows'
    BY <1>1, <1>2, <1>3 DEF KeyInv, MakerKnows
  <1> QED
    BY <1>4, <1>5, <1>6 DEF KeyInv

(* A request begins to make a key. *)
LEMMA StartKeeps ==
  ASSUME KeyInv, TypeOK', NEW c \in Clients, NEW w \in Workspaces, NEW r,
         Start(c, w, r), req[c] = Idle, key' = key,
         r.at \in {"insert", "delete"}, r.ws = w, w \in workspaces', workspaces \subseteq workspaces',
         KeysOf(w) \subseteq (IF r.at = "insert" THEN {} ELSE r.todo)
  PROVE  KeyInv'
PROOF
  <1>1. Present' = Present /\ \A v : KeysOf(v)' = KeysOf(v)
    BY DEF Present, KeysOf
  <1>2. req'[c] = r /\ \A d \in Clients \ {c} : req'[d] = req[d]
    BY DEF Start, KeyInv, TypeOK
  <1>3. \A v : v # w => Making(v)' = Making(v) /\ c \notin Making(v)
    BY <1>2 DEF Making, Idle
  <1>4. w \notin overlapped' => Making(w)' = {c}
    BY <1>2 DEF Making, Start
  <1>5. overlapped \subseteq overlapped'
    BY DEF Start
  <1>6. InWorkspaces'
    BY <1>1, <1>2 DEF KeyInv, InWorkspaces
  <1>7. OneMaker' /\ OneKey'
    BY <1>1, <1>3, <1>4, <1>5 DEF KeyInv, OneMaker, OneKey
  <1>8. MakerKnows'
    <2> SUFFICES ASSUME NEW v \in Workspaces \ overlapped', NEW d \in Making(v)'
                 PROVE  KeysOf(v) \subseteq (IF req'[d].at = "insert" THEN {} ELSE req'[d].todo)
      BY <1>1 DEF MakerKnows
    <2>1. CASE v = w
      BY <1>2, <1>4, <2>1
    <2>2. CASE v # w
      BY <1>2, <1>3, <1>5, <2>2 DEF KeyInv, MakerKnows, Making
    <2> QED
      BY <2>1, <2>2
  <1> QED
    BY <1>6, <1>7, <1>8 DEF KeyInv

(* A key is deleted, by a request that goes on or by none that makes one. *)
LEMMA DeletionKeeps ==
  ASSUME KeyInv, TypeOK', workspaces' = workspaces, overlapped' = overlapped,
         NEW k \in Present, key' = [key EXCEPT ![k] = NoKey],
         NEW c \in Clients, \A d \in Clients \ {c} : req'[d] = req[d],
         \/ req'[c] = req[c]
         \/ /\ req[c].at = "delete" /\ req'[c].ws = req[c].ws
            /\ \/ req'[c].at = "insert" /\ req[c].todo = {k}
               \/ req'[c].at = "delete" /\ req'[c].todo = req[c].todo \ {k}
  PROVE  KeyInv'
PROOF
  <1>1. Present' = Present \ {k} /\ \A w : KeysOf(w)' = KeysOf(w) \ {k}
    BY DEF Present, KeysOf, KeyInv, TypeOK
  <1>2. \A w : Making(w)' = Making(w)
    BY DEF Making
  <1>3. InWorkspaces'
    BY <1>1 DEF KeyInv, InWorkspaces, Present, TypeOK
  <1>4. OneMaker' /\ OneKey'
    BY <1>1, <1>2 DEF KeyInv, OneMaker, OneKey
  <1>5. MakerKnows'
    <2> SUFFICES ASSUME NEW w \in Workspaces \ overlapped, NEW d \in Making(w)
                 PROVE  KeysOf(w) \ {k} \subseteq (IF req'[d].at = "insert" THEN {} ELSE req'[d].todo)
      BY <1>1, <1>2 DEF MakerKnows
    <2>1. KeysOf(w) \subseteq (IF req[d].at = "insert" THEN {} ELSE req[d].todo)
      BY DEF KeyInv, MakerKnows
    <2>2. d \in Clients
      BY DEF Making
    <2> QED
      BY <2>1, <2>2
  <1> QED
    BY <1>3, <1>4, <1>5 DEF KeyInv

LEMMA InsertKeeps ==
  ASSUME KeyInv, TypeOK', NEW c \in Clients, Insert(c) PROVE KeyInv'
PROOF
  <1> PICK u : u = req[c].ws
    OBVIOUS
  <1>1. c \in Making(u) /\ u \in workspaces /\ u \in Workspaces
    BY DEF Insert, Making, KeyInv, InWorkspaces, TypeOK
  <1>2. rows + 1 \in Keys /\ rows + 1 \notin Present
    BY KeyAssumption DEF Insert, Keys, KeyInv, TypeOK, KeyAssumption
  <1>3. key' = [key EXCEPT ![rows + 1] = [ws |-> u, secret |-> 0, enabled |-> TRUE]]
    BY DEF Insert
  <1>4. key'[rows + 1].ws = u /\ key'[rows + 1] # NoKey
    BY <1>1, <1>2, <1>3, RowsAreKeys, NewRow DEF KeyInv, TypeOK
  <1>5. \A k \in Keys \ {rows + 1} : key'[k] = key[k]
    BY <1>2, <1>3 DEF KeyInv, TypeOK
  <1>6. Present' = Present \cup {rows + 1}
    BY <1>2, <1>4, <1>5 DEF Present
  <1>7. \A w : KeysOf(w)' = IF w = u THEN KeysOf(w) \cup {rows + 1} ELSE KeysOf(w)
    BY <1>2, <1>4, <1>5, <1>6 DEF KeysOf, Present
  <1>8. \A w : Making(w)' = Making(w) \ {c}
    BY DEF Making, Insert, Idle, KeyInv, TypeOK
  <1>9. \A d \in Clients \ {c} : req'[d] = req[d]
    BY DEF Insert, KeyInv, TypeOK
  <1>10. InWorkspaces'
    BY <1>1, <1>4, <1>5, <1>6, <1>9 DEF KeyInv, InWorkspaces, Insert, Present, Idle, TypeOK
  <1>11. OneMaker'
    BY <1>8 DEF KeyInv, OneMaker, Insert
  <1>12. u \notin overlapped => KeysOf(u) = {} /\ Making(u)' = {}
    BY <1>1, <1>8 DEF KeyInv, MakerKnows, OneMaker, Insert
  <1>13. OneKey'
    BY <1>7, <1>12 DEF KeyInv, OneKey, Insert
  <1>14. MakerKnows'
    <2> SUFFICES ASSUME NEW w \in Workspaces \ overlapped, NEW d \in Making(w)'
                 PROVE  KeysOf(w)' \subseteq (IF req'[d].at = "insert" THEN {} ELSE req'[d].todo)
      BY DEF MakerKnows, Insert
    <2>1. w # u
      BY <1>12
    <2>2. d \in Making(w) /\ req'[d] = req[d]
      BY <1>8, <1>9 DEF Making
    <2> QED
      BY <1>7, <2>1, <2>2 DEF KeyInv, MakerKnows
  <1> QED
    BY <1>10, <1>11, <1>13, <1>14 DEF KeyInv

(* The three ways of Delete. *)
LEMMA DeleteForms ==
  ASSUME TypeOK, NEW c \in Clients, Delete(c)
  PROVE  /\ req[c].at = "delete" /\ req[c].ws \in Workspaces
         /\ \A d \in Clients \ {c} : req'[d] = req[d]
         /\ \/ key' = key /\ req'[c] = Idle
            \/ /\ req'[c].ws = req[c].ws
               /\ \E k \in req[c].todo \cap Present :
                    /\ key' = [key EXCEPT ![k] = NoKey]
                    /\ \/ req'[c].at = "insert" /\ req[c].todo = {k}
                       \/ /\ req'[c].at = "delete" /\ req'[c].todo = req[c].todo \ {k}
                          /\ req[c].todo # {k}
PROOF
  <1>1. PICK k \in req[c].todo :
          IF k \in Present
          THEN LET rest == req[c].todo \ {k} IN
               /\ key' = [key EXCEPT ![k] = NoKey]
               /\ req' = [req EXCEPT ![c] = IF rest = {} THEN [at |-> "insert", ws |-> @.ws]
                                            ELSE [@ EXCEPT !.todo = rest]]
          ELSE req' = [req EXCEPT ![c] = Idle] /\ UNCHANGED key
    BY DEF Delete
  <1>2. req[c] \in [at : {"delete"}, ws : Workspaces, todo : (SUBSET Keys) \ {{}}]
    BY RequestForms DEF Delete, TypeOK
  <1>3. \A d \in Clients \ {c} : req'[d] = req[d]
    BY <1>1 DEF TypeOK
  <1>4. CASE k \in Present /\ req[c].todo \ {k} = {}
    <2>1. req'[c] = [at |-> "insert", ws |-> req[c].ws] /\ req[c].todo = {k}
      BY <1>1, <1>4 DEF TypeOK
    <2> QED
      BY <1>1, <1>2, <1>3, <1>4, <2>1
  <1>5. CASE k \in Present /\ req[c].todo \ {k} # {}
    <2>1. req'[c] = [req[c] EXCEPT !.todo = req[c].todo \ {k}]
      BY <1>1, <1>5 DEF TypeOK
    <2>2. req'[c].at = "delete" /\ req'[c].ws = req[c].ws /\ req'[c].todo = req[c].todo \ {k}
      BY <1>2, <2>1
    <2> QED
      BY <1>1, <1>2, <1>3, <1>5, <2>2
  <1>6. CASE k \notin Present
    BY <1>1, <1>2, <1>3, <1>6 DEF TypeOK
  <1> QED
    BY <1>4, <1>5, <1>6

(* What no step but those that make or delete a key changes. *)
LEMMA QuietForms ==
  ASSUME TypeOK, NEW j \in Present, key' = [key EXCEPT ![j].enabled = FALSE] \/ NewSecret(j)
  PROVE  \A k \in Keys : /\ key'[k] = NoKey <=> key[k] = NoKey
                         /\ key[k] # NoKey => key'[k].ws = key[k].ws
PROOF
  <1>1. key[j] \in Row /\ j \in Keys
    BY DEF TypeOK, Present
  <1>2. \/ key'[j] = [key[j] EXCEPT !.enabled = FALSE]
        \/ key[j].secret < MaxRotations /\ key'[j] = [key[j] EXCEPT !.secret = @ + 1]
    BY <1>1 DEF NewSecret, TypeOK
  <1>3. key'[j] \in Row /\ key'[j].ws = key[j].ws
    BY <1>1, <1>2, RowChanged DEF Row
  <1>4. \A k \in Keys \ {j} : key'[k] = key[k]
    BY DEF NewSecret, TypeOK
  <1> QED
    BY <1>1, <1>3, <1>4, RowsAreKeys

LEMMA StepKeeps == KeyInv /\ [Next]_vars => KeyInv'
PROOF
  <1> SUFFICES ASSUME KeyInv, [Next]_vars PROVE KeyInv'
    OBVIOUS
  <1>0. TypeOK'
    BY StepTyped DEF KeyInv
  <1> USE <1>0
  <1>1. ASSUME NEW c \in Clients, NEW w \in Workspaces, CreateWorkspace(c, w) PROVE KeyInv'
    <2>1. KeysOf(w) = {}
      BY <1>1 DEF CreateWorkspace, KeysOf, KeyInv, InWorkspaces
    <2> QED
      BY <1>1, <2>1, StartKeeps DEF CreateWorkspace
  <1>2. ASSUME NEW c \in Clients, NEW w \in Workspaces, CreateKey(c, w) PROVE KeyInv'
    BY <1>2, StartKeeps DEF CreateKey, table
  <1>3. ASSUME NEW c \in Clients, NEW w \in Workspaces, Regenerate(c, w) PROVE KeyInv'
    <2>1. CASE KeysOf(w) = {}
      BY <1>3, <2>1, StartKeeps DEF Regenerate, table
    <2>2. CASE KeysOf(w) # {}
      BY <1>3, <2>2, StartKeeps DEF Regenerate, table
    <2> QED
      BY <2>1, <2>2
  <1>4. ASSUME NEW c \in Clients, Delete(c) PROVE KeyInv'
    <2>1. TypeOK /\ UNCHANGED <<workspaces, overlapped>>
      BY <1>4 DEF Delete, history, KeyInv
    <2>2. CASE key' = key /\ req'[c] = Idle
      BY <1>4, <2>1, <2>2, DeleteForms, QuietKeeps DEF Idle
    <2>3. CASE key' # key \/ req'[c] # Idle
      BY <1>4, <2>1, <2>3, DeleteForms, DeletionKeeps
    <2> QED
      BY <2>2, <2>3
  <1>5. ASSUME NEW c \in Clients, Insert(c) PROVE KeyInv'
    BY <1>5, InsertKeeps
  <1>6. ASSUME NEW c \in Clients, NEW k \in Keys, Revoke(c, k) PROVE KeyInv'
    BY <1>6, DeletionKeeps DEF Revoke
  <1>7. TypeOK
    BY DEF KeyInv
  <1>8. ASSUME NEW c \in Clients, NEW k \in Keys, Disable(c, k) \/ Rotate(c, k) PROVE KeyInv'
    BY <1>7, <1>8, QuietForms, QuietKeeps DEF Disable, Rotate, history
  <1>9. ASSUME NEW c \in Clients, NEW k \in Keys, Validate(c, k) PROVE KeyInv'
    BY <1>9, QuietKeeps DEF Validate, table, history, KeyInv, TypeOK
  <1>10. ASSUME NEW c \in Clients, Touch(c) \/ CutShort(c) PROVE KeyInv'
    BY <1>10, QuietKeeps DEF Touch, CutShort, table, history, Idle, KeyInv, TypeOK
  <1>11. CASE FindOld \/ (\E k \in Present : Age(k)) \/ UNCHANGED vars
    BY <1>11, QuietKeeps DEF FindOld, Age, table, history, vars
  <1>12. CASE RotateOld
    <2>1. key' = key \/ \E j \in Present : NewSecret(j)
      BY <1>12 DEF RotateOld
    <2> QED
      BY <1>7, <1>12, <2>1, QuietForms, QuietKeeps DEF RotateOld, history
  <1> QED
    BY <1>1, <1>2, <1>3, <1>4, <1>5, <1>6, <1>8, <1>9, <1>10, <1>11, <1>12 DEF Next, Serve

(* A workspace has one user key at most unless two requests made one for   *)
(* it at a time: between the look of create_api_key and its insert nobody  *)
(* else gives the workspace a key.                                         *)
THEOREM SingleKey == Spec => []OneKey
PROOF
  <1>1. Init => KeyInv
    <2> SUFFICES ASSUME Init PROVE KeyInv
      OBVIOUS
    <2>1. Present = {} /\ \A w : Making(w) = {}
      BY DEF Init, Present, Making, Idle
    <2> QED
      BY <2>1, InitTyped
         DEF Init, KeyInv, InWorkspaces, OneMaker, MakerKnows, OneKey, KeysOf, Idle
  <1>2. KeyInv => OneKey
    BY DEF KeyInv
  <1> QED
    BY <1>1, <1>2, StepKeeps, PTL DEF Spec

--------------------------------------------------------------------------------
(* A workspace without a key has a request that is about to insert one: a  *)
(* regeneration that gives up finds that the one key it was to delete was  *)
(* deleted by another.                                                     *)

TodoRows ==
  \A c \in Clients : req[c].at = "delete" =>
    req[c].todo \subseteq 1..rows /\ \A k \in req[c].todo \cap Present : key[k].ws = req[c].ws

SingleUndoubled == \A w \in Workspaces \ doubled : \A j, k \in KeysOf(w) : j = k

TodoSingle ==
  \A c \in Clients : req[c].at = "delete" /\ req[c].ws \notin doubled =>
    \A j, k \in req[c].todo : j = k

Inserts(w) == \E c \in Clients : req[c].at = "insert" /\ req[c].ws = w

HasOrInserts == \A w \in workspaces \ (doubled \cup disturbed) : KeysOf(w) # {} \/ Inserts(w)

HasInv == TodoRows /\ SingleUndoubled /\ TodoSingle /\ HasOrInserts

LEMMA QuietHas ==
  ASSUME TypeOK, HasInv, workspaces' = workspaces, rows' = rows, doubled' = doubled,
         disturbed \subseteq disturbed',
         \A k \in Keys : /\ key'[k] = NoKey <=> key[k] = NoKey
                         /\ key[k] # NoKey => key'[k].ws = key[k].ws,
         \A c \in Clients :
           \/ req'[c] = req[c]
           \/ /\ req'[c].at \notin {"insert", "delete"}
              /\ req[c].at = "insert" => req[c].ws \in disturbed'
  PROVE  HasInv'
PROOF
  <1>1. Present' = Present /\ \A w : KeysOf(w)' = KeysOf(w)
    BY DEF Present, KeysOf
  <1>2. TodoRows'
    BY <1>1 DEF HasInv, TodoRows, Present
  <1>3. SingleUndoubled' /\ TodoSingle'
    BY <1>1 DEF HasInv, SingleUndoubled, TodoSingle
  <1>4. HasOrInserts'
    BY <1>1 DEF HasInv, HasOrInserts, Inserts
  <1> QED
    BY <1>2, <1>3, <1>4 DEF HasInv

LEMMA StartHas ==
  ASSUME TypeOK, HasInv, NEW c \in Clients, NEW w \in Workspaces, NEW r,
         Start(c, w, r), req[c] = Idle, key' = key, rows' = rows,
         doubled' = doubled, disturbed' = disturbed,
         \/ r.at = "insert" /\ workspaces' \subseteq workspaces \cup {w}
         \/ r.at = "delete" /\ r.todo = KeysOf(w) /\ workspaces' = workspaces,
         r.ws = w
  PROVE  HasInv'
PROOF
  <1>1. Present' = Present /\ \A v : KeysOf(v)' = KeysOf(v)
    BY DEF Present, KeysOf
  <1>2. req'[c] = r /\ \A d \in Clients \ {c} : req'[d] = req[d]
    BY DEF Start, TypeOK
  <1>3. KeysOf(w) \subseteq 1..rows /\ \A k \in KeysOf(w) : key[k].ws = w
    BY DEF KeysOf, TypeOK
  <1>4. TodoRows'
    BY <1>1, <1>2, <1>3 DEF HasInv, TodoRows
  <1>5. SingleUndoubled' /\ TodoSingle'
    BY <1>1, <1>2 DEF HasInv, SingleUndoubled, TodoSingle
  <1>6. HasOrInserts'
    BY <1>1, <1>2 DEF HasInv, HasOrInserts, Inserts, Idle
  <1> QED
    BY <1>4, <1>5, <1>6 DEF HasInv

LEMMA DeleteHas ==
  ASSUME TypeOK, HasInv, UNCHANGED <<workspaces, rows, doubled, disturbed>>,
         NEW c \in Clients, req[c].at = "delete", req[c].ws \in Workspaces,
         NEW k \in req[c].todo, k \in Present, key' = [key EXCEPT ![k] = NoKey],
         \A d \in Clients \ {c} : req'[d] = req[d],
         req'[c].ws = req[c].ws,
         \/ req'[c].at = "insert"
         \/ /\ req'[c].at = "delete" /\ req'[c].todo = req[c].todo \ {k}
            /\ req[c].todo # {k}
  PROVE  HasInv'
PROOF
  <1>1. Present' = Present \ {k} /\ \A v : KeysOf(v)' = KeysOf(v) \ {k}
    BY DEF Present, KeysOf, TypeOK
  <1>2. key[k].ws = req[c].ws
    BY DEF HasInv, TodoRows
  <1>3. TodoRows'
    BY <1>1 DEF HasInv, TodoRows, TypeOK, Present
  <1>4. SingleUndoubled' /\ TodoSingle'
    BY <1>1 DEF HasInv, SingleUndoubled, TodoSingle
  <1>5. HasOrInserts'
    <2> SUFFICES ASSUME NEW v \in workspaces \ (doubled \cup disturbed)
                 PROVE  KeysOf(v) \ {k} # {} \/ Inserts(v)'
      BY <1>1 DEF HasOrInserts
    <2>1. CASE v = req[c].ws
      <3>1. req[c].todo = {k}
        BY <2>1 DEF HasInv, TodoSingle
      <3> QED
        BY <2>1, <3>1 DEF Inserts
    <2>2. CASE v # req[c].ws
      <3>1. k \notin KeysOf(v)
        BY <1>2, <2>2 DEF KeysOf
      <3>2. Inserts(v) => Inserts(v)'
        BY <2>2 DEF Inserts
      <3> QED
        BY <3>1, <3>2 DEF HasInv, HasOrInserts
    <2> QED
      BY <2>1, <2>2
  <1> QED
    BY <1>3, <1>4, <1>5 DEF HasInv

LEMMA InsertHas ==
  ASSUME TypeOK, HasInv, NEW c \in Clients, Insert(c) PROVE HasInv'
PROOF
  <1> PICK u : u = req[c].ws
    OBVIOUS
  <1>1. u \in Workspaces
    BY RequestForms DEF Insert, TypeOK
  <1>2. rows + 1 \in Keys /\ rows + 1 \notin Present /\ 1..rows \subseteq 1..rows'
        /\ rows + 1 \notin 1..rows
    BY KeyAssumption DEF Insert, Keys, TypeOK, KeyAssumption
  <1>3. key' = [key EXCEPT ![rows + 1] = [ws |-> u, secret |-> 0, enabled |-> TRUE]]
    BY DEF Insert
  <1>4. key'[rows + 1].ws = u /\ key'[rows + 1] # NoKey
    BY <1>1, <1>2, <1>3, RowsAreKeys, NewRow DEF TypeOK
  <1>5. \A k \in Keys \ {rows + 1} : key'[k] = key[k]
    BY <1>2, <1>3 DEF TypeOK
  <1>6. Present' = Present \cup {rows + 1}
    BY <1>2, <1>4, <1>5 DEF Present
  <1>7. \A w : KeysOf(w)' = IF w = u THEN KeysOf(w) \cup {rows + 1} ELSE KeysOf(w)
    BY <1>2, <1>4, <1>5, <1>6 DEF KeysOf, Present
  <1>8. req'[c] = Idle /\ \A d \in Clients \ {c} : req'[d] = req[d]
    BY DEF Insert, TypeOK
  <1>9. doubled \subseteq doubled' /\ (u \notin doubled' => KeysOf(u) = {})
    BY DEF Insert
  <1>10. TodoRows'
    <2> SUFFICES ASSUME NEW d \in Clients, req'[d].at = "delete"
                 PROVE  req'[d].todo \subseteq 1..rows'
                        /\ \A k \in req'[d].todo \cap Present' : key'[k].ws = req'[d].ws
      BY DEF TodoRows
    <2>1. req'[d] = req[d] /\ req[d].todo \subseteq 1..rows
      BY <1>8 DEF Idle, HasInv, TodoRows
    <2> QED
      BY <1>2, <1>5, <1>6, <2>1 DEF HasInv, TodoRows, Present
  <1>11. SingleUndoubled'
    BY <1>7, <1>9 DEF HasInv, SingleUndoubled
  <1>12. TodoSingle'
    BY <1>8, <1>9 DEF HasInv, TodoSingle, Idle
  <1>13. HasOrInserts'
    <2> SUFFICES ASSUME NEW w \in workspaces \ (doubled \cup disturbed), w # u
                 PROVE  KeysOf(w)' # {} \/ Inserts(w)'
      BY <1>7, <1>9 DEF HasOrInserts, Insert
    <2>1. Inserts(w) => Inserts(w)'
      BY <1>8 DEF Inserts
    <2> QED
      BY <1>7, <2>1 DEF HasInv, HasOrInserts
  <1> QED
    BY <1>10, <1>11, <1>12, <1>13 DEF HasInv

LEMMA RevokeHas ==
  ASSUME TypeOK, HasInv, NEW c \in Clients, NEW k \in Keys, Revoke(c, k) PROVE HasInv'
PROOF
  <1>1. Present' = Present \ {k} /\ \A v : KeysOf(v)' = KeysOf(v) \ {k}
    BY DEF Revoke, Present, KeysOf, TypeOK
  <1>2. TodoRows'
    BY <1>1 DEF HasInv, TodoRows, Revoke, TypeOK, Present
  <1>3. SingleUndoubled' /\ TodoSingle'
    BY <1>1 DEF HasInv, SingleUndoubled, TodoSingle, Revoke
  <1>4. HasOrInserts'
    <2> SUFFICES ASSUME NEW w \in workspaces \ (doubled \cup disturbed), w # key[k].ws
                 PROVE  KeysOf(w)' # {} \/ Inserts(w)'
      BY DEF HasOrInserts, Revoke
    <2>1. KeysOf(w)' = KeysOf(w)
      BY <1>1 DEF KeysOf
    <2> QED
      BY <2>1 DEF HasInv, HasOrInserts, Inserts, Revoke
  <1> QED
    BY <1>2, <1>3, <1>4 DEF HasInv

LEMMA StepHas == TypeOK /\ HasInv /\ [Next]_vars => HasInv'
PROOF
  <1> SUFFICES ASSUME TypeOK, HasInv, [Next]_vars PROVE HasInv'
    OBVIOUS
  <1>1. ASSUME NEW c \in Clients, NEW w \in Workspaces,
               CreateWorkspace(c, w) \/ CreateKey(c, w)
        PROVE  HasInv'
    <2>1. /\ Start(c, w, [at |-> "insert", ws |-> w]) /\ req[c] = Idle
          /\ workspaces' \subseteq workspaces \cup {w}
          /\ key' = key /\ rows' = rows /\ doubled' = doubled /\ disturbed' = disturbed
      BY <1>1 DEF CreateWorkspace, CreateKey, table
    <2> QED
      BY <2>1, StartHas
  <1>2. ASSUME NEW c \in Clients, NEW w \in Workspaces, Regenerate(c, w) PROVE HasInv'
    <2>1. CASE KeysOf(w) = {}
      BY <1>2, <2>1, StartHas DEF Regenerate, table
    <2>2. CASE KeysOf(w) # {}
      BY <1>2, <2>2, StartHas DEF Regenerate, table
    <2> QED
      BY <2>1, <2>2
  <1>3. ASSUME NEW c \in Clients, Delete(c) PROVE HasInv'
    <2>1. UNCHANGED <<workspaces, rows, doubled, disturbed>>
      BY <1>3 DEF Delete, history
    <2>2. CASE key' = key /\ req'[c] = Idle
      BY <1>3, <2>1, <2>2, DeleteForms, QuietHas DEF Idle
    <2>3. CASE key' # key \/ req'[c] # Idle
      <3>1. PICK k \in req[c].todo \cap Present :
              /\ key' = [key EXCEPT ![k] = NoKey]
              /\ \/ req'[c].at = "insert" /\ req[c].todo = {k}
                 \/ /\ req'[c].at = "delete" /\ req'[c].todo = req[c].todo \ {k}
                    /\ req[c].todo # {k}
        BY <1>3, <2>3, DeleteForms
      <3>2. req'[c].ws = req[c].ws
        BY <1>3, <2>3, DeleteForms
      <3> QED
        BY <1>3, <2>1, <3>1, <3>2, DeleteForms, DeleteHas
    <2> QED
      BY <2>2, <2>3
  <1>4. ASSUME NEW c \in Clients, Insert(c) PROVE HasInv'
    BY <1>4, InsertHas
  <1>5. ASSUME NEW c \in Clients, NEW k \in Keys, Revoke(c, k) PROVE HasInv'
    BY <1>5, RevokeHas
  <1>6. ASSUME NEW c \in Clients, NEW k \in Keys, Disable(c, k) \/ Rotate(c, k) PROVE HasInv'
    BY <1>6, QuietForms, QuietHas DEF Disable, Rotate, history
  <1>7. ASSUME NEW c \in Clients, NEW k \in Keys, Validate(c, k) PROVE HasInv'
    BY <1>7, QuietHas DEF Validate, table, history, TypeOK, Idle
  <1>8. ASSUME NEW c \in Clients, Touch(c) PROVE HasInv'
    BY <1>8, QuietHas DEF Touch, table, history, TypeOK, Idle
  <1>9. ASSUME NEW c \in Clients, CutShort(c) PROVE HasInv'
    <2>1. req[c].at = "insert" => req[c].ws \in disturbed'
      <3> SUFFICES ASSUME req[c].at = "insert" PROVE req[c].ws \in disturbed'
        OBVIOUS
      <3>1. req[c].ws \in Workspaces
        BY RequestForms DEF TypeOK
      <3> QED
        BY <1>9, <3>1 DEF CutShort, Making
    <2> QED
      BY <1>9, <2>1, QuietHas DEF CutShort, table, TypeOK, Idle
  <1>10. CASE FindOld \/ (\E k \in Present : Age(k)) \/ UNCHANGED vars
    BY <1>10, QuietHas DEF FindOld, Age, table, history, vars
  <1>11. CASE RotateOld
    <2>1. key' = key \/ \E j \in Present : NewSecret(j)
      BY <1>11 DEF RotateOld
    <2> QED
      BY <1>11, <2>1, QuietForms, QuietHas DEF RotateOld, history
  <1> QED
    BY <1>1, <1>2, <1>3, <1>4, <1>5, <1>6, <1>7, <1>8, <1>9, <1>10, <1>11 DEF Next, Serve

(* Regenerations of one workspace's key that overlap leave it a key in the *)
(* end: what makes one of them give up is the deletion by another, which   *)
(* then inserts.                                                           *)
THEOREM KeyRemains == Spec => []HasKey
PROOF
  <1>1. Init => HasInv
    <2> SUFFICES ASSUME Init PROVE HasInv
      OBVIOUS
    <2>1. Present = {}
      BY DEF Init, Present
    <2> QED
      BY <2>1 DEF Init, HasInv, TodoRows, SingleUndoubled, TodoSingle, HasOrInserts, KeysOf, Idle
  <1>2. HasInv => HasKey
    BY DEF HasInv, HasOrInserts, HasKey, Inserts, Making
  <1> QED
    BY <1>1, <1>2, InitTyped, StepTyped, StepHas, PTL DEF Spec
================================================================================
