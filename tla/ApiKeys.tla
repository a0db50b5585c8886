--------------------------------- MODULE ApiKeys ---------------------------------
(***************************************************************************)
(* The user API keys of workspaces: the operations of ApiHandlers          *)
(* (server/handlers/workspace_handlers.rs, api_key_handlers.rs,            *)
(* system_handlers.rs) over ApiKeyRepository (core/database/repository.rs).*)
(* One action per statement that the database executes; a request may be   *)
(* cut short by an error or a disconnect between two of them.  Admin keys, *)
(* which belong to no workspace, are left out.                             *)
(***************************************************************************)
EXTENDS Integers

CONSTANTS
  Clients,      \* requests that are served at a time
  Workspaces,
  MaxKeys,      \* bound: the rows ever inserted into api_keys
  MaxRotations  \* bound: the rotations of one key

ASSUME KeyAssumption == MaxKeys \in Nat \ {0} /\ MaxRotations \in Nat

VARIABLES
  workspaces,  \* the rows of table workspaces
  key,         \* the rows of table api_keys: workspace, secret, enabled
  rows,        \* the rows of api_keys inserted so far
  old,         \* the keys whose created_at is older than max_key_age_days
  expired,     \* the keys whose expires_at has passed
  req,         \* what each request still has to do, and its variables
  task,        \* old_keys of the rotation task, those it has yet to rotate
  doubled,     \* history: workspaces that had two keys
  overlapped,  \* history: workspaces two requests made keys for at a time
  disturbed    \* history: workspaces with a request cut short or a key revoked

table   == <<workspaces, key, rows>>
age     == <<old, expired>>
history == <<doubled, overlapped, disturbed>>
vars    == <<table, age, req, task, history>>

Keys  == 1..MaxKeys
NoKey == [ws |-> "none"]
Idle  == [at |-> "idle"]
Row   == [ws : Workspaces, secret : 0..MaxRotations, enabled : BOOLEAN]

Present  == {k \in Keys : key[k] # NoKey}
KeysOf(w) == {k \in Present : key[k].ws = w}

(* The requests that are making a key for w: create_workspace after its    *)
(* insert, create_api_key after its look, regenerate_user_api_key.         *)
Making(w) == {c \in Clients : req[c].at \in {"delete", "insert"} /\ req[c].ws = w}

Start(c, w, r) ==
  /\ req' = [req EXCEPT ![c] = r]
  /\ overlapped' = overlapped \cup {v \in {w} : Making(w) # {}}

--------------------------------------------------------------------------------
(* Mutant: the workspace gets no key of its own. *)
CreateWorkspaceAlone(c, w) ==
  /\ req[c] = Idle /\ w \notin workspaces
  /\ workspaces' = workspaces \cup {w}
  /\ UNCHANGED <<key, rows, age, req, task, history>>

(* The name is unique; the key is inserted in a statement of its own. *)
CreateWorkspace(c, w) ==
  /\ req[c] = Idle /\ w \notin workspaces
  /\ workspaces' = workspaces \cup {w}
  /\ Start(c, w, [at |-> "insert", ws |-> w])
  /\ UNCHANGED <<key, rows, age, task, doubled, disturbed>>

(* Mutant: no look for a key of the workspace. *)
CreateKeyAlways(c, w) ==
  /\ req[c] = Idle /\ w \in workspaces
  /\ Start(c, w, [at |-> "insert", ws |-> w])
  /\ UNCHANGED <<table, age, task, doubled, disturbed>>

(* create_api_key refuses where the workspace has a user key. *)
CreateKey(c, w) ==
  /\ req[c] = Idle /\ w \in workspaces /\ KeysOf(w) = {}
  /\ Start(c, w, [at |-> "insert", ws |-> w])
  /\ UNCHANGED <<table, age, task, doubled, disturbed>>

(* regenerate_user_api_key lists the keys of the workspace ... *)
Regenerate(c, w) ==
  /\ req[c] = Idle /\ w \in workspaces
  /\ Start(c, w, IF KeysOf(w) = {} THEN [at |-> "insert", ws |-> w]
                 ELSE [at |-> "delete", ws |-> w, todo |-> KeysOf(w)])
  /\ UNCHANGED <<table, age, task, doubled, disturbed>>

(* ... deletes one after the other, giving up at one that is gone ... *)
Delete(c) ==
  /\ req[c].at = "delete"
  /\ \E k \in req[c].todo :
       IF k \in Present
       THEN LET rest == req[c].todo \ {k} IN
            /\ key' = [key EXCEPT ![k] = NoKey]
            /\ req' = [req EXCEPT ![c] = IF rest = {} THEN [at |-> "insert", ws |-> @.ws]
                                         ELSE [@ EXCEPT !.todo = rest]]
       ELSE req' = [req EXCEPT ![c] = Idle] /\ UNCHANGED key
  /\ UNCHANGED <<workspaces, rows, age, task, history>>

(* ... and inserts a new one, as the other two do. *)
Insert(c) ==
  /\ req[c].at = "insert" /\ rows < MaxKeys
  /\ LET w == req[c].ws IN
       /\ key' = [key EXCEPT ![rows + 1] = [ws |-> w, secret |-> 0, enabled |-> TRUE]]
       /\ doubled' = doubled \cup {v \in {w} : KeysOf(w) # {}}
  /\ rows' = rows + 1
  /\ req' = [req EXCEPT ![c] = Idle]
  /\ UNCHANGED <<workspaces, age, task, overlapped, disturbed>>

(* revoke_api_key of the handlers deletes the row. *)
Revoke(c, k) ==
  /\ req[c] = Idle /\ k \in Present
  /\ key' = [key EXCEPT ![k] = NoKey]
  /\ disturbed' = disturbed \cup {key[k].ws}
  /\ UNCHANGED <<workspaces, rows, age, req, task, doubled, overlapped>>

(* revoke_api_key of the repository sets enabled. *)
Disable(c, k) ==
  /\ req[c] = Idle /\ k \in Present
  /\ key' = [key EXCEPT ![k].enabled = FALSE]
  /\ UNCHANGED <<workspaces, rows, age, req, task, history>>

(* rotate_api_key replaces the hash; the grace period is not used. *)
NewSecret(k) ==
  /\ key[k].secret < MaxRotations
  /\ key' = [key EXCEPT ![k].secret = @ + 1]

Rotate(c, k) ==
  /\ req[c] = Idle /\ k \in Present
  /\ NewSecret(k)
  /\ UNCHANGED <<workspaces, rows, age, req, task, history>>

(* validate_api_key of a request that presents the secret of the key ... *)
Validate(c, k) ==
  /\ req[c] = Idle /\ k \in Present /\ key[k].enabled /\ k \notin expired
  /\ req' = [req EXCEPT ![c] = [at |-> "touch", key |-> k, row |-> key[k]]]
  /\ UNCHANGED <<table, age, task, history>>

(* Mutant: the row as it was read is saved. *)
TouchSaves(c) ==
  /\ req[c].at = "touch" /\ req[c].key \in Present
  /\ key' = [key EXCEPT ![req[c].key] = req[c].row]
  /\ req' = [req EXCEPT ![c] = Idle]
  /\ UNCHANGED <<workspaces, rows, age, task, history>>

(* ... and update_last_used, whose error is ignored, of last_used_at only. *)
Touch(c) ==
  /\ req[c].at = "touch"
  /\ req' = [req EXCEPT ![c] = Idle]
  /\ UNCHANGED <<table, age, task, history>>

(* The database fails, or the client goes. *)
CutShort(c) ==
  /\ req[c] # Idle
  /\ req' = [req EXCEPT ![c] = Idle]
  /\ disturbed' = disturbed \cup {w \in Workspaces : c \in Making(w)}
  /\ UNCHANGED <<table, age, task, doubled, overlapped>>

(* start_key_rotation_task: get_keys_older_than, then each key in turn; a  *)
(* key that is gone is passed over.                                        *)
FindOld ==
  /\ task = {}
  /\ task' = {k \in Present \cap old : key[k].enabled}
  /\ UNCHANGED <<table, age, req, history>>

RotateOld ==
  /\ \E k \in task :
       /\ IF k \in Present THEN NewSecret(k) ELSE UNCHANGED key
       /\ task' = task \ {k}
  /\ UNCHANGED <<workspaces, rows, age, req, history>>

(* Days go by. *)
Age(k) ==
  /\ \/ old' = old \cup {k} /\ UNCHANGED expired
     \/ expired' = expired \cup {k} /\ UNCHANGED old
  /\ UNCHANGED <<table, req, task, history>>

--------------------------------------------------------------------------------
Init ==
  /\ workspaces = {} /\ key = [k \in Keys |-> NoKey] /\ rows = 0
  /\ old = {} /\ expired = {}
  /\ req = [c \in Clients |-> Idle] /\ task = {}
  /\ doubled = {} /\ overlapped = {} /\ disturbed = {}

Serve(c) ==
  \/ \E w \in Workspaces : CreateWorkspace(c, w) \/ CreateKey(c, w) \/ Regenerate(c, w)
  \/ \E k \in Keys : Revoke(c, k) \/ Disable(c, k) \/ Rotate(c, k) \/ Validate(c, k)
  \/ Delete(c) \/ Insert(c) \/ Touch(c) \/ CutShort(c)

Next ==
  \/ \E c \in Clients : Serve(c)
  \/ FindOld \/ RotateOld
  \/ \E k \in Present : Age(k)

Spec == Init /\ [][Next]_vars

--------------------------------------------------------------------------------
(* Properties *)

(* The range of each variable. *)
Request ==
  {Idle} \cup [at : {"insert"}, ws : Workspaces]
         \cup [at : {"delete"}, ws : Workspaces, todo : (SUBSET Keys) \ {{}}]
         \cup [at : {"touch"}, key : Keys, row : Row]

TypeOK ==
  /\ workspaces \subseteq Workspaces /\ key \in [Keys -> Row \cup {NoKey}]
  /\ rows \in 0..MaxKeys /\ Present \subseteq 1..rows
  /\ old \subseteq 1..rows /\ expired \subseteq 1..rows /\ task \subseteq 1..rows
  /\ req \in [Clients -> Request]
  /\ doubled \cup overlapped \cup disturbed \subseteq Workspaces

(* A workspace has one user key at most, the rule that create_api_key      *)
(* enforces by a look before its insert, unless two requests made a key    *)
(* for it at the same time.                                                *)
OneKey == \A w \in Workspaces \ overlapped : \A j, k \in KeysOf(w) : j = k

(* A workspace that no request is making a key for has one, also after two *)
(* regenerations at a time of which one gives up.  Not so after a request  *)
(* was cut short or the key revoked, nor once it had two keys: then two    *)
(* regenerations may each delete one and give up at the other.             *)
HasKey ==
  \A w \in workspaces \ (doubled \cup disturbed) : Making(w) = {} => KeysOf(w) # {}

(* What was revoked stays revoked: no request that read a key before it    *)
(* was deleted, disabled or rotated brings the row or the old secret back. *)
RevokedStays ==
  [][\A k \in 1..rows :
       /\ key[k] = NoKey => key'[k] = NoKey
       /\ key[k] # NoKey /\ key'[k] # NoKey =>
            key'[k].secret >= key[k].secret /\ (key'[k].enabled => key[k].enabled)]_vars

(* What the comment of rotate_api_key says: the old secret stays active    *)
(* for a grace period.  A row that holds one secret cannot do so.          *)
Accepts(k, s) == key[k] # NoKey /\ key[k].enabled /\ k \notin expired /\ key[k].secret = s

OldSecretInGrace ==
  [][\A c \in Clients, k \in Present : Rotate(c, k) /\ Accepts(k, key[k].secret) =>
       (key'[k].secret = key[k].secret)]_vars
================================================================================
