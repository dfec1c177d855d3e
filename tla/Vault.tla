-------------------------------- MODULE Vault --------------------------------
(***************************************************************************)
(* The vault of the gateway (packages/gateway/src/vault.ts): named secrets *)
(* encrypted under a data key (DEK) per key version, each DEK wrapped with *)
(* the operator's master material, and the DEKs of the versions that were  *)
(* unlocked in the memory of a process.  Two processes work on the same    *)
(* rows: the gateway and the command line (scripts/runtime/vault.ts),      *)
(* which executes one command and exits.                                   *)
(*                                                                         *)
(* bootstrap, setSecret, rotateSecret and rotateMasterKey are series of    *)
(* statements on the database with no transaction around them, down to the *)
(* SELECTs before and after the INSERTs of database.ts: each statement is  *)
(* an action.  Nothing of one process comes between two statements of a    *)
(* call (the code is synchronous), but a statement of the other process    *)
(* may, and either process may die there.  The two calls of several        *)
(* statements that are one action, Unlock and ResetEmpty, say why at their *)
(* definitions.                                                            *)
(*                                                                         *)
(* A secret is reduced to the version its row names, to the DEK it was     *)
(* encrypted with, and to whether it is revoked.  A DEK is named by the    *)
(* row it was inserted with: versions are never handed out twice           *)
(* (AUTOINCREMENT, packages/db/src/migrations.ts:385).                     *)
(***************************************************************************)
EXTENDS Naturals, FiniteSets

CONSTANTS
  Names,        (* the names of secrets *)
  Materials,    (* the master materials operators use *)
  MaxVersions   (* bound: key versions ever created *)

ASSUME VaultAssumption == MaxVersions \in Nat \ {0}

Versions  == 1 .. MaxVersions
Processes == {"gateway", "cli"}

VARIABLES
  (* rows *)
  last,     (* the last version handed out *)
  key,      (* vault_key_versions.status, "none" without a row *)
  wrap,     (* the material a version's DEK is wrapped with, as a set *)
  state,    (* a secret's row: "none", "live" or "revoked" *)
  version,  (* vault_secrets.key_version, 0 without a row *)
  seal,     (* the DEK the secret is encrypted with, 0 without a row *)
  (* memory of a process *)
  running,  (* is the process alive *)
  dek,      (* unlockedDekByVersion: the DEK kept for a version, 0 if none *)
  at,       (* where it is in a call *)
  old,      (* the version a rotation found active *)
  new,      (* the version the call writes secrets under *)
  mine,     (* the DEK it encrypts them with: in a bootstrap or a rotation, *)
            (* that of the row it inserted *)
  todo,     (* the secrets a rotation has yet to rewire *)
  writing,  (* the secret whose row is to be written *)
  (* history *)
  unclean   (* versions inserted by a rotation that was cut short or that *)
            (* the other process overlapped, or by a bootstrap that came *)
            (* after another one or into a rotation *)

rows   == <<last, key, wrap, state, version, seal>>
locals == <<old, new, mine, todo, writing>>
memory == <<running, dek, at, locals>>
vars   == <<rows, memory, unclean>>

Places == {"idle", "boot", "booted", "create", "created", "retire", "list",
           "rewire", "find", "update", "insert", "lost", "check"}
Upserting == {"find", "update", "insert", "lost", "check"}

(* Process p goes on in its call.                                          *)
Goes(p, place) == at' = [at EXCEPT ![p] = place]

(* The locals of a call are gone when it is over.                          *)
Finish(p) ==
  /\ Goes(p, "idle")
  /\ old' = [old EXCEPT ![p] = 0]
  /\ new' = [new EXCEPT ![p] = 0]
  /\ mine' = [mine EXCEPT ![p] = 0]
  /\ todo' = [todo EXCEPT ![p] = {}]
  /\ writing' = [writing EXCEPT ![p] = {}]

(* It returns or throws; the gateway keeps its map, the command line exits *)
(* (scripts/runtime/vault.ts:84).                                          *)
NoKeys == [v \in Versions |-> 0]
Return(p, keys) ==
  /\ Finish(p)
  /\ running' = [running EXCEPT ![p] = (p = "gateway")]
  /\ dek' = [dek EXCEPT ![p] = IF p = "gateway" THEN keys ELSE NoKeys]

Existing(v) == key[v] # "none"
Initialized == \E v \in Versions : Existing(v)
IsNewest(v) == Existing(v) /\ \A w \in Versions : Existing(w) => w <= v
IsActive(v) == key[v] = "active" /\ \A w \in Versions : key[w] = "active" => w <= v
Secrets     == {n \in Names : state[n] # "none"}
Live        == {n \in Names : state[n] = "live"}
Open(p)     == \E v \in Versions : dek[p][v] # 0
At(p, place) == running[p] /\ at[p] = place
Rotating(p) ==
  \/ at[p] \in {"created", "retire", "list", "rewire"}
  \/ at[p] \in Upserting /\ old[p] # 0
Storing(p)  == at[p] \in Upserting /\ old[p] = 0

(* decryptSecret fails without a DEK for the row's version, and with one   *)
(* that is not the DEK the row was encrypted with.                         *)
Decrypts(p, n) == dek[p][version[n]] = seal[n]

(* What unlock(m) decrypts; it succeeds only if the active version is in.  *)
(* Its fallback to the newest version when none is active (vault.ts:104)   *)
(* never happens: ActiveIsNewest.                                          *)
Unwrapped(m) == [v \in Versions |-> IF Existing(v) /\ m \in wrap[v] THEN v ELSE 0]
Opens(m)     == \E v \in Versions : IsActive(v) /\ m \in wrap[v]

(* A call that ends may have been a rotation cut short.                    *)
CutShort(p) == IF Rotating(p) THEN unclean \union {mine[p]} ELSE unclean

TypeOK ==
  /\ last \in 0 .. MaxVersions
  /\ key \in [Versions -> {"none", "active", "retired"}]
  /\ wrap \in [Versions -> SUBSET Materials]
  /\ state \in [Names -> {"none", "live", "revoked"}]
  /\ version \in [Names -> 0 .. MaxVersions]
  /\ seal \in [Names -> 0 .. MaxVersions]
  /\ running \in [Processes -> BOOLEAN]
  /\ dek \in [Processes -> [Versions -> 0 .. MaxVersions]]
  /\ at \in [Processes -> Places]
  /\ old \in [Processes -> 0 .. MaxVersions]
  /\ new \in [Processes -> 0 .. MaxVersions]
  /\ mine \in [Processes -> 0 .. MaxVersions]
  /\ todo \in [Processes -> SUBSET Names]
  /\ writing \in [Processes -> SUBSET Names]
  /\ unclean \subseteq Versions

Init ==
  /\ last = 0
  /\ key = [v \in Versions |-> "none"]
  /\ wrap = [v \in Versions |-> {}]
  /\ state = [n \in Names |-> "none"]
  /\ version = [n \in Names |-> 0]
  /\ seal = [n \in Names |-> 0]
  /\ running = [p \in Processes |-> FALSE]
  /\ dek = [p \in Processes |-> NoKeys]
  /\ at = [p \in Processes |-> "idle"]
  /\ old = [p \in Processes |-> 0]
  /\ new = [p \in Processes |-> 0]
  /\ mine = [p \in Processes |-> 0]
  /\ todo = [p \in Processes |-> {}]
  /\ writing = [p \in Processes |-> {}]
  /\ unclean = {}

(***************************************************************************)
(* Mutants: each is a mistake the code could make, against a definition    *)
(* below.                                                                  *)
(***************************************************************************)
(* The old version is revoked instead of retired.                          *)
RotateRetireRevokes(p) ==
  /\ At(p, "retire")
  /\ key' = [key EXCEPT ![old[p]] = IF @ = "none" THEN @ ELSE "revoked"]
  /\ Goes(p, "list")
  /\ UNCHANGED <<last, wrap, state, version, seal, running, dek, locals, unclean>>

(* The version that was just created is retired.                           *)
RotateRetireNew(p) ==
  /\ At(p, "retire")
  /\ key' = [key EXCEPT ![new[p]] = "retired"]
  /\ Goes(p, "list")
  /\ UNCHANGED <<last, wrap, state, version, seal, running, dek, locals, unclean>>

(* An update leaves the row under the version it was read under.           *)
UpdateKeepsVersion(p) ==
  /\ At(p, "update")
  /\ \E n \in writing[p] :
       /\ state' = [state EXCEPT ![n] = "live"]
       /\ seal' = [seal EXCEPT ![n] = mine[p]]
  /\ Goes(p, "check")
  /\ UNCHANGED <<last, key, wrap, version, running, dek, locals, unclean>>

(* The new DEK is not kept.                                                *)
RotateEndForgets(p) ==
  /\ At(p, "rewire")
  /\ todo[p] = {}
  /\ Return(p, dek[p])
  /\ UNCHANGED <<rows, unclean>>

(* Every row is rewired, the revoked ones included.                        *)
RotateNextRevoked(p) ==
  /\ At(p, "rewire")
  /\ \E n \in Secrets :
       /\ Decrypts(p, n)
       /\ todo' = [todo EXCEPT ![p] = @ \ {n}]
       /\ writing' = [writing EXCEPT ![p] = {n}]
       /\ Goes(p, "find")
  /\ UNCHANGED <<rows, running, dek, old, new, mine, unclean>>

(***************************************************************************)
(* Processes.                                                              *)
(***************************************************************************)
(* The gateway unlocks itself at boot if its environment holds material    *)
(* (server.ts:5272); a failure leaves the vault locked.  A rotation under  *)
(* way in the other process is overlapped from now on.                     *)
Start(p) ==
  /\ ~running[p]
  /\ running' = [running EXCEPT ![p] = TRUE]
  /\ \/ UNCHANGED dek
     \/ \E m \in Materials :
          /\ p = "gateway" /\ Opens(m)
          /\ dek' = [dek EXCEPT ![p] = Unwrapped(m)]
  /\ unclean' = unclean \union {mine[q] : q \in {r \in Processes : Rotating(r)}}
  /\ UNCHANGED <<rows, at, locals>>

(* A process exits or dies, between any two statements.                    *)
Stop(p) ==
  /\ running[p]
  /\ running' = [running EXCEPT ![p] = FALSE]
  /\ dek' = [dek EXCEPT ![p] = NoKeys]
  /\ unclean' = CutShort(p)
  /\ Finish(p)
  /\ UNCHANGED rows

(***************************************************************************)
(* Opening and closing the vault.                                          *)
(***************************************************************************)
(* createVaultKeyVersion inserts a row, and then reads the newest row of   *)
(* the table for its number (database.ts:4472): it need not be the one it  *)
(* inserted.                                                               *)
NewVersion(p, m) ==
  /\ last < MaxVersions
  /\ last' = last + 1
  /\ key' = [key EXCEPT ![last + 1] = "active"]
  /\ wrap' = [wrap EXCEPT ![last + 1] = {m}]
  /\ mine' = [mine EXCEPT ![p] = last + 1]

(* bootstrap looks whether there is a version (vault.ts:62), derives the   *)
(* key and inserts one (69).                                               *)
BootCheck(p) ==
  /\ At(p, "idle")
  /\ p = "cli" => ~Open(p)
  /\ ~Initialized
  /\ Goes(p, "boot")
  /\ UNCHANGED <<rows, running, dek, locals, unclean>>

BootInsert(p, m) ==
  /\ At(p, "boot")
  /\ NewVersion(p, m)
  /\ Goes(p, "booted")
  /\ unclean' = IF Initialized \/ \E q \in Processes : Rotating(q)
                THEN unclean \union {last + 1} ELSE unclean
  /\ UNCHANGED <<state, version, seal, running, dek, old, new, todo, writing>>

(* The DEK is kept for the version that was read back.                     *)
Bootstrap(p) ==
  /\ At(p, "booted")
  /\ \E v \in Versions : IsNewest(v) /\ Return(p, [dek[p] EXCEPT ![v] = mine[p]])
  /\ UNCHANGED <<rows, unclean>>

(* The map is replaced, and only when the active version was decrypted.    *)
(* unlock reads the versions and, at its end, the active one: it fails if  *)
(* a version was inserted in between, since the newest is active.  A reset *)
(* in between leaves the command line with DEKs of versions that are gone  *)
(* and never handed out again, of which no later step makes use.  Nothing  *)
(* else in between changes what it decrypts.  Hence one action, at the     *)
(* first of its reads.  The command line unlocks once.                     *)
Unlock(p, m) ==
  /\ At(p, "idle")
  /\ p = "cli" => ~Open(p)
  /\ Opens(m)
  /\ dek' = [dek EXCEPT ![p] = Unwrapped(m)]
  /\ UNCHANGED <<rows, running, at, locals, unclean>>

Lock ==
  /\ At("gateway", "idle")
  /\ dek' = [dek EXCEPT !["gateway"] = NoKeys]
  /\ UNCHANGED <<rows, running, at, locals, unclean>>

(* POST /api/vault/reset-empty deletes every key, and refuses as long as a *)
(* secret is stored, a revoked one included.  A row the command line       *)
(* inserts after that check is deleted with the secrets (Insert, Delete,   *)
(* ResetEmpty), or, after that, makes the DELETE of the keys fail (no step *)
(* at all).  Hence one action, at the DELETE of the keys.                  *)
ResetEmpty ==
  /\ At("gateway", "idle")
  /\ Secrets = {}
  /\ key' = [v \in Versions |-> "none"]
  /\ wrap' = [v \in Versions |-> {}]
  /\ dek' = [dek EXCEPT !["gateway"] = NoKeys]
  /\ UNCHANGED <<last, state, version, seal, running, at, locals, unclean>>

(***************************************************************************)
(* Secrets.  setSecret reads the active version, then upserts the row; so  *)
(* does rotateSecret.                                                      *)
(***************************************************************************)
StoreRead(n) ==
  /\ At("gateway", "idle")
  /\ \E v \in Versions :
       /\ IsActive(v) /\ dek["gateway"][v] # 0
       /\ new' = [new EXCEPT !["gateway"] = v]
       /\ mine' = [mine EXCEPT !["gateway"] = dek["gateway"][v]]
  /\ writing' = [writing EXCEPT !["gateway"] = {n}]
  /\ Goes("gateway", "find")
  /\ UNCHANGED <<rows, running, dek, old, todo, unclean>>

(* upsertVaultSecret looks for the row, updates it by its id or inserts    *)
(* one, and reads it back (database.ts:4534).                              *)
Find(p) ==
  /\ At(p, "find")
  /\ \E n \in writing[p] : Goes(p, IF state[n] = "none" THEN "insert" ELSE "update")
  /\ UNCHANGED <<rows, running, dek, locals, unclean>>

(* The row is live again, under the version of the call.                   *)
Written(p) ==
  /\ \E n \in writing[p] :
       /\ state' = [state EXCEPT ![n] = "live"]
       /\ version' = [version EXCEPT ![n] = new[p]]
       /\ seal' = [seal EXCEPT ![n] = mine[p]]
  /\ Goes(p, "check")
  /\ UNCHANGED <<last, key, wrap, running, dek, locals, unclean>>

Update(p) ==
  /\ At(p, "update")
  /\ Existing(new[p])
  /\ Written(p)

Insert(p) ==
  /\ At(p, "insert")
  /\ Existing(new[p])
  /\ \A n \in writing[p] : state[n] = "none"
  /\ Written(p)

(* The id is gone: nothing is updated.                                     *)
UpdateNothing(p) ==
  /\ At(p, "lost")
  /\ Goes(p, "check")
  /\ UNCHANGED <<rows, running, dek, locals, unclean>>

Stored(p) ==
  /\ At(p, "check")
  /\ Storing(p)
  /\ \E n \in writing[p] : state[n] # "none"
  /\ Return(p, dek[p])
  /\ UNCHANGED <<rows, unclean>>

Rewired(p) ==
  /\ At(p, "check")
  /\ Rotating(p)
  /\ \E n \in writing[p] : state[n] # "none"
  /\ Goes(p, "rewire")
  /\ writing' = [writing EXCEPT ![p] = {}]
  /\ UNCHANGED <<rows, running, dek, old, new, mine, todo, unclean>>

(* Neither needs the vault to be open.  Deleting a row takes its id from   *)
(* under an update of the other process.                                   *)
Revoke(n) ==
  /\ At("gateway", "idle")
  /\ state[n] # "none"
  /\ state' = [state EXCEPT ![n] = "revoked"]
  /\ UNCHANGED <<last, key, wrap, version, seal, memory, unclean>>

Delete(n) ==
  /\ At("gateway", "idle")
  /\ state[n] # "none"
  /\ state' = [state EXCEPT ![n] = "none"]
  /\ version' = [version EXCEPT ![n] = 0]
  /\ seal' = [seal EXCEPT ![n] = 0]
  /\ at' = [p \in Processes |->
              IF at[p] = "update" /\ n \in writing[p] THEN "lost" ELSE at[p]]
  /\ UNCHANGED <<last, key, wrap, running, dek, locals, unclean>>

(***************************************************************************)
(* rotateMasterKey, statement by statement.                                *)
(***************************************************************************)
RotateRead(p) ==
  /\ At(p, "idle")
  /\ \E v \in Versions :
       /\ IsActive(v) /\ dek[p][v] # 0
       /\ old' = [old EXCEPT ![p] = v]
  /\ Goes(p, "create")
  /\ UNCHANGED <<rows, running, dek, new, mine, todo, writing, unclean>>

(* The rotation is clean so far if the other process is not alive.         *)
RotateCreate(p, m) ==
  /\ At(p, "create")
  /\ NewVersion(p, m)
  /\ Goes(p, "created")
  /\ unclean' = IF \E q \in Processes \ {p} : running[q]
                THEN unclean \union {last + 1} ELSE unclean
  /\ UNCHANGED <<state, version, seal, running, dek, old, new, todo, writing>>

RotateCreated(p) ==
  /\ At(p, "created")
  /\ \E v \in Versions : IsNewest(v) /\ new' = [new EXCEPT ![p] = v]
  /\ Goes(p, "retire")
  /\ UNCHANGED <<rows, running, dek, old, mine, todo, writing, unclean>>

RotateRetire(p) ==
  /\ At(p, "retire")
  /\ key' = [key EXCEPT ![old[p]] = IF @ = "none" THEN @ ELSE "retired"]
  /\ Goes(p, "list")
  /\ UNCHANGED <<last, wrap, state, version, seal, running, dek, locals, unclean>>

RotateList(p) ==
  /\ At(p, "list")
  /\ todo' = [todo EXCEPT ![p] = Live]
  /\ Goes(p, "rewire")
  /\ UNCHANGED <<rows, running, dek, old, new, mine, writing, unclean>>

(* The row is read again; a revoked or deleted secret is passed over.      *)
RotateSkip(p) ==
  /\ At(p, "rewire")
  /\ \E n \in todo[p] :
       /\ state[n] # "live"
       /\ todo' = [todo EXCEPT ![p] = @ \ {n}]
  /\ UNCHANGED <<rows, running, dek, at, old, new, mine, writing, unclean>>

RotateNext(p) ==
  /\ At(p, "rewire")
  /\ \E n \in todo[p] :
       /\ state[n] = "live" /\ Decrypts(p, n)
       /\ todo' = [todo EXCEPT ![p] = @ \ {n}]
       /\ writing' = [writing EXCEPT ![p] = {n}]
  /\ Goes(p, "find")
  /\ UNCHANGED <<rows, running, dek, old, new, mine, unclean>>

(* Only now does the process itself know the new key; the old one never    *)
(* left its map.                                                           *)
RotateEnd(p) ==
  /\ At(p, "rewire")
  /\ todo[p] = {}
  /\ Return(p, [dek[p] EXCEPT ![new[p]] = mine[p]])
  /\ UNCHANGED <<rows, unclean>>

(***************************************************************************)
(* Where a call throws: it reads back a version after a reset; it decrypts *)
(* a secret that it cannot; it writes under a version that is gone, which  *)
(* fails the foreign key; it inserts a row the other process inserted      *)
(* meanwhile; it reads back a row that was deleted.  A rotation is cut     *)
(* short, and its DEK, in no map yet, is lost to the process.              *)
(***************************************************************************)
Fails(p) ==
  \/ at[p] \in {"booted", "created"} /\ ~Initialized
  \/ at[p] = "rewire" /\ \E n \in todo[p] : state[n] = "live" /\ ~Decrypts(p, n)
  \/ at[p] \in {"update", "insert"} /\ ~Existing(new[p])
  \/ at[p] = "insert" /\ \E n \in writing[p] : state[n] # "none"
  \/ at[p] = "check" /\ \A n \in writing[p] : state[n] = "none"

Throw(p) ==
  /\ running[p]
  /\ Fails(p)
  /\ Return(p, dek[p])
  /\ unclean' = CutShort(p)
  /\ UNCHANGED rows

Boot(p) == BootCheck(p) \/ (\E m \in Materials : BootInsert(p, m)) \/ Bootstrap(p)
Upsert(p) ==
  \/ Find(p) \/ Update(p) \/ Insert(p) \/ UpdateNothing(p)
  \/ Stored(p) \/ Rewired(p)
Rotate(p) ==
  \/ RotateRead(p) \/ (\E m \in Materials : RotateCreate(p, m)) \/ RotateCreated(p)
  \/ RotateRetire(p) \/ RotateList(p) \/ RotateSkip(p) \/ RotateNext(p) \/ RotateEnd(p)

Secret(n) == StoreRead(n) \/ Revoke(n) \/ Delete(n)

Process(p) ==
  \/ Start(p) \/ Stop(p) \/ Boot(p) \/ Upsert(p) \/ Rotate(p) \/ Throw(p)
  \/ \E m \in Materials : Unlock(p, m)

Next ==
  \/ \E p \in Processes : Process(p)
  \/ \E n \in Names : Secret(n)
  \/ Lock \/ ResetEmpty

Spec == Init /\ [][Next]_vars

(***************************************************************************)
(* Properties.                                                             *)
(***************************************************************************)
(* Whoever bootstraps, rotates, resets or dies where: as long as there is  *)
(* a key version the newest is active, so getActiveVaultKeyVersion, which  *)
(* takes the newest of the active ones, never goes back to a version       *)
(* somebody rotated away from.                                             *)
ActiveIsNewest ==
  \A v \in Versions : IsNewest(v) => key[v] = "active"

(* A live secret is under the newest version, or is still to be rewired by *)
(* the rotation under way, or was left behind by an unclean version: one   *)
(* whose rotation was cut short or overlapped, or one of two bootstraps    *)
(* that both found the vault empty.  That is what a rotation is for: an    *)
(* old master material opens nothing that is still in use.                 *)
AwaitsRewiring(n) ==
  \E p \in Processes :
    /\ Rotating(p)
    /\ \/ at[p] \in {"created", "retire", "list"}
       \/ n \in todo[p]
       \/ n \in writing[p] /\ at[p] # "check"
LeftBehindOnlyByUncleanVersion ==
  \A n \in Live :
    \/ \A v \in Versions : Existing(v) => v <= version[n]
    \/ AwaitsRewiring(n)
    \/ \E u \in unclean : u > version[n]

(* A gateway that is open and in no call holds the right DEK of the active *)
(* version, hence can store, and can decrypt every live secret, unless the *)
(* version, or one beyond it, is unclean.                                  *)
Excused(v) == \E u \in unclean : u >= v
OpenGatewayServes ==
  Open("gateway") /\ at["gateway"] = "idle" =>
    /\ \A v \in Versions : IsActive(v) => dek["gateway"][v] = v \/ v \in unclean
    /\ \A n \in Live : Decrypts("gateway", n) \/ Excused(version[n])

(* A revoked secret is in use again only because somebody stored it anew,  *)
(* never because a rotation rewired it, unless that rotation was           *)
(* overlapped (its row was revoked between being read and being written).  *)
RevokedStaysRevoked ==
  [][\A n \in Names :
       state[n] # "live" /\ state'[n] = "live" =>
         \/ Storing("gateway")
         \/ \E p \in Processes : Rotating(p) /\ mine[p] \in unclean]_vars

=============================================================================
