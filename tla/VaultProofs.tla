----------------------------- MODULE VaultProofs -----------------------------
(***************************************************************************)
(* Proofs about Vault for every value of its constants.  The properties    *)
(* follow from an invariant (Inv) that says, of every rotation under way,  *)
(* whether it can still be clean, and of every live secret, what will      *)
(* bring it to the newest version or why nothing may; and, of every call,  *)
(* whether the DEK it writes with is the one of the version it names.      *)
(***************************************************************************)
EXTENDS Vault, TLAPS

(* The newest key version handed out is the active one unless all keys     *)
(* were reset, and no secret outlives the key version its row names.       *)
Rows ==
  /\ \A v \in Versions : Existing(v) => v <= last /\ last \in Versions /\ key[last] = "active"
  /\ \A n \in Names : state[n] # "none" => version[n] \in Versions /\ Existing(version[n])

(* A process that is not alive is in no call and knows no key.             *)
Dead == \A p \in Processes : ~running[p] => at[p] = "idle" /\ dek[p] = NoKeys

(* A rotation goes from a version to a newer one, and writes under the one *)
(* it inserted or a newer one; only the gateway stores.                    *)
Numbers ==
  \A p \in Processes :
    /\ at[p] = "create" \/ Rotating(p) => old[p] \in Versions /\ old[p] <= last
    /\ at[p] \in {"idle", "boot", "booted"} => old[p] = 0
    /\ at[p] = "booted" \/ Rotating(p) => mine[p] \in Versions /\ mine[p] <= last
    /\ Rotating(p) => old[p] < mine[p]
    /\ Rotating(p) /\ at[p] # "created" => new[p] \in mine[p] .. last
    /\ Storing(p) => p = "gateway" /\ new[p] \in 1 .. last

(* A call writes one secret at a time.                                     *)
Writing ==
  \A p \in Processes :
    /\ \A m, n \in writing[p] : m = n
    /\ at[p] \notin Upserting => writing[p] = {}

(* A rotation that is clean so far has the database to itself, so its      *)
(* version is the newest and the secret it read is still live.             *)
Clean ==
  \A p \in Processes :
    Rotating(p) /\ mine[p] \notin unclean =>
      /\ \A q \in Processes : q # p => ~running[q]
      /\ mine[p] = last /\ Existing(last)
      /\ at[p] # "created" => new[p] = mine[p]
      /\ at[p] \notin {"insert", "lost"}
      /\ writing[p] \subseteq Live

(* A call that inserted a version reads that one back, unless the other    *)
(* process inserted an unclean one behind it.                              *)
ReadsBack ==
  /\ \A p \in Processes : at[p] = "created" /\ Existing(last) => mine[p] = last \/ last \in unclean
  /\ at["gateway"] = "booted" => mine["gateway"] = last \/ last \in unclean

(* The call has the version it writes secrets under.                       *)
WritesUnder(p) == (Rotating(p) /\ at[p] # "created") \/ Storing(p)

(* A call writes secrets with the DEK of the version it writes, the map of *)
(* the gateway has the DEK of each version, and each row was encrypted     *)
(* with the DEK of its version, as far as that version is clean.           *)
Labels ==
  /\ \A p \in Processes :
       WritesUnder(p) => mine[p] = new[p] \/ new[p] \in unclean
  /\ \A v \in Versions : dek["gateway"][v] \in {0, v} \/ v \in unclean
  /\ \A n \in Names : state[n] # "none" => seal[n] = version[n] \/ version[n] \in unclean

(* A version a call is about to write under is the newest, unless the      *)
(* other process created a newer one meanwhile; that one is unclean.       *)
Newest ==
  \A p \in Processes :
    WritesUnder(p) /\ Existing(new[p])
      => new[p] = last \/ last \in unclean

(* Only the gateway deletes keys, and only when it is in no call; it locks *)
(* itself with it.                                                         *)
GatewayOpen ==
  Open("gateway") \/ at["gateway"] \notin {"idle", "boot"} => last \in Versions /\ Existing(last)

GatewayKnows ==
  Open("gateway") \/ Rotating("gateway") =>
    \/ dek["gateway"][last] = last
    \/ last \in unclean
    \/ Rotating("gateway") /\ mine["gateway"] = last

(* A live secret is under the newest version, behind an unclean one, or    *)
(* waits for a rotation that is clean so far.                              *)
Settled(n) == version[n] = last \/ \E u \in unclean : u > version[n]
Waits(p, n) ==
  /\ Rotating(p) /\ version[n] < mine[p]
  /\ mine[p] \notin unclean
  /\ \/ at[p] \in {"created", "retire", "list"}
     \/ n \in todo[p]
     \/ n \in writing[p] /\ at[p] # "check"
Behind == \A n \in Live : Settled(n) \/ \E p \in Processes : Waits(p, n)

Inv ==
  /\ Rows /\ Dead /\ Numbers /\ Writing /\ Clean /\ ReadsBack
  /\ Labels /\ Newest /\ GatewayOpen /\ GatewayKnows /\ Behind

-----------------------------------------------------------------------------
(* What a call leaves behind when it returns or throws.                    *)
LEMMA ReturnTypes ==
  ASSUME TypeOK, NEW p \in Processes, NEW keys \in [Versions -> 0 .. MaxVersions],
         Return(p, keys)
  PROVE  /\ running' \in [Processes -> BOOLEAN]
         /\ dek' \in [Processes -> [Versions -> 0 .. MaxVersions]]
         /\ at' \in [Processes -> Places]
         /\ old' \in [Processes -> 0 .. MaxVersions]
         /\ new' \in [Processes -> 0 .. MaxVersions]
         /\ mine' \in [Processes -> 0 .. MaxVersions]
         /\ todo' \in [Processes -> SUBSET Names]
         /\ writing' \in [Processes -> SUBSET Names]
<1> USE VaultAssumption DEF TypeOK, Return, Finish, Goes, Places, Upserting
<1>1. NoKeys \in [Versions -> 0 .. MaxVersions]
  BY DEF NoKeys
<1>2. (IF p = "gateway" THEN keys ELSE NoKeys) \in [Versions -> 0 .. MaxVersions]
  BY <1>1
<1> QED
  BY <1>2

(* A write changes one row.                                                *)
LEMMA WrittenIs ==
  ASSUME TypeOK, Writing, NEW p \in Processes, Written(p)
  PROVE  \E n \in writing[p] :
           /\ n \in Names /\ writing[p] = {n}
           /\ state' = [state EXCEPT ![n] = "live"]
           /\ version' = [version EXCEPT ![n] = new[p]]
           /\ seal' = [seal EXCEPT ![n] = mine[p]]
<1>1. PICK n \in writing[p] :
           /\ state' = [state EXCEPT ![n] = "live"]
           /\ version' = [version EXCEPT ![n] = new[p]]
           /\ seal' = [seal EXCEPT ![n] = mine[p]]
  BY DEF Written
<1>2. n \in Names /\ writing[p] = {n}
  BY DEF TypeOK, Writing
<1> QED
  BY <1>1, <1>2

(* A lookup goes to one of two places.                                     *)
LEMMA FindIs ==
  ASSUME TypeOK, NEW p \in Processes, Find(p)
  PROVE  /\ at[p] = "find"
         /\ at' = [at EXCEPT ![p] = "insert"] \/ at' = [at EXCEPT ![p] = "update"]
         /\ UNCHANGED <<last, key, wrap, state, version, seal, running, dek,
                       old, new, mine, todo, writing, unclean>>
<1>1. PICK n \in writing[p] : Goes(p, IF state[n] = "none" THEN "insert" ELSE "update")
  BY DEF Find
<1> QED
  BY <1>1 DEF Find, At, Goes, rows, locals

(* A process that starts knows no key, unless it is the gateway and opened *)
(* the vault.                                                              *)
LEMMA StartIs ==
  ASSUME TypeOK, Inv, NEW p \in Processes, Start(p)
  PROVE  /\ at[p] = "idle" /\ ~running[p]
         /\ \A q \in Processes : q # p => dek'[q] = dek[q]
         /\ \A v \in Versions : dek'[p][v] \in {0, v}
         /\ (\E v \in Versions : dek'[p][v] # 0) =>
              last \in Versions /\ Existing(last) /\ dek'[p][last] = last
         /\ dek' \in [Processes -> [Versions -> 0 .. MaxVersions]]
         /\ p = "cli" => dek'[p] = NoKeys
         /\ unclean \subseteq unclean'
         /\ \A u \in unclean' : u \in unclean \/ \E q \in Processes : Rotating(q) /\ u = mine[q]
         /\ \A q \in Processes : Rotating(q) => mine[q] \in unclean'
         /\ running' = [running EXCEPT ![p] = TRUE]
         /\ UNCHANGED <<last, key, wrap, state, version, seal, at, old, new, mine, todo, writing>>
<1> USE VaultAssumption DEF TypeOK, Inv, Dead, NoKeys, Start, rows, locals
<1>1. /\ unclean \subseteq unclean'
      /\ \A u \in unclean' : u \in unclean \/ \E q \in Processes : Rotating(q) /\ u = mine[q]
      /\ \A q \in Processes : Rotating(q) => mine[q] \in unclean'
  OBVIOUS
<1>2. CASE UNCHANGED dek
  BY <1>1, <1>2
<1>3. ASSUME NEW m \in Materials, p = "gateway", Opens(m), dek' = [dek EXCEPT ![p] = Unwrapped(m)]
      PROVE  /\ \A v \in Versions : dek'[p][v] \in {0, v}
             /\ last \in Versions /\ Existing(last) /\ dek'[p][last] = last
             /\ dek' \in [Processes -> [Versions -> 0 .. MaxVersions]]
             /\ \A q \in Processes : q # p => dek'[q] = dek[q]
  <2>1. /\ Unwrapped(m) \in [Versions -> 0 .. MaxVersions]
        /\ \A v \in Versions : Unwrapped(m)[v] \in {0, v}
    BY DEF Unwrapped, Versions
  <2>2. PICK v \in Versions : IsActive(v) /\ m \in wrap[v]
    BY <1>3 DEF Opens
  <2>3. last \in Versions /\ Existing(last) /\ v = last
    BY <2>2 DEF Rows, Existing, IsActive, Versions
  <2>4. Unwrapped(m)[last] = last
    BY <2>2, <2>3 DEF Unwrapped
  <2> QED
    BY <1>3, <2>1, <2>3, <2>4
<1> QED
  BY <1>1, <1>2, <1>3

(* The types of the versions rest on the numbers of a rotation.            *)
LEMMA TypeStep == TypeOK /\ Inv /\ Next => TypeOK'
<1> SUFFICES ASSUME TypeOK, Inv, Next PROVE TypeOK'
  OBVIOUS
<1> USE VaultAssumption DEF TypeOK, Inv, Versions, Processes, Places, Upserting, rows, locals, memory, NoKeys, Numbers, Rotating, IsActive, Live
<1>1. ASSUME NEW p \in Processes, Start(p) PROVE TypeOK'
  <2>1. /\ dek' \in [Processes -> [Versions -> 0 .. MaxVersions]]
        /\ running' = [running EXCEPT ![p] = TRUE]
        /\ UNCHANGED <<last, key, wrap, state, version, seal, at, old, new, mine, todo, writing>>
        /\ \A u \in unclean' : u \in unclean \/ \E q \in Processes : Rotating(q) /\ u = mine[q]
    <3> HIDE DEF TypeOK, Inv, Rotating, Versions, Processes, Existing
    <3> QED
      BY <1>1, StartIs
  <2>2. \A q \in Processes : Rotating(q) => mine[q] \in Versions
    OBVIOUS
  <2> HIDE DEF Rotating, Inv, Versions
  <2>3. unclean' \subseteq Versions
    BY <2>1, <2>2
  <2> QED
    BY <2>1, <2>3
<1>2. ASSUME NEW p \in Processes, Stop(p) PROVE TypeOK'
  <2>1. unclean' \subseteq Versions
    BY <1>2 DEF Stop, CutShort
  <2>2. NoKeys \in [Versions -> 0 .. MaxVersions]
    OBVIOUS
  <2> HIDE DEF NoKeys, Versions
  <2>3. dek' \in [Processes -> [Versions -> 0 .. MaxVersions]]
    BY <1>2, <2>2 DEF Stop
  <2> QED
    BY <1>2, <2>1, <2>3 DEF Stop, Finish, Goes
<1>3. ASSUME NEW p \in Processes, BootCheck(p) PROVE TypeOK'
  BY <1>3 DEF BootCheck, At, Goes
<1>4. ASSUME NEW p \in Processes, NEW m \in Materials, BootInsert(p, m) PROVE TypeOK'
  <2>1. unclean' \subseteq Versions
    BY <1>4 DEF BootInsert, NewVersion
  <2>2. wrap' \in [Versions -> SUBSET Materials]
    BY <1>4 DEF BootInsert, NewVersion
  <2>3. /\ last' \in 0 .. MaxVersions /\ key' \in [Versions -> {"none", "active", "retired"}]
        /\ mine' \in [Processes -> 0 .. MaxVersions] /\ at' \in [Processes -> Places]
    BY <1>4 DEF BootInsert, NewVersion, Goes
  <2> QED
    BY <1>4, <2>1, <2>2, <2>3 DEF BootInsert
<1>5. ASSUME NEW p \in Processes, Bootstrap(p) PROVE TypeOK'
  <2>1. PICK v \in Versions : Return(p, [dek[p] EXCEPT ![v] = mine[p]])
    BY <1>5 DEF Bootstrap
  <2>2. [dek[p] EXCEPT ![v] = mine[p]] \in [Versions -> 0 .. MaxVersions]
    OBVIOUS
  <2>3. UNCHANGED <<rows, unclean>>
    BY <1>5 DEF Bootstrap
  <2> HIDE DEF Places, Upserting, Versions, NoKeys
  <2> QED
    BY <2>1, <2>2, <2>3, ReturnTypes
<1>6. ASSUME NEW p \in Processes, NEW m \in Materials, Unlock(p, m) PROVE TypeOK'
  <2>1. Unwrapped(m) \in [Versions -> 0 .. MaxVersions]
    BY DEF Unwrapped
  <2> QED
    BY <1>6, <2>1 DEF Unlock
<1>7. ASSUME Lock PROVE TypeOK'
  BY <1>7 DEF Lock, At
<1>8. ASSUME ResetEmpty PROVE TypeOK'
  BY <1>8 DEF ResetEmpty, At
<1>9. ASSUME NEW n \in Names, StoreRead(n) PROVE TypeOK'
  <2>1. PICK v \in Versions : /\ new' = [new EXCEPT !["gateway"] = v]
                              /\ mine' = [mine EXCEPT !["gateway"] = dek["gateway"][v]]
    BY <1>9 DEF StoreRead
  <2>a. dek["gateway"][v] \in 0 .. MaxVersions
    OBVIOUS
  <2>3. new' \in [Processes -> 0 .. MaxVersions] /\ mine' \in [Processes -> 0 .. MaxVersions]
    BY <2>1, <2>a
  <2>2. writing' \in [Processes -> SUBSET Names] /\ at' \in [Processes -> Places]
    BY <1>9 DEF StoreRead, At, Goes
  <2> QED
    BY <1>9, <2>2, <2>3 DEF StoreRead
<1>10. ASSUME NEW p \in Processes, Find(p) PROVE TypeOK'
  <2>1. /\ at[p] = "find"
        /\ at' = [at EXCEPT ![p] = "insert"] \/ at' = [at EXCEPT ![p] = "update"]
        /\ UNCHANGED <<last, key, wrap, state, version, seal, running, dek,
                      old, new, mine, todo, writing, unclean>>
    BY <1>10, FindIs
  <2> QED
    BY <2>1
<1>11. ASSUME NEW p \in Processes, Update(p) PROVE TypeOK'
  BY <1>11 DEF Update, At, Written, Goes
<1>12. ASSUME NEW p \in Processes, Insert(p) PROVE TypeOK'
  BY <1>12 DEF Insert, At, Written, Goes
<1>13. ASSUME NEW p \in Processes, UpdateNothing(p) PROVE TypeOK'
  BY <1>13 DEF UpdateNothing, At, Goes
<1>14. ASSUME NEW p \in Processes, Stored(p) PROVE TypeOK'
  <2>1. Return(p, dek[p])
    BY <1>14 DEF Stored
  <2>2. dek[p] \in [Versions -> 0 .. MaxVersions]
    OBVIOUS
  <2>3. UNCHANGED <<rows, unclean>>
    BY <1>14 DEF Stored
  <2> HIDE DEF Places, Upserting, Versions, NoKeys
  <2> QED
    BY <2>1, <2>2, <2>3, ReturnTypes
<1>15. ASSUME NEW p \in Processes, Rewired(p) PROVE TypeOK'
  BY <1>15 DEF Rewired, At, Goes
<1>16. ASSUME NEW n \in Names, Revoke(n) PROVE TypeOK'
  BY <1>16 DEF Revoke, At
<1>17. ASSUME NEW n \in Names, Delete(n) PROVE TypeOK'
  BY <1>17 DEF Delete, At
<1>18. ASSUME NEW p \in Processes, RotateRead(p) PROVE TypeOK'
  BY <1>18 DEF RotateRead, At, Goes
<1>19. ASSUME NEW p \in Processes, NEW m \in Materials, RotateCreate(p, m) PROVE TypeOK'
  BY <1>19 DEF RotateCreate, At, Goes, NewVersion
<1>20. ASSUME NEW p \in Processes, RotateCreated(p) PROVE TypeOK'
  <2>1. new' \in [Processes -> 0 .. MaxVersions]
    BY <1>20 DEF RotateCreated
  <2> QED
    BY <1>20, <2>1 DEF RotateCreated, Goes
<1>21. ASSUME NEW p \in Processes, RotateRetire(p) PROVE TypeOK'
  BY <1>21 DEF RotateRetire, At, Goes
<1>22. ASSUME NEW p \in Processes, RotateList(p) PROVE TypeOK'
  BY <1>22 DEF RotateList, At, Goes
<1>23. ASSUME NEW p \in Processes, RotateSkip(p) PROVE TypeOK'
  BY <1>23 DEF RotateSkip, At
<1>24. ASSUME NEW p \in Processes, RotateNext(p) PROVE TypeOK'
  <2>1. todo' \in [Processes -> SUBSET Names] /\ writing' \in [Processes -> SUBSET Names]
    BY <1>24 DEF RotateNext
  <2> QED
    BY <1>24, <2>1 DEF RotateNext, Goes
<1>25. ASSUME NEW p \in Processes, RotateEnd(p) PROVE TypeOK'
  <2>1. Return(p, [dek[p] EXCEPT ![new[p]] = mine[p]])
    BY <1>25 DEF RotateEnd
  <2>2. [dek[p] EXCEPT ![new[p]] = mine[p]] \in [Versions -> 0 .. MaxVersions]
    OBVIOUS
  <2>3. UNCHANGED <<rows, unclean>>
    BY <1>25 DEF RotateEnd
  <2> HIDE DEF Places, Upserting, Versions, NoKeys
  <2> QED
    BY <2>1, <2>2, <2>3, ReturnTypes
<1>26. ASSUME NEW p \in Processes, Throw(p) PROVE TypeOK'
  <2>1. Return(p, dek[p])
    BY <1>26 DEF Throw
  <2>2. dek[p] \in [Versions -> 0 .. MaxVersions]
    OBVIOUS
  <2>3. UNCHANGED rows /\ unclean' \subseteq Versions
    BY <1>26 DEF Throw, CutShort
  <2> HIDE DEF Places, Upserting, Versions, NoKeys
  <2> QED
    BY <2>1, <2>2, <2>3, ReturnTypes
<1> HIDE DEF TypeOK
<1> QED
  BY <1>1, <1>2, <1>3, <1>4, <1>5, <1>6, <1>7, <1>8, <1>9, <1>10, <1>11, <1>12, <1>13, <1>14, <1>15, <1>16, <1>17, <1>18, <1>19, <1>20, <1>21, <1>22, <1>23, <1>24, <1>25, <1>26
     DEF Next, Process, Boot, Upsert, Rotate, Secret

(* Keys go only when no secret is left, and a rotation retires an older    *)
(* version than the one it created.                                        *)
LEMMA RowsStep == TypeOK /\ Inv /\ Next => Rows'
<1> SUFFICES ASSUME TypeOK, Inv, Next PROVE Rows'
  OBVIOUS
<1> USE VaultAssumption DEF TypeOK, Inv, Versions, Processes, Places, Upserting, rows, locals, memory, NoKeys, Rows, Numbers, Existing, Initialized, Rotating, Storing, Secrets, WritesUnder
<1>1. ASSUME UNCHANGED <<key, last, state, version>> PROVE Rows'
  BY <1>1
<1>2. ASSUME NEW p \in Processes, NEW m \in Materials, BootInsert(p, m) PROVE Rows'
  BY <1>2 DEF BootInsert, At, Goes, NewVersion
<1>3. ASSUME ResetEmpty PROVE Rows'
  BY <1>3 DEF ResetEmpty, At
<1>4. ASSUME NEW p \in Processes, Update(p) PROVE Rows'
  <2>1. UNCHANGED <<last, key>> /\ Existing(new[p]) /\ WritesUnder(p)
    BY <1>4 DEF Update, Written, At, WritesUnder
  <2>2. new[p] \in Versions
    BY <2>1 DEF WritesUnder
  <2>3. PICK n \in Names : /\ state' = [state EXCEPT ![n] = "live"]
                           /\ version' = [version EXCEPT ![n] = new[p]]
    BY <1>4, WrittenIs DEF Update
  <2> QED
    BY <2>1, <2>2, <2>3
<1>5. ASSUME NEW p \in Processes, Insert(p) PROVE Rows'
  <2>1. UNCHANGED <<last, key>> /\ Existing(new[p]) /\ WritesUnder(p)
    BY <1>5 DEF Insert, Written, At, WritesUnder
  <2>2. new[p] \in Versions
    BY <2>1 DEF WritesUnder
  <2>3. PICK n \in Names : /\ state' = [state EXCEPT ![n] = "live"]
                           /\ version' = [version EXCEPT ![n] = new[p]]
    BY <1>5, WrittenIs DEF Insert
  <2> QED
    BY <2>1, <2>2, <2>3
<1>6. ASSUME NEW n \in Names, Revoke(n) PROVE Rows'
  BY <1>6 DEF Revoke, At
<1>7. ASSUME NEW n \in Names, Delete(n) PROVE Rows'
  BY <1>7 DEF Delete, At
<1>8. ASSUME NEW p \in Processes, NEW m \in Materials, RotateCreate(p, m) PROVE Rows'
  BY <1>8 DEF RotateCreate, At, Goes, NewVersion
<1>9. ASSUME NEW p \in Processes, RotateRetire(p) PROVE Rows'
  BY <1>9 DEF RotateRetire, At, Goes
<1> HIDE DEF Rows
<1> QED
  BY <1>1, <1>2, <1>3, <1>4, <1>5, <1>6, <1>7, <1>8, <1>9
     DEF Next, Process, Boot, Upsert, Rotate, Secret, Start, Stop, BootCheck, Bootstrap, Unlock, Lock, StoreRead, Find, UpdateNothing, Stored, Rewired, RotateRead, RotateCreated, RotateList, RotateSkip, RotateNext, RotateEnd, Throw

(* A call is a call of a process that is alive.                            *)
LEMMA DeadStep == TypeOK /\ Inv /\ Next => Dead'
<1> SUFFICES ASSUME TypeOK, Inv, Next PROVE Dead'
  OBVIOUS
<1> USE VaultAssumption DEF TypeOK, Inv, Versions, Processes, Places, Upserting, rows, locals, memory, NoKeys, Dead
<1>1. ASSUME UNCHANGED <<at, dek, running>> PROVE Dead'
  BY <1>1
<1>2. ASSUME NEW p \in Processes, Start(p) PROVE Dead'
  BY <1>2 DEF Start, At
<1>3. ASSUME NEW p \in Processes, Stop(p) PROVE Dead'
  BY <1>3 DEF Stop, At, Finish, CutShort, Goes
<1>4. ASSUME NEW p \in Processes, BootCheck(p) PROVE Dead'
  BY <1>4 DEF BootCheck, At, Goes
<1>5. ASSUME NEW p \in Processes, NEW m \in Materials, BootInsert(p, m) PROVE Dead'
  BY <1>5 DEF BootInsert, At, Goes, NewVersion
<1>6. ASSUME NEW p \in Processes, Bootstrap(p) PROVE Dead'
  BY <1>6 DEF Bootstrap, At, Return, Finish, Goes, IsNewest
<1>7. ASSUME NEW p \in Processes, NEW m \in Materials, Unlock(p, m) PROVE Dead'
  BY <1>7 DEF Unlock, At, Unwrapped, Opens
<1>8. ASSUME Lock PROVE Dead'
  BY <1>8 DEF Lock, At
<1>9. ASSUME ResetEmpty PROVE Dead'
  BY <1>9 DEF ResetEmpty, At
<1>10. ASSUME NEW n \in Names, StoreRead(n) PROVE Dead'
  BY <1>10 DEF StoreRead, At, Goes
<1>11. ASSUME NEW p \in Processes, Find(p) PROVE Dead'
  BY <1>11 DEF Find, At, Goes
<1>12. ASSUME NEW p \in Processes, Update(p) PROVE Dead'
  BY <1>12 DEF Update, At, Written, Goes
<1>13. ASSUME NEW p \in Processes, Insert(p) PROVE Dead'
  BY <1>13 DEF Insert, At, Written, Goes
<1>14. ASSUME NEW p \in Processes, UpdateNothing(p) PROVE Dead'
  BY <1>14 DEF UpdateNothing, At, Goes
<1>15. ASSUME NEW p \in Processes, Stored(p) PROVE Dead'
  BY <1>15 DEF Stored, At, Return, Finish, Goes
<1>16. ASSUME NEW p \in Processes, Rewired(p) PROVE Dead'
  BY <1>16 DEF Rewired, At, Goes
<1>17. ASSUME NEW n \in Names, Delete(n) PROVE Dead'
  BY <1>17 DEF Delete, At
<1>18. ASSUME NEW p \in Processes, RotateRead(p) PROVE Dead'
  BY <1>18 DEF RotateRead, At, Goes
<1>19. ASSUME NEW p \in Processes, NEW m \in Materials, RotateCreate(p, m) PROVE Dead'
  BY <1>19 DEF RotateCreate, At, Goes, NewVersion
<1>20. ASSUME NEW p \in Processes, RotateCreated(p) PROVE Dead'
  BY <1>20 DEF RotateCreated, At, Goes, IsNewest
<1>21. ASSUME NEW p \in Processes, RotateRetire(p) PROVE Dead'
  BY <1>21 DEF RotateRetire, At, Goes
<1>22. ASSUME NEW p \in Processes, RotateList(p) PROVE Dead'
  BY <1>22 DEF RotateList, At, Goes
<1>23. ASSUME NEW p \in Processes, RotateNext(p) PROVE Dead'
  BY <1>23 DEF RotateNext, At, Goes, Decrypts
<1>24. ASSUME NEW p \in Processes, RotateEnd(p) PROVE Dead'
  BY <1>24 DEF RotateEnd, At, Return, Finish, Goes
<1>25. ASSUME NEW p \in Processes, Throw(p) PROVE Dead'
  BY <1>25 DEF Throw, At, Fails, Return, Finish, CutShort, Goes
<1> HIDE DEF Dead
<1> QED
  BY <1>1, <1>2, <1>3, <1>4, <1>5, <1>6, <1>7, <1>8, <1>9, <1>10, <1>11, <1>12, <1>13, <1>14, <1>15, <1>16, <1>17, <1>18, <1>19, <1>20, <1>21, <1>22, <1>23, <1>24, <1>25
     DEF Next, Process, Boot, Upsert, Rotate, Secret, Revoke, RotateSkip

(* A call begins from the newest version.                                  *)
LEMMA NumbersStep == TypeOK /\ Inv /\ Next => Numbers'
<1> SUFFICES ASSUME TypeOK, Inv, Next PROVE Numbers'
  OBVIOUS
<1> USE VaultAssumption DEF TypeOK, Inv, Versions, Processes, Places, Upserting, rows, locals, memory, NoKeys, Numbers, Rows, Existing, Initialized, IsActive, Rotating, Storing
<1>1. ASSUME UNCHANGED <<at, last, new, old, mine>> PROVE Numbers'
  BY <1>1
<1>2. ASSUME NEW p \in Processes, Stop(p) PROVE Numbers'
  BY <1>2 DEF Stop, At, Finish, CutShort, Goes
<1>3. ASSUME NEW p \in Processes, BootCheck(p) PROVE Numbers'
  BY <1>3 DEF BootCheck, At, Goes
<1>4. ASSUME NEW p \in Processes, NEW m \in Materials, BootInsert(p, m) PROVE Numbers'
  BY <1>4 DEF BootInsert, At, Goes, NewVersion
<1>5. ASSUME NEW p \in Processes, Bootstrap(p) PROVE Numbers'
  BY <1>5 DEF Bootstrap, At, Return, Finish, Goes, IsNewest
<1>6. ASSUME NEW n \in Names, StoreRead(n) PROVE Numbers'
  BY <1>6 DEF StoreRead, At, Goes
<1>7. ASSUME NEW p \in Processes, Find(p) PROVE Numbers'
  <2>1. /\ at[p] = "find"
        /\ at' = [at EXCEPT ![p] = "insert"] \/ at' = [at EXCEPT ![p] = "update"]
        /\ UNCHANGED <<last, old, new, mine>>
    BY <1>7, FindIs
  <2>2. ASSUME NEW q \in Processes
        PROVE  /\ Rotating(q)' <=> Rotating(q)
               /\ Storing(q)' <=> Storing(q)
               /\ at'[q] = at[q] \/ (at[q] = "find" /\ at'[q] \in {"insert", "update"})
    BY <2>1
  <2> HIDE DEF Rotating, Storing
  <2> QED
    BY <2>1, <2>2
<1>8. ASSUME NEW p \in Processes, Update(p) PROVE Numbers'
  BY <1>8 DEF Update, At, Written, Goes
<1>9. ASSUME NEW p \in Processes, Insert(p) PROVE Numbers'
  BY <1>9 DEF Insert, At, Written, Goes
<1>10. ASSUME NEW p \in Processes, UpdateNothing(p) PROVE Numbers'
  BY <1>10 DEF UpdateNothing, At, Goes
<1>11. ASSUME NEW p \in Processes, Stored(p) PROVE Numbers'
  BY <1>11 DEF Stored, At, Return, Finish, Goes
<1>12. ASSUME NEW p \in Processes, Rewired(p) PROVE Numbers'
  BY <1>12 DEF Rewired, At, Goes
<1>13. ASSUME NEW n \in Names, Delete(n) PROVE Numbers'
  BY <1>13 DEF Delete, At
<1>14. ASSUME NEW p \in Processes, RotateRead(p) PROVE Numbers'
  BY <1>14 DEF RotateRead, At, Goes
<1>15. ASSUME NEW p \in Processes, NEW m \in Materials, RotateCreate(p, m) PROVE Numbers'
  <2>1. old[p] \in Versions /\ old[p] < last + 1 /\ last + 1 \in Versions /\ last \in Nat
    BY <1>15 DEF RotateCreate, NewVersion, At
  <2>2. /\ at' = [at EXCEPT ![p] = "created"] /\ mine' = [mine EXCEPT ![p] = last + 1]
        /\ last' = last + 1 /\ UNCHANGED <<old, new>>
    BY <1>15 DEF RotateCreate, Goes, NewVersion
  <2> DEFINE Numbered(q) ==
        /\ at[q] = "create" \/ Rotating(q) => old[q] \in Versions /\ old[q] <= last
        /\ at[q] \in {"idle", "boot", "booted"} => old[q] = 0
        /\ at[q] = "booted" \/ Rotating(q) => mine[q] \in Versions /\ mine[q] <= last
        /\ Rotating(q) => old[q] < mine[q]
        /\ Rotating(q) /\ at[q] # "created" => new[q] \in mine[q] .. last
        /\ Storing(q) => q = "gateway" /\ new[q] \in 1 .. last
  <2>3. Numbered(p)'
    BY <2>1, <2>2
  <2>4. ASSUME NEW q \in Processes, q # p PROVE Numbered(q)'
    <3>1. Numbered(q) /\ old[q] \in Nat /\ new[q] \in Nat /\ mine[q] \in Nat
      OBVIOUS
    <3>2. at'[q] = at[q] /\ old'[q] = old[q] /\ new'[q] = new[q] /\ mine'[q] = mine[q]
      BY <2>2, <2>4
    <3>3. (Rotating(q)' <=> Rotating(q)) /\ (Storing(q)' <=> Storing(q))
      BY <3>2
    <3>4. last' = last + 1 /\ last \in Nat
      BY <2>1, <2>2
    <3> HIDE DEF Rotating, Storing, TypeOK, Inv, Numbers, Rows
    <3> QED
      BY <3>1, <3>2, <3>3, <3>4
  <2> QED
    BY <2>3, <2>4
<1>16. ASSUME NEW p \in Processes, RotateCreated(p) PROVE Numbers'
  <2>1. PICK v \in Versions : IsNewest(v) /\ new' = [new EXCEPT ![p] = v]
    BY <1>16 DEF RotateCreated
  <2>2. v = last
    BY <2>1 DEF IsNewest
  <2> QED
    BY <1>16, <2>1, <2>2 DEF RotateCreated, At, Goes
<1>17. ASSUME NEW p \in Processes, RotateRetire(p) PROVE Numbers'
  BY <1>17 DEF RotateRetire, At, Goes
<1>18. ASSUME NEW p \in Processes, RotateList(p) PROVE Numbers'
  BY <1>18 DEF RotateList, At, Goes
<1>19. ASSUME NEW p \in Processes, RotateNext(p) PROVE Numbers'
  <2>1. at[p] = "rewire" /\ at' = [at EXCEPT ![p] = "find"] /\ UNCHANGED <<last, old, new, mine>>
    BY <1>19 DEF RotateNext, At, Goes
  <2> QED
    BY <2>1
<1>20. ASSUME NEW p \in Processes, RotateEnd(p) PROVE Numbers'
  BY <1>20 DEF RotateEnd, At, Return, Finish, Goes
<1>21. ASSUME NEW p \in Processes, Throw(p) PROVE Numbers'
  BY <1>21 DEF Throw, At, Fails, Return, Finish, CutShort, Goes
<1> HIDE DEF Numbers
<1> QED
  BY <1>1, <1>2, <1>3, <1>4, <1>5, <1>6, <1>7, <1>8, <1>9, <1>10, <1>11, <1>12, <1>13, <1>14, <1>15, <1>16, <1>17, <1>18, <1>19, <1>20, <1>21
     DEF Next, Process, Boot, Upsert, Rotate, Secret, Start, Unlock, Lock, ResetEmpty, Revoke, RotateSkip

(* One secret at a time.                                                   *)
LEMMA WritingStep == TypeOK /\ Inv /\ Next => Writing'
<1> SUFFICES ASSUME TypeOK, Inv, Next PROVE Writing'
  OBVIOUS
<1> USE VaultAssumption DEF TypeOK, Inv, Versions, Processes, Places, Upserting, rows, locals, memory, NoKeys, Writing
<1>1. ASSUME UNCHANGED <<at, writing>> PROVE Writing'
  BY <1>1
<1>2. ASSUME NEW p \in Processes, Stop(p) PROVE Writing'
  BY <1>2 DEF Stop, At, Finish, CutShort, Goes
<1>3. ASSUME NEW p \in Processes, BootCheck(p) PROVE Writing'
  BY <1>3 DEF BootCheck, At, Goes
<1>4. ASSUME NEW p \in Processes, NEW m \in Materials, BootInsert(p, m) PROVE Writing'
  BY <1>4 DEF BootInsert, At, Goes, NewVersion
<1>5. ASSUME NEW p \in Processes, Bootstrap(p) PROVE Writing'
  BY <1>5 DEF Bootstrap, At, Return, Finish, Goes, IsNewest
<1>6. ASSUME NEW n \in Names, StoreRead(n) PROVE Writing'
  BY <1>6 DEF StoreRead, At, Goes
<1>7. ASSUME NEW p \in Processes, Find(p) PROVE Writing'
  BY <1>7 DEF Find, At, Goes
<1>8. ASSUME NEW p \in Processes, Update(p) PROVE Writing'
  BY <1>8 DEF Update, At, Written, Goes
<1>9. ASSUME NEW p \in Processes, Insert(p) PROVE Writing'
  BY <1>9 DEF Insert, At, Written, Goes
<1>10. ASSUME NEW p \in Processes, UpdateNothing(p) PROVE Writing'
  BY <1>10 DEF UpdateNothing, At, Goes
<1>11. ASSUME NEW p \in Processes, Stored(p) PROVE Writing'
  BY <1>11 DEF Stored, At, Return, Finish, Goes
<1>12. ASSUME NEW p \in Processes, Rewired(p) PROVE Writing'
  BY <1>12 DEF Rewired, At, Goes
<1>13. ASSUME NEW n \in Names, Delete(n) PROVE Writing'
  BY <1>13 DEF Delete, At
<1>14. ASSUME NEW p \in Processes, RotateRead(p) PROVE Writing'
  BY <1>14 DEF RotateRead, At, Goes
<1>15. ASSUME NEW p \in Processes, NEW m \in Materials, RotateCreate(p, m) PROVE Writing'
  BY <1>15 DEF RotateCreate, At, Goes, NewVersion
<1>16. ASSUME NEW p \in Processes, RotateCreated(p) PROVE Writing'
  BY <1>16 DEF RotateCreated, At, Goes, IsNewest
<1>17. ASSUME NEW p \in Processes, RotateRetire(p) PROVE Writing'
  BY <1>17 DEF RotateRetire, At, Goes
<1>18. ASSUME NEW p \in Processes, RotateList(p) PROVE Writing'
  BY <1>18 DEF RotateList, At, Goes
<1>19. ASSUME NEW p \in Processes, RotateNext(p) PROVE Writing'
  BY <1>19 DEF RotateNext, At, Goes, Decrypts
<1>20. ASSUME NEW p \in Processes, RotateEnd(p) PROVE Writing'
  BY <1>20 DEF RotateEnd, At, Return, Finish, Goes
<1>21. ASSUME NEW p \in Processes, Throw(p) PROVE Writing'
  BY <1>21 DEF Throw, At, Fails, Return, Finish, CutShort, Goes
<1> HIDE DEF Writing
<1> QED
  BY <1>1, <1>2, <1>3, <1>4, <1>5, <1>6, <1>7, <1>8, <1>9, <1>10, <1>11, <1>12, <1>13, <1>14, <1>15, <1>16, <1>17, <1>18, <1>19, <1>20, <1>21
     DEF Next, Process, Boot, Upsert, Rotate, Secret, Start, Unlock, Lock, ResetEmpty, Revoke, RotateSkip

(* A process that starts makes the rotations of the others unclean.        *)
LEMMA CleanStep == TypeOK /\ Inv /\ Next => Clean'
<1> SUFFICES ASSUME TypeOK, Inv, Next PROVE Clean'
  OBVIOUS
<1> USE VaultAssumption DEF TypeOK, Inv, Versions, Processes, Places, Upserting, rows, locals, memory, NoKeys, Dead, Numbers, Rows, Writing, Clean, ReadsBack, Existing, Rotating, Live, Initialized, Secrets
<1>1. ASSUME UNCHANGED <<at, key, last, new, old, mine, running, state, unclean, writing>> PROVE Clean'
  BY <1>1
<1>2. ASSUME NEW p \in Processes, Start(p) PROVE Clean'
  BY <1>2 DEF Start, At
<1>3. ASSUME NEW p \in Processes, Stop(p) PROVE Clean'
  BY <1>3 DEF Stop, At, Finish, CutShort, Goes
<1>4. ASSUME NEW p \in Processes, BootCheck(p) PROVE Clean'
  BY <1>4 DEF BootCheck, At, Goes
<1>5. ASSUME NEW p \in Processes, NEW m \in Materials, BootInsert(p, m) PROVE Clean'
  BY <1>5 DEF BootInsert, At, Goes, NewVersion
<1>6. ASSUME NEW p \in Processes, Bootstrap(p) PROVE Clean'
  BY <1>6 DEF Bootstrap, At, Return, Finish, Goes, IsNewest
<1>7. ASSUME ResetEmpty PROVE Clean'
  BY <1>7 DEF ResetEmpty, At
<1>8. ASSUME NEW n \in Names, StoreRead(n) PROVE Clean'
  BY <1>8 DEF StoreRead, At, Goes
<1>9. ASSUME NEW p \in Processes, Find(p) PROVE Clean'
  BY <1>9 DEF Find, At, Goes
<1>10. ASSUME NEW p \in Processes, Update(p) PROVE Clean'
  BY <1>10 DEF Update, At, Written, Goes
<1>11. ASSUME NEW p \in Processes, Insert(p) PROVE Clean'
  BY <1>11 DEF Insert, At, Written, Goes
<1>12. ASSUME NEW p \in Processes, UpdateNothing(p) PROVE Clean'
  BY <1>12 DEF UpdateNothing, At, Goes
<1>13. ASSUME NEW p \in Processes, Stored(p) PROVE Clean'
  BY <1>13 DEF Stored, At, Return, Finish, Goes
<1>14. ASSUME NEW p \in Processes, Rewired(p) PROVE Clean'
  BY <1>14 DEF Rewired, At, Goes
<1>15. ASSUME NEW n \in Names, Revoke(n) PROVE Clean'
  BY <1>15 DEF Revoke, At
<1>16. ASSUME NEW n \in Names, Delete(n) PROVE Clean'
  BY <1>16 DEF Delete, At
<1>17. ASSUME NEW p \in Processes, RotateRead(p) PROVE Clean'
  BY <1>17 DEF RotateRead, At, Goes
<1>18. ASSUME NEW p \in Processes, NEW m \in Materials, RotateCreate(p, m) PROVE Clean'
  BY <1>18 DEF RotateCreate, At, Goes, NewVersion
<1>19. ASSUME NEW p \in Processes, RotateCreated(p) PROVE Clean'
  BY <1>19 DEF RotateCreated, At, Goes, IsNewest
<1>20. ASSUME NEW p \in Processes, RotateRetire(p) PROVE Clean'
  BY <1>20 DEF RotateRetire, At, Goes
<1>21. ASSUME NEW p \in Processes, RotateList(p) PROVE Clean'
  BY <1>21 DEF RotateList, At, Goes
<1>22. ASSUME NEW p \in Processes, RotateNext(p) PROVE Clean'
  BY <1>22 DEF RotateNext, At, Goes, Decrypts
<1>23. ASSUME NEW p \in Processes, RotateEnd(p) PROVE Clean'
  BY <1>23 DEF RotateEnd, At, Return, Finish, Goes
<1>24. ASSUME NEW p \in Processes, Throw(p) PROVE Clean'
  BY <1>24 DEF Throw, At, Fails, Return, Finish, CutShort, Goes
<1> HIDE DEF Clean
<1> QED
  BY <1>1, <1>2, <1>3, <1>4, <1>5, <1>6, <1>7, <1>8, <1>9, <1>10, <1>11, <1>12, <1>13, <1>14, <1>15, <1>16, <1>17, <1>18, <1>19, <1>20, <1>21, <1>22, <1>23, <1>24
     DEF Next, Process, Boot, Upsert, Rotate, Secret, Unlock, Lock, RotateSkip

(* Who inserts a version before the other read its own back, inserts an    *)
(* unclean one: it bootstraps into a vault that is not empty any more, or  *)
(* rotates beside a process that is alive.                                 *)
LEMMA ReadsBackStep == TypeOK /\ Inv /\ Next => ReadsBack'
<1> SUFFICES ASSUME TypeOK, Inv, Next PROVE ReadsBack'
  OBVIOUS
<1> USE VaultAssumption DEF TypeOK, Inv, Versions, Processes, Places, Upserting, rows, locals, memory, NoKeys, Dead, Numbers, Rows, GatewayOpen, ReadsBack, Existing, Rotating, Initialized
<1>1. ASSUME UNCHANGED <<at, key, last, mine, unclean>> PROVE ReadsBack'
  BY <1>1
<1>2. ASSUME NEW p \in Processes, Start(p) PROVE ReadsBack'
  BY <1>2 DEF Start, At
<1>3. ASSUME NEW p \in Processes, Stop(p) PROVE ReadsBack'
  BY <1>3 DEF Stop, At, Finish, CutShort, Goes
<1>4. ASSUME NEW p \in Processes, BootCheck(p) PROVE ReadsBack'
  BY <1>4 DEF BootCheck, At, Goes
<1>5. ASSUME NEW p \in Processes, NEW m \in Materials, BootInsert(p, m) PROVE ReadsBack'
  BY <1>5 DEF BootInsert, At, Goes, NewVersion
<1>6. ASSUME NEW p \in Processes, Bootstrap(p) PROVE ReadsBack'
  BY <1>6 DEF Bootstrap, At, Return, Finish, Goes, IsNewest
<1>7. ASSUME ResetEmpty PROVE ReadsBack'
  BY <1>7 DEF ResetEmpty, At
<1>8. ASSUME NEW n \in Names, StoreRead(n) PROVE ReadsBack'
  BY <1>8 DEF StoreRead, At, Goes
<1>9. ASSUME NEW p \in Processes, Find(p) PROVE ReadsBack'
  BY <1>9 DEF Find, At, Goes
<1>10. ASSUME NEW p \in Processes, Update(p) PROVE ReadsBack'
  BY <1>10 DEF Update, At, Written, Goes
<1>11. ASSUME NEW p \in Processes, Insert(p) PROVE ReadsBack'
  BY <1>11 DEF Insert, At, Written, Goes
<1>12. ASSUME NEW p \in Processes, UpdateNothing(p) PROVE ReadsBack'
  BY <1>12 DEF UpdateNothing, At, Goes
<1>13. ASSUME NEW p \in Processes, Stored(p) PROVE ReadsBack'
  BY <1>13 DEF Stored, At, Return, Finish, Goes
<1>14. ASSUME NEW p \in Processes, Rewired(p) PROVE ReadsBack'
  BY <1>14 DEF Rewired, At, Goes
<1>15. ASSUME NEW n \in Names, Delete(n) PROVE ReadsBack'
  BY <1>15 DEF Delete, At
<1>16. ASSUME NEW p \in Processes, RotateRead(p) PROVE ReadsBack'
  BY <1>16 DEF RotateRead, At, Goes
<1>17. ASSUME NEW p \in Processes, NEW m \in Materials, RotateCreate(p, m) PROVE ReadsBack'
  BY <1>17 DEF RotateCreate, At, Goes, NewVersion
<1>18. ASSUME NEW p \in Processes, RotateCreated(p) PROVE ReadsBack'
  BY <1>18 DEF RotateCreated, At, Goes, IsNewest
<1>19. ASSUME NEW p \in Processes, RotateRetire(p) PROVE ReadsBack'
  BY <1>19 DEF RotateRetire, At, Goes
<1>20. ASSUME NEW p \in Processes, RotateList(p) PROVE ReadsBack'
  BY <1>20 DEF RotateList, At, Goes
<1>21. ASSUME NEW p \in Processes, RotateNext(p) PROVE ReadsBack'
  BY <1>21 DEF RotateNext, At, Goes, Decrypts
<1>22. ASSUME NEW p \in Processes, RotateEnd(p) PROVE ReadsBack'
  BY <1>22 DEF RotateEnd, At, Return, Finish, Goes
<1>23. ASSUME NEW p \in Processes, Throw(p) PROVE ReadsBack'
  BY <1>23 DEF Throw, At, Fails, Return, Finish, CutShort, Goes
<1> HIDE DEF ReadsBack
<1> QED
  BY <1>1, <1>2, <1>3, <1>4, <1>5, <1>6, <1>7, <1>8, <1>9, <1>10, <1>11, <1>12, <1>13, <1>14, <1>15, <1>16, <1>17, <1>18, <1>19, <1>20, <1>21, <1>22, <1>23
     DEF Next, Process, Boot, Upsert, Rotate, Secret, Unlock, Lock, Revoke, RotateSkip

(* A DEK is kept, and used, under the version that was read back.          *)
LEMMA LabelsStep == TypeOK /\ Inv /\ Next => Labels'
<1> SUFFICES ASSUME TypeOK, Inv, Next PROVE Labels'
  OBVIOUS
<1> USE VaultAssumption DEF TypeOK, Inv, Versions, Processes, Places, Upserting, rows, locals, memory, NoKeys, Dead, Numbers, Rows, Writing, GatewayOpen, ReadsBack, Labels, WritesUnder, Existing, Rotating, Storing, Initialized, IsActive
<1>1. ASSUME UNCHANGED <<at, old, new, mine, unclean, dek, state, version, seal>> PROVE Labels'
  BY <1>1
<1>2. ASSUME NEW p \in Processes, Start(p) PROVE Labels'
  <2>1. /\ at[p] = "idle" /\ UNCHANGED <<last, key, wrap, state, version, seal, at, old, new, mine, todo, writing>>
        /\ unclean \subseteq unclean'
        /\ \A q \in Processes : q # p => dek'[q] = dek[q]
        /\ \A v \in Versions : dek'[p][v] \in {0, v}
    <3> HIDE DEF TypeOK, Inv, Rotating, Versions, Processes, Existing
    <3> QED
      BY <1>2, StartIs
  <2> QED
    BY <2>1
<1>3. ASSUME NEW p \in Processes, Stop(p) PROVE Labels'
  BY <1>3 DEF Stop, At, Finish, CutShort, Goes
<1>4. ASSUME NEW p \in Processes, BootCheck(p) PROVE Labels'
  BY <1>4 DEF BootCheck, At, Goes
<1>5. ASSUME NEW p \in Processes, NEW m \in Materials, BootInsert(p, m) PROVE Labels'
  BY <1>5 DEF BootInsert, At, Goes, NewVersion
<1>6. ASSUME NEW p \in Processes, Bootstrap(p) PROVE Labels'
  BY <1>6 DEF Bootstrap, At, Return, Finish, Goes, IsNewest
<1>7. ASSUME NEW p \in Processes, NEW m \in Materials, Unlock(p, m) PROVE Labels'
  BY <1>7 DEF Unlock, At, Unwrapped, Opens
<1>8. ASSUME Lock PROVE Labels'
  BY <1>8 DEF Lock, At
<1>9. ASSUME ResetEmpty PROVE Labels'
  BY <1>9 DEF ResetEmpty, At
<1>10. ASSUME NEW n \in Names, StoreRead(n) PROVE Labels'
  BY <1>10 DEF StoreRead, At, Goes
<1>11. ASSUME NEW p \in Processes, Find(p) PROVE Labels'
  <2>1. /\ at[p] = "find"
        /\ at' = [at EXCEPT ![p] = "insert"] \/ at' = [at EXCEPT ![p] = "update"]
        /\ UNCHANGED <<last, key, wrap, state, version, seal, running, dek,
                      old, new, mine, todo, writing, unclean>>
    BY <1>11, FindIs
  <2> QED
    BY <2>1
<1>12. ASSUME NEW p \in Processes, Update(p) PROVE Labels'
  <2>1. /\ UNCHANGED <<dek, old, new, mine, unclean>> /\ at' = [at EXCEPT ![p] = "check"]
        /\ WritesUnder(p)
    BY <1>12 DEF Update, Written, At, Goes, WritesUnder
  <2>2. PICK n \in Names : /\ state' = [state EXCEPT ![n] = "live"]
                           /\ version' = [version EXCEPT ![n] = new[p]]
                           /\ seal' = [seal EXCEPT ![n] = mine[p]]
    BY <1>12, WrittenIs DEF Update
  <2>3. \A m \in Names : state'[m] # "none" => seal'[m] = version'[m] \/ version'[m] \in unclean
    BY <2>1, <2>2
  <2> QED
    BY <2>1, <2>3
<1>13. ASSUME NEW p \in Processes, Insert(p) PROVE Labels'
  <2>1. /\ UNCHANGED <<dek, old, new, mine, unclean>> /\ at' = [at EXCEPT ![p] = "check"]
        /\ WritesUnder(p)
    BY <1>13 DEF Insert, Written, At, Goes, WritesUnder
  <2>2. PICK n \in Names : /\ state' = [state EXCEPT ![n] = "live"]
                           /\ version' = [version EXCEPT ![n] = new[p]]
                           /\ seal' = [seal EXCEPT ![n] = mine[p]]
    BY <1>13, WrittenIs DEF Insert
  <2>3. \A m \in Names : state'[m] # "none" => seal'[m] = version'[m] \/ version'[m] \in unclean
    BY <2>1, <2>2
  <2> QED
    BY <2>1, <2>3
<1>14. ASSUME NEW p \in Processes, UpdateNothing(p) PROVE Labels'
  BY <1>14 DEF UpdateNothing, At, Goes
<1>15. ASSUME NEW p \in Processes, Stored(p) PROVE Labels'
  BY <1>15 DEF Stored, At, Return, Finish, Goes
<1>16. ASSUME NEW p \in Processes, Rewired(p) PROVE Labels'
  BY <1>16 DEF Rewired, At, Goes
<1>17. ASSUME NEW n \in Names, Revoke(n) PROVE Labels'
  BY <1>17 DEF Revoke, At
<1>18. ASSUME NEW n \in Names, Delete(n) PROVE Labels'
  BY <1>18 DEF Delete, At
<1>19. ASSUME NEW p \in Processes, RotateRead(p) PROVE Labels'
  BY <1>19 DEF RotateRead, At, Goes
<1>20. ASSUME NEW p \in Processes, NEW m \in Materials, RotateCreate(p, m) PROVE Labels'
  BY <1>20 DEF RotateCreate, At, Goes, NewVersion
<1>21. ASSUME NEW p \in Processes, RotateCreated(p) PROVE Labels'
  BY <1>21 DEF RotateCreated, At, Goes, IsNewest
<1>22. ASSUME NEW p \in Processes, RotateRetire(p) PROVE Labels'
  BY <1>22 DEF RotateRetire, At, Goes
<1>23. ASSUME NEW p \in Processes, RotateList(p) PROVE Labels'
  BY <1>23 DEF RotateList, At, Goes
<1>24. ASSUME NEW p \in Processes, RotateNext(p) PROVE Labels'
  BY <1>24 DEF RotateNext, At, Goes, Decrypts
<1>25. ASSUME NEW p \in Processes, RotateEnd(p) PROVE Labels'
  BY <1>25 DEF RotateEnd, At, Return, Finish, Goes
<1>26. ASSUME NEW p \in Processes, Throw(p) PROVE Labels'
  BY <1>26 DEF Throw, At, Fails, Return, Finish, CutShort, Goes
<1> HIDE DEF Labels
<1> QED
  BY <1>1, <1>2, <1>3, <1>4, <1>5, <1>6, <1>7, <1>8, <1>9, <1>10, <1>11, <1>12, <1>13, <1>14, <1>15, <1>16, <1>17, <1>18, <1>19, <1>20, <1>21, <1>22, <1>23, <1>24, <1>25, <1>26
     DEF Next, Process, Boot, Upsert, Rotate, Secret, RotateSkip

(* Who creates a version while the other is in a call creates an unclean.  *)
LEMMA NewestStep == TypeOK /\ Inv /\ Next => Newest'
<1> SUFFICES ASSUME TypeOK, Inv, Next PROVE Newest'
  OBVIOUS
<1> USE VaultAssumption DEF TypeOK, Inv, Versions, Processes, Places, Upserting, rows, locals, memory, NoKeys, Dead, Numbers, Rows, GatewayOpen, Newest, WritesUnder, Existing, Rotating, Storing, Initialized, IsActive
<1>1. ASSUME UNCHANGED <<at, old, key, last, new, unclean>> PROVE Newest'
  BY <1>1
<1>2. ASSUME NEW p \in Processes, Start(p) PROVE Newest'
  BY <1>2 DEF Start, At
<1>3. ASSUME NEW p \in Processes, Stop(p) PROVE Newest'
  BY <1>3 DEF Stop, At, Finish, CutShort, Goes
<1>4. ASSUME NEW p \in Processes, BootCheck(p) PROVE Newest'
  BY <1>4 DEF BootCheck, At, Goes
<1>5. ASSUME NEW p \in Processes, NEW m \in Materials, BootInsert(p, m) PROVE Newest'
  BY <1>5 DEF BootInsert, At, Goes, NewVersion
<1>6. ASSUME NEW p \in Processes, Bootstrap(p) PROVE Newest'
  BY <1>6 DEF Bootstrap, At, Return, Finish, Goes, IsNewest
<1>7. ASSUME ResetEmpty PROVE Newest'
  BY <1>7 DEF ResetEmpty, At
<1>8. ASSUME NEW n \in Names, StoreRead(n) PROVE Newest'
  BY <1>8 DEF StoreRead, At, Goes
<1>9. ASSUME NEW p \in Processes, Find(p) PROVE Newest'
  BY <1>9 DEF Find, At, Goes
<1>10. ASSUME NEW p \in Processes, Update(p) PROVE Newest'
  BY <1>10 DEF Update, At, Written, Goes
<1>11. ASSUME NEW p \in Processes, Insert(p) PROVE Newest'
  BY <1>11 DEF Insert, At, Written, Goes
<1>12. ASSUME NEW p \in Processes, UpdateNothing(p) PROVE Newest'
  BY <1>12 DEF UpdateNothing, At, Goes
<1>13. ASSUME NEW p \in Processes, Stored(p) PROVE Newest'
  BY <1>13 DEF Stored, At, Return, Finish, Goes
<1>14. ASSUME NEW p \in Processes, Rewired(p) PROVE Newest'
  BY <1>14 DEF Rewired, At, Goes
<1>15. ASSUME NEW n \in Names, Delete(n) PROVE Newest'
  BY <1>15 DEF Delete, At
<1>16. ASSUME NEW p \in Processes, RotateRead(p) PROVE Newest'
  BY <1>16 DEF RotateRead, At, Goes
<1>17. ASSUME NEW p \in Processes, NEW m \in Materials, RotateCreate(p, m) PROVE Newest'
  BY <1>17 DEF RotateCreate, At, Goes, NewVersion
<1>18. ASSUME NEW p \in Processes, RotateCreated(p) PROVE Newest'
  BY <1>18 DEF RotateCreated, At, Goes, IsNewest
<1>19. ASSUME NEW p \in Processes, RotateRetire(p) PROVE Newest'
  BY <1>19 DEF RotateRetire, At, Goes
<1>20. ASSUME NEW p \in Processes, RotateList(p) PROVE Newest'
  BY <1>20 DEF RotateList, At, Goes
<1>21. ASSUME NEW p \in Processes, RotateNext(p) PROVE Newest'
  BY <1>21 DEF RotateNext, At, Goes, Decrypts
<1>22. ASSUME NEW p \in Processes, RotateEnd(p) PROVE Newest'
  BY <1>22 DEF RotateEnd, At, Return, Finish, Goes
<1>23. ASSUME NEW p \in Processes, Throw(p) PROVE Newest'
  BY <1>23 DEF Throw, At, Fails, Return, Finish, CutShort, Goes
<1> HIDE DEF Newest
<1> QED
  BY <1>1, <1>2, <1>3, <1>4, <1>5, <1>6, <1>7, <1>8, <1>9, <1>10, <1>11, <1>12, <1>13, <1>14, <1>15, <1>16, <1>17, <1>18, <1>19, <1>20, <1>21, <1>22, <1>23
     DEF Next, Process, Boot, Upsert, Rotate, Secret, Unlock, Lock, Revoke, RotateSkip

(* The command line creates keys and retires old ones, and deletes none.   *)
LEMMA GatewayOpenStep == TypeOK /\ Inv /\ Next => GatewayOpen'
<1> SUFFICES ASSUME TypeOK, Inv, Next PROVE GatewayOpen'
  OBVIOUS
<1> USE VaultAssumption DEF TypeOK, Inv, Versions, Processes, Places, Upserting, rows, locals, memory, NoKeys, Dead, Numbers, Rows, GatewayOpen, Existing, Open, Initialized, IsActive, Rotating
<1>1. ASSUME UNCHANGED <<at, dek, key, last>> PROVE GatewayOpen'
  BY <1>1
<1>2. ASSUME NEW p \in Processes, Start(p) PROVE GatewayOpen'
  <2>1. /\ at[p] = "idle" /\ UNCHANGED <<last, key, wrap, state, version, seal, at, old, new, mine, todo, writing>>
        /\ unclean \subseteq unclean'
        /\ \A q \in Processes : q # p => dek'[q] = dek[q]
        /\ (\E v \in Versions : dek'[p][v] # 0) =>
             last \in Versions /\ Existing(last) /\ dek'[p][last] = last
    <3> HIDE DEF TypeOK, Inv, Rotating, Versions, Processes, Existing
    <3> QED
      BY <1>2, StartIs
  <2> QED
    BY <2>1
<1>3. ASSUME NEW p \in Processes, Stop(p) PROVE GatewayOpen'
  BY <1>3 DEF Stop, At, Finish, CutShort, Goes
<1>4. ASSUME NEW p \in Processes, BootCheck(p) PROVE GatewayOpen'
  BY <1>4 DEF BootCheck, At, Goes
<1>5. ASSUME NEW p \in Processes, NEW m \in Materials, BootInsert(p, m) PROVE GatewayOpen'
  BY <1>5 DEF BootInsert, At, Goes, NewVersion
<1>6. ASSUME NEW p \in Processes, Bootstrap(p) PROVE GatewayOpen'
  BY <1>6 DEF Bootstrap, At, Return, Finish, Goes, IsNewest
<1>7. ASSUME NEW p \in Processes, NEW m \in Materials, Unlock(p, m) PROVE GatewayOpen'
  BY <1>7 DEF Unlock, At, Unwrapped, Opens
<1>8. ASSUME Lock PROVE GatewayOpen'
  BY <1>8 DEF Lock, At
<1>9. ASSUME ResetEmpty PROVE GatewayOpen'
  BY <1>9 DEF ResetEmpty, At
<1>10. ASSUME NEW n \in Names, StoreRead(n) PROVE GatewayOpen'
  BY <1>10 DEF StoreRead, At, Goes
<1>11. ASSUME NEW p \in Processes, Find(p) PROVE GatewayOpen'
  BY <1>11 DEF Find, At, Goes
<1>12. ASSUME NEW p \in Processes, Update(p) PROVE GatewayOpen'
  BY <1>12 DEF Update, At, Written, Goes
<1>13. ASSUME NEW p \in Processes, Insert(p) PROVE GatewayOpen'
  BY <1>13 DEF Insert, At, Written, Goes
<1>14. ASSUME NEW p \in Processes, UpdateNothing(p) PROVE GatewayOpen'
  BY <1>14 DEF UpdateNothing, At, Goes
<1>15. ASSUME NEW p \in Processes, Stored(p) PROVE GatewayOpen'
  BY <1>15 DEF Stored, At, Return, Finish, Goes
<1>16. ASSUME NEW p \in Processes, Rewired(p) PROVE GatewayOpen'
  BY <1>16 DEF Rewired, At, Goes
<1>17. ASSUME NEW n \in Names, Delete(n) PROVE GatewayOpen'
  BY <1>17 DEF Delete, At
<1>18. ASSUME NEW p \in Processes, RotateRead(p) PROVE GatewayOpen'
  BY <1>18 DEF RotateRead, At, Goes
<1>19. ASSUME NEW p \in Processes, NEW m \in Materials, RotateCreate(p, m) PROVE GatewayOpen'
  BY <1>19 DEF RotateCreate, At, Goes, NewVersion
<1>20. ASSUME NEW p \in Processes, RotateCreated(p) PROVE GatewayOpen'
  BY <1>20 DEF RotateCreated, At, Goes, IsNewest
<1>21. ASSUME NEW p \in Processes, RotateRetire(p) PROVE GatewayOpen'
  BY <1>21 DEF RotateRetire, At, Goes
<1>22. ASSUME NEW p \in Processes, RotateList(p) PROVE GatewayOpen'
  BY <1>22 DEF RotateList, At, Goes
<1>23. ASSUME NEW p \in Processes, RotateNext(p) PROVE GatewayOpen'
  BY <1>23 DEF RotateNext, At, Goes, Decrypts
<1>24. ASSUME NEW p \in Processes, RotateEnd(p) PROVE GatewayOpen'
  BY <1>24 DEF RotateEnd, At, Return, Finish, Goes
<1>25. ASSUME NEW p \in Processes, Throw(p) PROVE GatewayOpen'
  BY <1>25 DEF Throw, At, Fails, Return, Finish, CutShort, Goes
<1> HIDE DEF GatewayOpen
<1> QED
  BY <1>1, <1>2, <1>3, <1>4, <1>5, <1>6, <1>7, <1>8, <1>9, <1>10, <1>11, <1>12, <1>13, <1>14, <1>15, <1>16, <1>17, <1>18, <1>19, <1>20, <1>21, <1>22, <1>23, <1>24, <1>25
     DEF Next, Process, Boot, Upsert, Rotate, Secret, Revoke, RotateSkip

(* What the gateway opened, or created itself, or finds unclean.           *)
LEMMA GatewayKnowsStep == TypeOK /\ Inv /\ Next => GatewayKnows'
<1> SUFFICES ASSUME TypeOK, Inv, Next PROVE GatewayKnows'
  OBVIOUS
<1> USE VaultAssumption DEF TypeOK, Inv, Versions, Processes, Places, Upserting, rows, locals, memory, NoKeys, Dead, Numbers, Rows, GatewayOpen, GatewayKnows, ReadsBack, Newest, Labels, WritesUnder, Existing, IsActive, Rotating, Storing, Open, Initialized
<1>1. ASSUME UNCHANGED <<at, old, dek, last, mine, unclean>> PROVE GatewayKnows'
  BY <1>1
<1>2. ASSUME NEW p \in Processes, Start(p) PROVE GatewayKnows'
  <2>1. /\ at[p] = "idle" /\ UNCHANGED <<last, key, wrap, state, version, seal, at, old, new, mine, todo, writing>>
        /\ unclean \subseteq unclean'
        /\ \A q \in Processes : q # p => dek'[q] = dek[q]
        /\ (\E v \in Versions : dek'[p][v] # 0) =>
             last \in Versions /\ Existing(last) /\ dek'[p][last] = last
    <3> HIDE DEF TypeOK, Inv, Rotating, Versions, Processes, Existing
    <3> QED
      BY <1>2, StartIs
  <2> QED
    BY <2>1
<1>3. ASSUME NEW p \in Processes, Stop(p) PROVE GatewayKnows'
  BY <1>3 DEF Stop, At, Finish, CutShort, Goes
<1>4. ASSUME NEW p \in Processes, BootCheck(p) PROVE GatewayKnows'
  BY <1>4 DEF BootCheck, At, Goes
<1>5. ASSUME NEW p \in Processes, NEW m \in Materials, BootInsert(p, m) PROVE GatewayKnows'
  BY <1>5 DEF BootInsert, At, Goes, NewVersion
<1>6. ASSUME NEW p \in Processes, Bootstrap(p) PROVE GatewayKnows'
  BY <1>6 DEF Bootstrap, At, Return, Finish, Goes, IsNewest
<1>7. ASSUME NEW p \in Processes, NEW m \in Materials, Unlock(p, m) PROVE GatewayKnows'
  BY <1>7 DEF Unlock, At, Unwrapped, Opens
<1>8. ASSUME Lock PROVE GatewayKnows'
  BY <1>8 DEF Lock, At
<1>9. ASSUME ResetEmpty PROVE GatewayKnows'
  BY <1>9 DEF ResetEmpty, At
<1>10. ASSUME NEW n \in Names, StoreRead(n) PROVE GatewayKnows'
  BY <1>10 DEF StoreRead, At, Goes
<1>11. ASSUME NEW p \in Processes, Find(p) PROVE GatewayKnows'
  BY <1>11 DEF Find, At, Goes
<1>12. ASSUME NEW p \in Processes, Update(p) PROVE GatewayKnows'
  BY <1>12 DEF Update, At, Written, Goes
<1>13. ASSUME NEW p \in Processes, Insert(p) PROVE GatewayKnows'
  BY <1>13 DEF Insert, At, Written, Goes
<1>14. ASSUME NEW p \in Processes, UpdateNothing(p) PROVE GatewayKnows'
  BY <1>14 DEF UpdateNothing, At, Goes
<1>15. ASSUME NEW p \in Processes, Stored(p) PROVE GatewayKnows'
  BY <1>15 DEF Stored, At, Return, Finish, Goes
<1>16. ASSUME NEW p \in Processes, Rewired(p) PROVE GatewayKnows'
  BY <1>16 DEF Rewired, At, Goes
<1>17. ASSUME NEW n \in Names, Delete(n) PROVE GatewayKnows'
  BY <1>17 DEF Delete, At
<1>18. ASSUME NEW p \in Processes, RotateRead(p) PROVE GatewayKnows'
  BY <1>18 DEF RotateRead, At, Goes
<1>19. ASSUME NEW p \in Processes, NEW m \in Materials, RotateCreate(p, m) PROVE GatewayKnows'
  BY <1>19 DEF RotateCreate, At, Goes, NewVersion
<1>20. ASSUME NEW p \in Processes, RotateCreated(p) PROVE GatewayKnows'
  BY <1>20 DEF RotateCreated, At, Goes, IsNewest
<1>21. ASSUME NEW p \in Processes, RotateRetire(p) PROVE GatewayKnows'
  BY <1>21 DEF RotateRetire, At, Goes
<1>22. ASSUME NEW p \in Processes, RotateList(p) PROVE GatewayKnows'
  BY <1>22 DEF RotateList, At, Goes
<1>23. ASSUME NEW p \in Processes, RotateNext(p) PROVE GatewayKnows'
  BY <1>23 DEF RotateNext, At, Goes, Decrypts
<1>24. ASSUME NEW p \in Processes, RotateEnd(p) PROVE GatewayKnows'
  BY <1>24 DEF RotateEnd, At, Return, Finish, Goes
<1>25. ASSUME NEW p \in Processes, Throw(p) PROVE GatewayKnows'
  BY <1>25 DEF Throw, At, Fails, Return, Finish, CutShort, Goes
<1> HIDE DEF GatewayKnows
<1> QED
  BY <1>1, <1>2, <1>3, <1>4, <1>5, <1>6, <1>7, <1>8, <1>9, <1>10, <1>11, <1>12, <1>13, <1>14, <1>15, <1>16, <1>17, <1>18, <1>19, <1>20, <1>21, <1>22, <1>23, <1>24, <1>25
     DEF Next, Process, Boot, Upsert, Rotate, Secret, Revoke, RotateSkip

(* A rotation that ends clean has rewired every live secret; one that does *)
(* not becomes unclean and stays ahead of those it left behind.            *)
LEMMA BehindStep == TypeOK /\ Inv /\ Next => Behind'
<1> SUFFICES ASSUME TypeOK, Inv, Next PROVE Behind'
  OBVIOUS
<1> USE VaultAssumption DEF TypeOK, Inv, Versions, Processes, Places, Upserting, rows, locals, memory, NoKeys, Dead, Numbers, Rows, Writing, Clean, Newest, WritesUnder, Behind, Existing, Rotating, Storing, Live, Initialized, Secrets
<1>1. ASSUME UNCHANGED <<at, last, mine, old, state, todo, unclean, version, writing>> PROVE Behind'
  BY <1>1 DEF Settled, Waits
<1>2. ASSUME NEW p \in Processes, Start(p) PROVE Behind'
  <2>1. /\ at[p] = "idle" /\ UNCHANGED <<last, state, version, at, old, mine, todo, writing>>
        /\ unclean \subseteq unclean'
        /\ \A q \in Processes : Rotating(q) => mine[q] \in unclean'
    <3> HIDE DEF TypeOK, Inv, Rotating, Versions, Processes, Existing
    <3> QED
      BY <1>2, StartIs
  <2>2. ASSUME NEW n \in Live PROVE Settled(n)'
    <3>1. Settled(n) => Settled(n)'
      BY <2>1 DEF Settled
    <3>2. ASSUME NEW q \in Processes, Waits(q, n) PROVE Settled(n)'
      BY <2>1, <3>2 DEF Settled, Waits
    <3> QED
      BY <3>1, <3>2
  <2> QED
    BY <2>1, <2>2
<1>3. ASSUME NEW p \in Processes, Stop(p) PROVE Behind'
  BY <1>3 DEF Stop, At, Settled, Waits, Finish, CutShort, Goes
<1>4. ASSUME NEW p \in Processes, BootCheck(p) PROVE Behind'
  BY <1>4 DEF BootCheck, At, Settled, Waits, Goes
<1>5. ASSUME NEW p \in Processes, NEW m \in Materials, BootInsert(p, m) PROVE Behind'
  BY <1>5 DEF BootInsert, At, Settled, Waits, Goes, NewVersion
<1>6. ASSUME NEW p \in Processes, Bootstrap(p) PROVE Behind'
  BY <1>6 DEF Bootstrap, At, Settled, Waits, Return, Finish, Goes, IsNewest
<1>7. ASSUME NEW n \in Names, StoreRead(n) PROVE Behind'
  BY <1>7 DEF StoreRead, At, Settled, Waits, Goes
<1>8. ASSUME NEW p \in Processes, Find(p) PROVE Behind'
  <2>1. /\ at[p] = "find"
        /\ at' = [at EXCEPT ![p] = "insert"] \/ at' = [at EXCEPT ![p] = "update"]
        /\ UNCHANGED <<last, state, version, old, mine, todo, writing, unclean>>
    BY <1>8, FindIs
  <2>2. ASSUME NEW n \in Live, NEW q \in Processes, Waits(q, n) PROVE Waits(q, n)'
    BY <2>1, <2>2 DEF Waits
  <2>3. ASSUME NEW n \in Live, Settled(n) PROVE Settled(n)'
    BY <2>1, <2>3 DEF Settled
  <2> QED
    BY <2>1, <2>2, <2>3
<1>9. ASSUME NEW p \in Processes, Update(p) PROVE Behind'
  <2>1. /\ at' = [at EXCEPT ![p] = "check"] /\ WritesUnder(p) /\ Existing(new[p])
        /\ at[p] \in Upserting \ {"check"}
        /\ UNCHANGED <<last, old, new, mine, todo, writing, unclean>>
    BY <1>9 DEF Update, Written, At, Goes, WritesUnder
  <2>2. PICK n \in Names : /\ writing[p] = {n} /\ state' = [state EXCEPT ![n] = "live"]
                           /\ version' = [version EXCEPT ![n] = new[p]]
    BY <1>9, WrittenIs DEF Update
  <2>3. Settled(n)'
    <3>a. new[p] \in Nat /\ last \in Nat
      OBVIOUS
    <3>b. new[p] <= last
      BY <2>1
    <3>1. new[p] = last \/ (last \in unclean /\ last > new[p])
      BY <2>1, <3>a, <3>b
    <3> QED
      BY <2>1, <2>2, <3>1 DEF Settled
  <2>4. ASSUME NEW m \in Live', m # n PROVE Settled(m)' \/ \E q \in Processes : Waits(q, m)'
    <3>1. m \in Live /\ version'[m] = version[m]
      BY <2>2, <2>4
    <3>2. Settled(m) => Settled(m)'
      BY <2>1, <3>1 DEF Settled
    <3>3. ASSUME NEW q \in Processes, Waits(q, m) PROVE Waits(q, m)'
      BY <2>1, <2>2, <2>4, <3>1, <3>3 DEF Waits
    <3> QED
      BY <3>1, <3>2, <3>3
  <2> QED
    BY <2>3, <2>4
<1>10. ASSUME NEW p \in Processes, Insert(p) PROVE Behind'
  <2>1. /\ at' = [at EXCEPT ![p] = "check"] /\ WritesUnder(p) /\ Existing(new[p])
        /\ at[p] \in Upserting \ {"check"}
        /\ UNCHANGED <<last, old, new, mine, todo, writing, unclean>>
    BY <1>10 DEF Insert, Written, At, Goes, WritesUnder
  <2>2. PICK n \in Names : /\ writing[p] = {n} /\ state' = [state EXCEPT ![n] = "live"]
                           /\ version' = [version EXCEPT ![n] = new[p]]
    BY <1>10, WrittenIs DEF Insert
  <2>3. Settled(n)'
    <3>a. new[p] \in Nat /\ last \in Nat
      OBVIOUS
    <3>b. new[p] <= last
      BY <2>1
    <3>1. new[p] = last \/ (last \in unclean /\ last > new[p])
      BY <2>1, <3>a, <3>b
    <3> QED
      BY <2>1, <2>2, <3>1 DEF Settled
  <2>4. ASSUME NEW m \in Live', m # n PROVE Settled(m)' \/ \E q \in Processes : Waits(q, m)'
    <3>1. m \in Live /\ version'[m] = version[m]
      BY <2>2, <2>4
    <3>2. Settled(m) => Settled(m)'
      BY <2>1, <3>1 DEF Settled
    <3>3. ASSUME NEW q \in Processes, Waits(q, m) PROVE Waits(q, m)'
      BY <2>1, <2>2, <2>4, <3>1, <3>3 DEF Waits
    <3> QED
      BY <3>1, <3>2, <3>3
  <2> QED
    BY <2>3, <2>4
<1>11. ASSUME NEW p \in Processes, UpdateNothing(p) PROVE Behind'
  BY <1>11 DEF UpdateNothing, At, Settled, Waits, Goes
<1>12. ASSUME NEW p \in Processes, Stored(p) PROVE Behind'
  BY <1>12 DEF Stored, At, Settled, Waits, Return, Finish, Goes
<1>13. ASSUME NEW p \in Processes, Rewired(p) PROVE Behind'
  BY <1>13 DEF Rewired, At, Settled, Waits, Goes
<1>14. ASSUME NEW n \in Names, Revoke(n) PROVE Behind'
  BY <1>14 DEF Revoke, At, Settled, Waits
<1>15. ASSUME NEW n \in Names, Delete(n) PROVE Behind'
  BY <1>15 DEF Delete, At, Settled, Waits
<1>16. ASSUME NEW p \in Processes, RotateRead(p) PROVE Behind'
  BY <1>16 DEF RotateRead, At, Settled, Waits, Goes
<1>17. ASSUME NEW p \in Processes, NEW m \in Materials, RotateCreate(p, m) PROVE Behind'
  <2>1. /\ at[p] = "create" /\ at' = [at EXCEPT ![p] = "created"]
        /\ mine' = [mine EXCEPT ![p] = last + 1] /\ last' = last + 1
        /\ unclean \subseteq unclean' /\ unclean' \subseteq unclean \union {last + 1}
        /\ UNCHANGED <<state, version, old, todo, writing>>
    BY <1>17 DEF RotateCreate, NewVersion, At, Goes
  <2>2. ASSUME NEW n \in Live PROVE Settled(n)' \/ Waits(p, n)'
    <3>1. version[n] \in Nat /\ last \in Nat /\ version[n] < last + 1
      OBVIOUS
    <3>2. CASE last + 1 \in unclean'
      BY <2>1, <3>1, <3>2 DEF Settled
    <3>3. CASE last + 1 \notin unclean'
      BY <2>1, <3>1, <3>3 DEF Waits
    <3> QED
      BY <3>2, <3>3
  <2> QED
    BY <2>1, <2>2
<1>18. ASSUME NEW p \in Processes, RotateCreated(p) PROVE Behind'
  BY <1>18 DEF RotateCreated, At, Settled, Waits, Goes, IsNewest
<1>19. ASSUME NEW p \in Processes, RotateRetire(p) PROVE Behind'
  BY <1>19 DEF RotateRetire, At, Settled, Waits, Goes
<1>20. ASSUME NEW p \in Processes, RotateList(p) PROVE Behind'
  BY <1>20 DEF RotateList, At, Settled, Waits, Goes
<1>21. ASSUME NEW p \in Processes, RotateSkip(p) PROVE Behind'
  BY <1>21 DEF RotateSkip, At, Settled, Waits
<1>22. ASSUME NEW p \in Processes, RotateNext(p) PROVE Behind'
  <2>1. PICK n \in todo[p] : /\ todo' = [todo EXCEPT ![p] = @ \ {n}]
                             /\ writing' = [writing EXCEPT ![p] = {n}]
    BY <1>22 DEF RotateNext
  <2>2. /\ at[p] = "rewire" /\ at' = [at EXCEPT ![p] = "find"]
        /\ UNCHANGED <<last, state, version, unclean, old, mine>>
    BY <1>22 DEF RotateNext, At, Goes
  <2>a. old[p] # 0
    <3>1. Rotating(p)
      BY <2>2
    <3>2. old[p] \in Versions
      BY <3>1
    <3> QED
      BY <3>2
  <2>b. writing[p] = {}
    BY <2>2
  <2>3. ASSUME NEW m \in Live, NEW q \in Processes, Waits(q, m) PROVE Waits(q, m)'
    BY <2>1, <2>2, <2>a, <2>b, <2>3 DEF Waits
  <2>4. ASSUME NEW m \in Live, Settled(m) PROVE Settled(m)'
    BY <2>2, <2>4 DEF Settled
  <2> QED
    BY <2>2, <2>3, <2>4
<1>23. ASSUME NEW p \in Processes, RotateEnd(p) PROVE Behind'
  BY <1>23 DEF RotateEnd, At, Settled, Waits, Return, Finish, Goes
<1>24. ASSUME NEW p \in Processes, Throw(p) PROVE Behind'
  BY <1>24 DEF Throw, At, Settled, Waits, Fails, Return, Finish, CutShort, Goes
<1> HIDE DEF Behind
<1> QED
  BY <1>1, <1>2, <1>3, <1>4, <1>5, <1>6, <1>7, <1>8, <1>9, <1>10, <1>11, <1>12, <1>13, <1>14, <1>15, <1>16, <1>17, <1>18, <1>19, <1>20, <1>21, <1>22, <1>23, <1>24
     DEF Next, Process, Boot, Upsert, Rotate, Secret, Unlock, Lock, ResetEmpty

-----------------------------------------------------------------------------
LEMMA InitInv == Init => TypeOK /\ Inv
<1> USE VaultAssumption DEF Init, Versions, Processes, Places, NoKeys
<1>1. Init => TypeOK
  BY DEF TypeOK
<1>2. Init => Inv
  BY DEF Inv, Rows, Dead, Numbers, Writing, Clean, ReadsBack, Labels, WritesUnder, Newest,
         GatewayOpen, GatewayKnows, Behind, Existing, Rotating, Storing, Upserting, Live, Open
<1> QED
  BY <1>1, <1>2

LEMMA StutterInv == TypeOK /\ Inv /\ UNCHANGED vars => TypeOK' /\ Inv'
<1> SUFFICES ASSUME TypeOK, Inv, UNCHANGED vars PROVE TypeOK' /\ Inv'
  OBVIOUS
<1> USE DEF vars, rows, memory, locals, Inv
<1>1. TypeOK'
  BY DEF TypeOK
<1>2. Rows' /\ Dead' /\ Numbers' /\ Writing'
  BY DEF Rows, Dead, Numbers, Writing, Existing, Rotating, Storing
<1>3. Clean' /\ ReadsBack' /\ Labels' /\ Newest'
  BY DEF Clean, ReadsBack, Labels, Newest, WritesUnder, Existing, Rotating, Storing, Live
<1>4. GatewayOpen' /\ GatewayKnows' /\ Behind'
  BY DEF GatewayOpen, GatewayKnows, Behind, Settled, Waits, Open, Existing, Rotating, Live
<1> QED
  BY <1>1, <1>2, <1>3, <1>4

(* Types and the invariant, at every time.                                 *)
THEOREM Invariance == Spec => [](TypeOK /\ Inv)
<1>1. TypeOK /\ Inv /\ [Next]_vars => TypeOK' /\ Inv'
  BY TypeStep, RowsStep, DeadStep, NumbersStep, WritingStep, CleanStep, ReadsBackStep,
     LabelsStep, NewestStep, GatewayOpenStep, GatewayKnowsStep, BehindStep, StutterInv
     DEF Inv
<1> QED
  BY InitInv, <1>1, PTL DEF Spec

(* The state of the vault is always of its type.                           *)
THEOREM TypeCorrect == Spec => []TypeOK
  BY Invariance, PTL

(* getActiveVaultKeyVersion is the newest version, whatever two processes  *)
(* bootstrap, rotate, reset and crash.                                     *)
THEOREM ActiveIsAlwaysNewest == Spec => []ActiveIsNewest
<1>1. TypeOK /\ Inv => ActiveIsNewest
  <2> SUFFICES ASSUME TypeOK, Inv, NEW v \in Versions, IsNewest(v)
               PROVE  key[v] = "active"
    BY DEF ActiveIsNewest
  <2>1. v <= last /\ last \in Versions /\ key[last] = "active"
    BY DEF Inv, Rows, IsNewest
  <2>2. last <= v
    BY <2>1 DEF Existing, IsNewest
  <2> QED
    BY <2>1, <2>2 DEF Versions
<1> QED
  BY Invariance, <1>1, PTL

(* Only an interrupted or overlapped rotation, or a bootstrap that came    *)
(* after another one, leaves a live secret under a version that is not the *)
(* newest.                                                                 *)
THEOREM OnlyUncleanVersionsLeaveBehind == Spec => []LeftBehindOnlyByUncleanVersion
<1>1. TypeOK /\ Inv => LeftBehindOnlyByUncleanVersion
  BY DEF Inv, Rows, Behind, Settled, Waits, LeftBehindOnlyByUncleanVersion,
         AwaitsRewiring, TypeOK, Live, Existing
<1> QED
  BY Invariance, <1>1, PTL

(* While the vault is open and no version is unclean, every live secret    *)
(* can be read and new ones can be stored: two bootstraps that overlap are *)
(* among the ways to an unclean version, and the only one that needs no    *)
(* rotation.                                                               *)
THEOREM OpenGatewayAlwaysServes == Spec => []OpenGatewayServes
<1>1. TypeOK /\ Inv => OpenGatewayServes
  <2> SUFFICES ASSUME TypeOK, Inv, Open("gateway"), at["gateway"] = "idle"
               PROVE  OpenGatewayServes
    BY DEF OpenGatewayServes
  <2> USE DEF Inv, Processes
  <2>0. ~Rotating("gateway")
    BY DEF Rotating, Upserting
  <2>1. last \in Versions /\ (dek["gateway"][last] = last \/ last \in unclean)
    BY <2>0 DEF GatewayKnows, GatewayOpen
  <2>2. \A v \in Versions : IsActive(v) => v = last
    BY <2>1 DEF IsActive, Rows, Existing, TypeOK, Versions
  <2>3. ASSUME NEW n \in Live
        PROVE  Decrypts("gateway", n) \/ Excused(version[n])
    <3>1. /\ version[n] \in Versions
          /\ seal[n] = version[n] \/ version[n] \in unclean
      BY DEF Live, Rows, Labels
    <3>2. CASE version[n] \in unclean
      BY <3>1, <3>2 DEF Excused, Versions
    <3>3. CASE version[n] = last /\ version[n] \notin unclean
      BY <3>1, <3>3, <2>1 DEF Decrypts
    <3>4. CASE \E u \in unclean : u > version[n]
      BY <3>1, <3>4 DEF Excused, Versions, TypeOK
    <3>5. ASSUME NEW p \in Processes, Waits(p, n) PROVE FALSE
      <4>1. p # "gateway" /\ Rotating(p) /\ mine[p] \notin unclean
        BY <2>0, <3>5 DEF Waits
      <4> QED
        BY <4>1 DEF Clean, Dead, Open, NoKeys
    <3> QED
      BY <3>2, <3>3, <3>4, <3>5 DEF Behind, Settled
  <2> QED
    BY <2>1, <2>2, <2>3 DEF OpenGatewayServes
<1> QED
  BY Invariance, <1>1, PTL

(* Only storing it anew, or an overlapped rotation, brings a revoked       *)
(* secret back.                                                            *)
THEOREM RevokedAlwaysStaysRevoked == Spec => RevokedStaysRevoked
<1> DEFINE Stays ==
      \A n \in Names :
        state[n] # "live" /\ state'[n] = "live" =>
          \/ Storing("gateway")
          \/ \E p \in Processes : Rotating(p) /\ mine[p] \in unclean
<1>1. TypeOK /\ Inv /\ [Next]_vars => Stays
  <2> SUFFICES ASSUME TypeOK, Inv, [Next]_vars, NEW n \in Names,
                      state[n] # "live", state'[n] = "live",
                      ~Storing("gateway")
               PROVE  \E p \in Processes : Rotating(p) /\ mine[p] \in unclean
    OBVIOUS
  <2>1. PICK p \in Processes : (Update(p) \/ Insert(p))
    BY DEF Next, Process, Boot, Upsert, Rotate, Secret, Start, Stop, BootCheck, BootInsert,
           Bootstrap, Unlock, NewVersion, Lock, ResetEmpty, StoreRead, Find, UpdateNothing,
           Stored, Rewired, Throw, Revoke, Delete, RotateRead, RotateCreate, RotateCreated,
           RotateRetire, RotateList, RotateSkip, RotateNext, RotateEnd,
           vars, rows, memory, TypeOK
  <2>2. Written(p) /\ at[p] \in {"update", "insert"}
    BY <2>1 DEF Update, Insert, At
  <2>3. PICK m \in writing[p] : m \in Names /\ state' = [state EXCEPT ![m] = "live"]
    BY <2>2, WrittenIs DEF Inv
  <2>4. m = n
    BY <2>3 DEF TypeOK
  <2>5. Rotating(p)
    BY <2>2 DEF Inv, Numbers, Rotating, Storing, Upserting
  <2>6. mine[p] \in unclean
    BY <2>3, <2>4, <2>5 DEF Inv, Clean, Live
  <2> QED
    BY <2>5, <2>6
<1>2. TypeOK /\ Inv /\ [Next]_vars => [Stays]_vars
  BY <1>1
<1> QED
  BY Invariance, <1>2, PTL DEF Spec, RevokedStaysRevoked

(* No secret, live or revoked, is ever stored under a key version that is  *)
(* gone, nor with another DEK than that of the version its row names,      *)
(* unless that version is unclean: bootstraps, resets, rotations and       *)
(* stores of two processes, and their deaths between two statements, leave *)
(* every row with its key.                                                 *)
SecretsHaveTheirKey ==
  \A n \in Secrets : Existing(version[n]) /\ (seal[n] = version[n] \/ version[n] \in unclean)

(* Every row of vault_secrets can be decrypted by whoever has the material *)
(* of its version, as long as that version was read back by the call that  *)
(* inserted it.                                                            *)
THEOREM SecretsAlwaysHaveTheirKey == Spec => []SecretsHaveTheirKey
<1>1. Inv => SecretsHaveTheirKey
  BY DEF Inv, Rows, Labels, SecretsHaveTheirKey, Secrets
<1> QED
  BY Invariance, <1>1, PTL

(* A live secret goes back to an older key version only behind an unclean  *)
(* one: by a store that read the active version before the other process   *)
(* created the next, or a rotation the other process overtook.             *)
SecretsGoForward ==
  [][\A n \in Names :
       state[n] = "live" /\ state'[n] = "live" /\ version'[n] < version[n]
         => \E u \in unclean : u > version'[n]]_vars

(* Without overlap every write of a secret is under a version at least as  *)
(* new as the one it was under.                                            *)
THEOREM SecretsAlwaysGoForward == Spec => SecretsGoForward
<1> DEFINE Onward(n) == state[n] = "live" /\ state'[n] = "live" /\ version'[n] < version[n]
                         => \E u \in unclean : u > version'[n]
<1>1. TypeOK /\ Inv /\ [Next]_vars => \A n \in Names : Onward(n)
  <2> SUFFICES ASSUME TypeOK, Inv, [Next]_vars, NEW n \in Names, state[n] = "live",
                      state'[n] = "live", version'[n] < version[n]
               PROVE  \E u \in unclean : u > version'[n]
    OBVIOUS
  <2>1. version[n] \in Nat /\ version[n] <= last /\ last \in Nat
    BY DEF TypeOK, Inv, Rows, Versions
  <2>2. version'[n] # version[n]
    BY <2>1
  <2>3. ASSUME NEW p \in Processes, Update(p) \/ Insert(p)
        PROVE  \E u \in unclean : u > version'[n]
    <3>1. /\ Written(p) /\ Existing(new[p]) /\ at[p] \in {"update", "insert"}
      BY <2>3 DEF Update, Insert, At
    <3>2. PICK m \in Names : version' = [version EXCEPT ![m] = new[p]]
      BY <3>1, WrittenIs DEF Inv
    <3>3. version'[n] = new[p]
      BY <2>2, <3>2 DEF TypeOK
    <3>4. WritesUnder(p)
      BY <3>1 DEF WritesUnder, Rotating, Storing, Upserting
    <3>5. new[p] = last \/ last \in unclean
      BY <3>1, <3>4 DEF Inv, Newest
    <3>6. new[p] \in Nat
      BY DEF TypeOK
    <3> QED
      BY <2>1, <3>3, <3>5, <3>6
  <2>4. ASSUME Delete(n) PROVE FALSE
    BY <2>4 DEF Delete, TypeOK
  <2>5. ASSUME NEW m \in Names, Delete(m), m # n PROVE FALSE
    BY <2>2, <2>5 DEF Delete, TypeOK
  <2>6. version' # version
    BY <2>2
  <2> QED
    BY <2>3, <2>4, <2>5, <2>6
       DEF Next, Process, Boot, Upsert, Rotate, Secret, Start, Stop, BootCheck, BootInsert,
           Bootstrap, Unlock, NewVersion, Lock, ResetEmpty, StoreRead, Find, UpdateNothing,
           Stored, Rewired, Throw, Revoke, RotateRead, RotateCreate, RotateCreated,
           RotateRetire, RotateList, RotateSkip, RotateNext, RotateEnd, vars, rows
<1> QED
  BY <1>1, Invariance, PTL DEF Spec, SecretsGoForward

=============================================================================
