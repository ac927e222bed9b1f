---------------------------- MODULE KeyManagerProofs ----------------------------
(***************************************************************************)
(* Machine-checked proofs about KeyManager, for any set of processes, any  *)
(* roles with any handle pools, and any number of keys, faults and boots:  *)
(* the TPM and the metadata file, which change in turn, never contradict   *)
(* each other beyond what the next operation repairs.                      *)
(***************************************************************************)
EXTENDS KeyManager, WellFoundedInduction, TLAPS

-----------------------------------------------------------------------------
(* The inductive invariant.                                                *)

(* Only the process that holds the lock is at work.                        *)
LockInv == \A c \in Processes : pc[c] # "idle" => lock = c

(* Metadata s records every key of ours that the TPM holds.                *)
NamesAll(s) ==
    \A h \in Handles : objects[h] \in {Free, Foreign} \/
        \E r \in Roles : \E k \in Recorded(s, r) : k.handle = h /\ k.key = objects[h]

(* Metadata s has the lifetime keys that were handed out.                  *)
KeepsIdentity(s) ==
    \A r \in Lifetime : \A k \in announced[r] : k \in {s.active[r], s.pending[r]}

(* The TPM bears out metadata s: Open will accept it.                      *)
BorneOut(s) ==
    \A r \in Roles : \A k \in Recorded(s, r) :
        IF k = s.active[r] THEN verifyPublicMetadata(k)
        ELSE objects[k.handle] \in {Free, Foreign, k.key}

(* Whatever metadata a power loss could leave is valid and complete.       *)
DiskInv ==
    /\ file \in survivors
    /\ \A s \in survivors : validateSnapshot(s) /\ NamesAll(s) /\ KeepsIdentity(s)

IdentityInv == \A r \in Lifetime : \A k \in announced[r] : verifyPublicMetadata(k)

RepairInv == ~rolledBack => BorneOut(file)

NoPending(s) == \A r \in Roles : s.pending[r] = NoKey

NoRetiring(s) == \A r \in Roles : s.retiring[r] = {}

(* A process past "load" works on the metadata that is in the file, except *)
(* that it leaves out the retiring keys it has already evicted.            *)
Cached(c) ==
    /\ snapshot[c].rev = file.rev /\ snapshot[c].active = file.active
    /\ snapshot[c].pending = file.pending
    /\ \A r \in Roles : snapshot[c].retiring[r] \subseteq file.retiring[r]
    /\ pc[c] \notin {"evict", "saveRetired"} => snapshot[c].retiring = file.retiring

(* The active keys are in the TPM, and the keys evicted so far are not.    *)
Verified(c) ==
    /\ \A r \in Roles : file.active[r] # NoKey => verifyPublicMetadata(file.active[r])
    /\ \A r \in Roles : \A k \in file.retiring[r] :
          k \notin snapshot[c].retiring[r] => objects[k.handle] # k.key

(* How far the clean-up and the creation of a key have come.               *)
Progress(c) ==
    /\ pc[c] \in {"evict", "saveRetired", "act"} => NoPending(file)
    /\ pc[c] \in {"saveRetired", "act", "persist", "activate"} => NoRetiring(snapshot[c])
    /\ pc[c] \in {"persist", "activate"} =>
          /\ op[c].kind \in {"ensure", "rotate", "rotateIfDue"}
          /\ file.pending[op[c].role] # NoKey
          /\ \A q \in Roles : q # op[c].role => file.pending[q] = NoKey
          /\ op[c].kind = "ensure" => file.active[op[c].role] = NoKey
          /\ survivors = {file}
    /\ pc[c] = "persist" => ~verifyPublicMetadata(file.pending[op[c].role])
    /\ pc[c] = "activate" => verifyPublicMetadata(file.pending[op[c].role])

WorkInv ==
    \A c \in Processes : pc[c] \notin {"idle", "load"} => Cached(c) /\ Verified(c) /\ Progress(c)

KeyInv ==
    /\ TypeOK /\ LockInv /\ DiskInv /\ IdentityInv /\ RepairInv /\ WorkInv
    /\ SignerUnchanged

-----------------------------------------------------------------------------
(* Keys, pools and snapshots.                                              *)

(* The fields of a key, and what tells it from NoKey.                      *)
LEMMA KeyFacts ==
  /\ \A k \in Keys : /\ k.handle \in Handles /\ k.key \in Nat /\ k.key >= 1
                     /\ k.key <= MaxKeys /\ k.gen \in Nat /\ k.gen >= 1
                     /\ k.gen <= MaxGeneration
  /\ NoKey.handle = None /\ NoKey.key = 0 /\ NoKey.gen = 0 /\ NoKey \notin Keys
  <1>1. \A k \in Keys : /\ k.handle \in Handles /\ k.key \in 1 .. MaxKeys
                        /\ k.gen \in 1 .. MaxGeneration
    BY DEF Keys
  <1>2. NoKey.handle = None /\ NoKey.key = 0 /\ NoKey.gen = 0
    BY DEF NoKey
  <1>3. NoKey \notin Keys
    BY <1>1, <1>2, PolicyAssumption
  <1> QED BY <1>1, <1>2, <1>3, PolicyAssumption

(* Every role has an initial handle, and no handle belongs to two roles.   *)
LEMMA PoolFacts ==
  /\ \A r \in Roles : /\ HandlesOf(r) \subseteq Handles
                      /\ initialHandle(r) \in HandlesOf(r)
                      /\ \A i \in DOMAIN Pool[r] : Pool[r][i] \in HandlesOf(r)
  /\ \A r, q \in Roles : \A h \in HandlesOf(r) : h \in HandlesOf(q) => r = q
  <1>1. \A r \in Roles : Pool[r] \in Seq(Handles) /\ Len(Pool[r]) >= 1
    <2> TAKE r \in Roles
    <2>1. Pool[r] \in Seq(Handles)
      BY PolicyAssumption
    <2>2. Len(Pool[r]) \in Nat
      BY <2>1
    <2>3. Len(Pool[r]) = 1 \/ Len(Pool[r]) >= 2
      BY PolicyAssumption, Zenon
    <2>4. \A n \in Nat : n = 1 \/ n >= 2 => n >= 1
      OBVIOUS
    <2>5. Len(Pool[r]) >= 1
      BY <2>2, <2>3, <2>4, Zenon
    <2> QED BY <2>1, <2>5, Zenon
  <1>2. \A r \in Roles : DOMAIN Pool[r] = 1 .. Len(Pool[r]) /\ 1 \in DOMAIN Pool[r]
                         /\ \A i \in DOMAIN Pool[r] : Pool[r][i] \in Handles
    BY <1>1
  <1>3. \A r, q \in Roles : \A h \in HandlesOf(r) : h \in HandlesOf(q) => r = q
    <2> SUFFICES ASSUME NEW r \in Roles, NEW q \in Roles,
                        NEW i \in DOMAIN Pool[r], NEW j \in DOMAIN Pool[q],
                        Pool[r][i] = Pool[q][j]
                 PROVE  r = q
      BY DEF HandlesOf
    <2> QED BY PolicyAssumption
  <1> QED BY <1>2, <1>3 DEF HandlesOf, initialHandle

(* A snapshot before its revision has been checked.                        *)
Candidates == [rev : Nat, active : [Roles -> Keys \cup {NoKey}],
               retiring : [Roles -> SUBSET Keys], pending : [Roles -> Keys \cup {NoKey}]]

(* The fields of a candidate, and the keys it records.                     *)
LEMMA CandidateFacts ==
  ASSUME NEW s \in Candidates
  PROVE  /\ s.rev \in Nat
         /\ s.active \in [Roles -> Keys \cup {NoKey}]
         /\ s.retiring \in [Roles -> SUBSET Keys]
         /\ s.pending \in [Roles -> Keys \cup {NoKey}]
         /\ \A r \in Roles : /\ Recorded(s, r) \subseteq Keys
                             /\ s.active[r] \in Keys \cup {NoKey}
                             /\ s.pending[r] \in Keys \cup {NoKey}
                             /\ s.retiring[r] \subseteq Keys
         /\ s.rev <= MaxRevision => s \in Snapshots
  <1>1. /\ s.rev \in Nat
        /\ s.active \in [Roles -> Keys \cup {NoKey}]
        /\ s.retiring \in [Roles -> SUBSET Keys]
        /\ s.pending \in [Roles -> Keys \cup {NoKey}]
    BY DEF Candidates
  <1>2. \A r \in Roles : /\ s.active[r] \in Keys \cup {NoKey}
                         /\ s.pending[r] \in Keys \cup {NoKey}
                         /\ s.retiring[r] \subseteq Keys
    BY <1>1
  <1>3. \A r \in Roles : Recorded(s, r) \subseteq Keys
    BY <1>2 DEF Recorded
  <1>4. s.rev <= MaxRevision => s \in Snapshots
    BY PolicyAssumption DEF Candidates, Snapshots
  <1> QED BY <1>1, <1>2, <1>3, <1>4

(* Snapshots are candidates within the limit.                              *)
LEMMA SnapshotFacts ==
  /\ \A s \in Snapshots : s \in Candidates /\ s.rev \in Nat /\ s.rev <= MaxRevision
  /\ emptySnapshot \in Snapshots
  <1>1. \A s \in Snapshots : s \in Candidates /\ s.rev \in Nat /\ s.rev <= MaxRevision
    BY PolicyAssumption DEF Candidates, Snapshots
  <1>2. emptySnapshot \in Snapshots
    BY PolicyAssumption DEF Snapshots, emptySnapshot
  <1> QED BY <1>1, <1>2

(* What validateSnapshot demands of one role.                              *)
ValidEntry(r, a, ret, p) ==
    LET all == ({a, p} \cup ret) \ {NoKey} IN
    /\ \A k \in all : k.handle \in HandlesOf(r)
    /\ \A k, l \in all : k.handle = l.handle => k = l
    /\ a # NoKey \/ ret = {}
    /\ \A k \in ret : k.gen < a.gen
    /\ p # NoKey => p.gen = a.gen + 1
    /\ r \in Lifetime => a.gen <= 1 /\ ret = {} /\ (a = NoKey \/ p = NoKey)

(* validateSnapshot looks at the roles one by one.                         *)
LEMMA ValidByRole ==
  ASSUME NEW s
  PROVE  validateSnapshot(s) <=>
            \A r \in Roles : ValidEntry(r, s.active[r], s.retiring[r], s.pending[r])
  BY DEF validateSnapshot, ValidEntry, Recorded

(* A pending key may become the active one.                                *)
LEMMA PromoteValid ==
  ASSUME NEW r \in Roles, NEW a \in Keys \cup {NoKey}, NEW ret \in SUBSET Keys,
         NEW p \in Keys, ValidEntry(r, a, ret, p)
  PROVE  ValidEntry(r, p, ret \cup ({a} \ {NoKey}), NoKey)
  <1> DEFINE old == ({a, p} \cup ret) \ {NoKey}
             new == ({p, NoKey} \cup (ret \cup ({a} \ {NoKey}))) \ {NoKey}
  <1>1. new \subseteq old
    BY KeyFacts
  <1>2. /\ \A k \in old : k.handle \in HandlesOf(r)
        /\ \A k, l \in old : k.handle = l.handle => k = l
        /\ \A k \in ret : k.gen < a.gen
        /\ p.gen = a.gen + 1
        /\ r \in Lifetime => a.gen <= 1 /\ ret = {} /\ a = NoKey
    BY KeyFacts DEF ValidEntry
  <1>3. \A k \in ret \cup ({a} \ {NoKey}) : k.gen < p.gen
    <2>1. a.gen \in Nat /\ p.gen \in Nat /\ \A k \in ret : k.gen \in Nat
      BY KeyFacts
    <2> QED BY <1>2, <2>1
  <1>4. r \in Lifetime => p.gen <= 1 /\ ret \cup ({a} \ {NoKey}) = {}
    BY <1>2, KeyFacts
  <1> QED BY <1>1, <1>2, <1>3, <1>4, KeyFacts DEF ValidEntry

(* A pending key may be forgotten, and retired keys may be.                *)
LEMMA ForgetValid ==
  ASSUME NEW r \in Roles, NEW a \in Keys \cup {NoKey}, NEW ret \in SUBSET Keys,
         NEW p \in Keys \cup {NoKey}, ValidEntry(r, a, ret, p)
  PROVE  ValidEntry(r, a, ret, NoKey) /\ ValidEntry(r, a, {}, p)
  BY DEF ValidEntry

(* A new key may become pending.                                           *)
LEMMA CreateValid ==
  ASSUME NEW r \in Roles, NEW a \in Keys \cup {NoKey}, NEW k \in Keys,
         ValidEntry(r, a, {}, NoKey), k.handle \in HandlesOf(r),
         a # NoKey => a.handle # k.handle, k.gen = a.gen + 1,
         r \in Lifetime => a = NoKey
  PROVE  ValidEntry(r, a, {}, k)
  BY DEF ValidEntry

-----------------------------------------------------------------------------
(* The snapshots that are saved.                                           *)

(* The next revision of a snapshot has its content.                        *)
LEMMA IncrementFields ==
  ASSUME NEW s \in Candidates
  PROVE  /\ Incremented(s) \in Candidates /\ Incremented(s).rev = s.rev + 1
         /\ Incremented(s).active = s.active /\ Incremented(s).pending = s.pending
         /\ Incremented(s).retiring = s.retiring
  BY DEF Incremented, Candidates

(* reconcilePending: a pending key the TPM has is promoted, every other is *)
(* forgotten.                                                              *)
LEMMA ReconcileFields ==
  ASSUME NEW s \in Snapshots
  PROVE  LET n == reconcilePending(s) IN
         /\ n \in Candidates /\ n.rev = s.rev + 1
         /\ \A r \in Roles :
               /\ n.pending[r] = NoKey
               /\ IF s.pending[r] # NoKey /\ verifyPublicMetadata(s.pending[r])
                  THEN /\ n.active[r] = s.pending[r]
                       /\ n.retiring[r] = s.retiring[r] \cup ({s.active[r]} \ {NoKey})
                  ELSE n.active[r] = s.active[r] /\ n.retiring[r] = s.retiring[r]
  <1> DEFINE found == {r \in Roles : s.pending[r] # NoKey /\ verifyPublicMetadata(s.pending[r])}
             act == [r \in Roles |-> IF r \in found THEN s.pending[r] ELSE s.active[r]]
             ret == [r \in Roles |-> IF r \in found /\ s.active[r] # NoKey
                                     THEN s.retiring[r] \cup {s.active[r]}
                                     ELSE s.retiring[r]]
             pen == [r \in Roles |-> NoKey]
             n == [rev |-> s.rev, active |-> act, retiring |-> ret, pending |-> pen]
  <1>1. reconcilePending(s) = Incremented(n)
    BY DEF reconcilePending
  <1>2. s \in Candidates
    BY SnapshotFacts
  <1>3. /\ act \in [Roles -> Keys \cup {NoKey}] /\ ret \in [Roles -> SUBSET Keys]
        /\ pen \in [Roles -> Keys \cup {NoKey}]
    BY <1>2, CandidateFacts
  <1>4. s.rev \in Nat
    BY <1>2, CandidateFacts
  <1>5. n \in Candidates
    <2> HIDE DEF act, ret, pen
    <2> QED BY <1>3, <1>4 DEF Candidates
  <1>6. \A r \in Roles :
               /\ pen[r] = NoKey
               /\ IF s.pending[r] # NoKey /\ verifyPublicMetadata(s.pending[r])
                  THEN /\ act[r] = s.pending[r]
                       /\ ret[r] = s.retiring[r] \cup ({s.active[r]} \ {NoKey})
                  ELSE act[r] = s.active[r] /\ ret[r] = s.retiring[r]
    OBVIOUS
  <1>7. n.rev = s.rev /\ n.active = act /\ n.retiring = ret /\ n.pending = pen
    OBVIOUS
  <1> HIDE DEF act, ret, pen, n
  <1> QED BY <1>1, <1>5, <1>6, <1>7, IncrementFields

(* WithoutRetiring clears the retiring keys.                               *)
LEMMA WithoutFields ==
  ASSUME NEW s \in Snapshots
  PROVE  LET n == WithoutRetiring(s) IN
         /\ n \in Candidates /\ n.rev = s.rev + 1
         /\ n.active = s.active /\ n.pending = s.pending
         /\ \A r \in Roles : n.retiring[r] = {}
  <1> DEFINE n == [s EXCEPT !.retiring = [r \in Roles |-> {}]]
  <1>1. /\ n \in Candidates /\ n.rev = s.rev /\ n.active = s.active
        /\ n.pending = s.pending /\ n.retiring = [r \in Roles |-> {}]
    BY SnapshotFacts DEF Candidates
  <1>2. WithoutRetiring(s) = Incremented(n)
    BY DEF WithoutRetiring
  <1> HIDE DEF n
  <1> QED BY <1>1, <1>2, IncrementFields

(* The metadata with a new pending key.                                    *)
LEMMA CreateFields ==
  ASSUME NEW s \in Snapshots, NEW r \in Roles, NEW k \in Keys
  PROVE  LET n == Incremented([s EXCEPT !.pending[r] = k]) IN
         /\ n \in Candidates /\ n.rev = s.rev + 1
         /\ n.active = s.active /\ n.retiring = s.retiring
         /\ n.pending[r] = k
         /\ \A q \in Roles : q # r => n.pending[q] = s.pending[q]
  <1> DEFINE n == [s EXCEPT !.pending[r] = k]
  <1>0. s \in Candidates
    BY SnapshotFacts
  <1>1. /\ n.rev = s.rev /\ n.active = s.active /\ n.retiring = s.retiring
        /\ n.pending = [s.pending EXCEPT ![r] = k]
    BY <1>0 DEF Candidates
  <1>2. n \in Candidates
    BY <1>0 DEF Candidates
  <1>3. /\ n.pending[r] = k
        /\ \A q \in Roles : q # r => n.pending[q] = s.pending[q]
    <2> HIDE DEF n
    <2> QED BY <1>0, <1>1, CandidateFacts
  <1> HIDE DEF n
  <1> QED BY <1>1, <1>2, <1>3, IncrementFields DEF n

(* The metadata with the pending key activated.                            *)
LEMMA ActivateFields ==
  ASSUME NEW s \in Snapshots, NEW r \in Roles, s.pending[r] \in Keys
  PROVE  LET n == Incremented(Activated(s, r, s.pending[r])) IN
         /\ n \in Candidates /\ n.rev = s.rev + 1
         /\ n.active[r] = s.pending[r] /\ n.pending[r] = NoKey
         /\ n.retiring[r] = s.retiring[r] \cup ({s.active[r]} \ {NoKey})
         /\ \A q \in Roles : q # r => /\ n.active[q] = s.active[q]
                                      /\ n.pending[q] = s.pending[q]
                                      /\ n.retiring[q] = s.retiring[q]
  <1> DEFINE n == Activated(s, r, s.pending[r])
  <1>0. s \in Candidates
    BY SnapshotFacts
  <1>1. /\ n.rev = s.rev
        /\ n.active = [s.active EXCEPT ![r] = s.pending[r]]
        /\ n.pending = [s.pending EXCEPT ![r] = NoKey]
        /\ n.retiring = [s.retiring EXCEPT ![r] = s.retiring[r] \cup ({s.active[r]} \ {NoKey})]
    BY <1>0 DEF Candidates, Activated
  <1>2. n \in Candidates
    BY <1>0 DEF Candidates, Activated
  <1>3. /\ n.active[r] = s.pending[r] /\ n.pending[r] = NoKey
        /\ n.retiring[r] = s.retiring[r] \cup ({s.active[r]} \ {NoKey})
        /\ \A q \in Roles : q # r => /\ n.active[q] = s.active[q]
                                     /\ n.pending[q] = s.pending[q]
                                     /\ n.retiring[q] = s.retiring[q]
    <2> HIDE DEF n
    <2> QED BY <1>0, <1>1, CandidateFacts
  <1> HIDE DEF n
  <1> QED BY <1>1, <1>2, <1>3, IncrementFields DEF n

-----------------------------------------------------------------------------
(* What a saved snapshot must be like, whichever metadata survives.        *)

Sound(s) == validateSnapshot(s) /\ NamesAll(s) /\ KeepsIdentity(s)

ActiveVerified(s) ==
    \A r \in Roles : s.active[r] # NoKey => verifyPublicMetadata(s.active[r])

(* The entries of valid metadata.                                          *)
LEMMA EntryFacts ==
  ASSUME NEW s \in Candidates, validateSnapshot(s), NEW r \in Roles
  PROVE  /\ \A k \in Recorded(s, r) : k \in Keys /\ k.handle \in HandlesOf(r)
         /\ \A k, l \in Recorded(s, r) : k.handle = l.handle => k = l
         /\ s.active[r] \notin s.retiring[r] /\ NoKey \notin s.retiring[r]
         /\ r \in Lifetime => /\ s.retiring[r] = {}
                              /\ s.active[r] = NoKey \/ s.pending[r] = NoKey
  <1>1. Recorded(s, r) \subseteq Keys /\ s.retiring[r] \subseteq Keys
    BY CandidateFacts
  <1>2. \A k \in s.retiring[r] : k.gen < s.active[r].gen
    BY DEF validateSnapshot
  <1>3. s.active[r] \notin s.retiring[r]
    <2> SUFFICES ASSUME s.active[r] \in s.retiring[r]
                 PROVE  FALSE
      OBVIOUS
    <2>1. s.active[r].gen \in Nat
      BY <1>1, KeyFacts
    <2> QED BY <2>1, <1>2
  <1> QED BY <1>1, <1>3, KeyFacts DEF validateSnapshot

(* reconcilePending keeps metadata sound.                                  *)
LEMMA ReconcileSound ==
  ASSUME TypeOK, IdentityInv, NEW s \in Snapshots, Sound(s), ActiveVerified(s)
  PROVE  LET n == reconcilePending(s) IN
         /\ Sound(n) /\ ActiveVerified(n)
         /\ BorneOut(s) => BorneOut(n)
  <1> DEFINE n == reconcilePending(s)
             Found(r) == s.pending[r] # NoKey /\ verifyPublicMetadata(s.pending[r])
  <1>0. s \in Candidates /\ n \in Candidates
    BY SnapshotFacts, ReconcileFields
  <1>1. \A r \in Roles :
           /\ n.pending[r] = NoKey
           /\ Found(r) => /\ n.active[r] = s.pending[r]
                          /\ n.retiring[r] = s.retiring[r] \cup ({s.active[r]} \ {NoKey})
           /\ ~Found(r) => n.active[r] = s.active[r] /\ n.retiring[r] = s.retiring[r]
    BY ReconcileFields
  <1>2. validateSnapshot(n)
    <2> SUFFICES ASSUME NEW r \in Roles
                 PROVE  ValidEntry(r, n.active[r], n.retiring[r], n.pending[r])
      BY ValidByRole
    <2>1. ValidEntry(r, s.active[r], s.retiring[r], s.pending[r])
      BY ValidByRole DEF Sound
    <2>2. /\ s.active[r] \in Keys \cup {NoKey} /\ s.pending[r] \in Keys \cup {NoKey}
          /\ s.retiring[r] \in SUBSET Keys
      BY <1>0, CandidateFacts
    <2>3. CASE Found(r)
      BY <1>1, <2>1, <2>2, <2>3, PromoteValid
    <2>4. CASE ~Found(r)
      BY <1>1, <2>1, <2>2, <2>4, ForgetValid
    <2> QED BY <2>3, <2>4
  <1>3. ActiveVerified(n)
    BY <1>1 DEF ActiveVerified
  <1>4. NamesAll(n)
    <2> SUFFICES ASSUME NEW h \in Handles, objects[h] \notin {Free, Foreign}
                 PROVE  \E r \in Roles : \E k \in Recorded(n, r) : k.handle = h /\ k.key = objects[h]
      BY DEF NamesAll
    <2>1. PICK r \in Roles : \E k \in Recorded(s, r) : k.handle = h /\ k.key = objects[h]
      BY DEF Sound, NamesAll
    <2>2. PICK k \in Recorded(s, r) : k.handle = h /\ k.key = objects[h]
      BY <2>1
    <2>3. verifyPublicMetadata(k)
      BY <2>2 DEF verifyPublicMetadata, readPublic
    <2>4. k \in Recorded(n, r)
      BY <1>1, <2>3 DEF Recorded
    <2> QED BY <2>2, <2>4
  <1>5. KeepsIdentity(n)
    <2> SUFFICES ASSUME NEW r \in Lifetime, NEW k \in announced[r]
                 PROVE  k \in {n.active[r], n.pending[r]}
      BY DEF KeepsIdentity
    <2>1. r \in Roles /\ k \in Keys
      BY PolicyAssumption DEF TypeOK
    <2>2. k \in {s.active[r], s.pending[r]} /\ verifyPublicMetadata(k)
      BY DEF Sound, KeepsIdentity, IdentityInv
    <2>3. s.active[r] = NoKey \/ s.pending[r] = NoKey
      BY <2>1, <1>0, EntryFacts DEF Sound
    <2> QED BY <2>1, <2>2, <2>3, <1>1, KeyFacts
  <1>6. ASSUME BorneOut(s)
        PROVE  BorneOut(n)
    <2> SUFFICES ASSUME NEW r \in Roles, NEW k \in Recorded(n, r)
                 PROVE  IF k = n.active[r] THEN verifyPublicMetadata(k)
                        ELSE objects[k.handle] \in {Free, Foreign, k.key}
      BY DEF BorneOut
    <2>1. CASE k = n.active[r]
      BY <2>1, <1>3, <1>0, CandidateFacts DEF ActiveVerified, Recorded
    <2>2. CASE k # n.active[r]
      <3>1. k \in n.retiring[r] /\ k # NoKey
        BY <2>2, <1>1 DEF Recorded
      <3>2. k = s.active[r] \/ k \in s.retiring[r]
        BY <3>1, <1>1
      <3>3. k \in Recorded(s, r)
        BY <3>1, <3>2 DEF Recorded
      <3> QED BY <3>1, <3>3, <2>2, <1>6 DEF BorneOut, verifyPublicMetadata, readPublic
    <2> QED BY <2>1, <2>2
  <1> HIDE DEF n
  <1> QED BY <1>2, <1>3, <1>4, <1>5, <1>6 DEF Sound, n

(* Metadata f without its retiring keys, once these have been evicted.     *)
LEMMA WithoutSound ==
  ASSUME TypeOK, NEW f \in Snapshots, Sound(f), NEW n \in Candidates,
         n.active = f.active, n.pending = f.pending, NoRetiring(n),
         \A r \in Roles : \A k \in f.retiring[r] : objects[k.handle] # k.key
  PROVE  /\ Sound(n)
         /\ BorneOut(f) => BorneOut(n)
  <1>0. f \in Candidates
    BY SnapshotFacts
  <1>1. \A r \in Roles : /\ Recorded(n, r) \subseteq Recorded(f, r)
                         /\ Recorded(f, r) \subseteq Recorded(n, r) \cup f.retiring[r]
    BY DEF Recorded, NoRetiring
  <1>2. validateSnapshot(n)
    <2> SUFFICES ASSUME NEW r \in Roles
                 PROVE  ValidEntry(r, n.active[r], n.retiring[r], n.pending[r])
      BY ValidByRole
    <2>1. ValidEntry(r, f.active[r], f.retiring[r], f.pending[r])
      BY ValidByRole DEF Sound
    <2>2. /\ f.active[r] \in Keys \cup {NoKey} /\ f.pending[r] \in Keys \cup {NoKey}
          /\ f.retiring[r] \in SUBSET Keys
      BY <1>0, CandidateFacts
    <2> QED BY <2>1, <2>2, ForgetValid DEF NoRetiring
  <1>3. NamesAll(n)
    <2> SUFFICES ASSUME NEW h \in Handles, objects[h] \notin {Free, Foreign}
                 PROVE  \E r \in Roles : \E k \in Recorded(n, r) : k.handle = h /\ k.key = objects[h]
      BY DEF NamesAll
    <2>1. PICK r \in Roles : \E k \in Recorded(f, r) : k.handle = h /\ k.key = objects[h]
      BY DEF Sound, NamesAll
    <2> QED BY <2>1, <1>1
  <1>4. KeepsIdentity(n)
    BY DEF Sound, KeepsIdentity
  <1>5. BorneOut(f) => BorneOut(n)
    BY <1>1 DEF BorneOut
  <1> QED BY <1>2, <1>3, <1>4, <1>5 DEF Sound

(* Metadata with a new key pending that the TPM does not have yet.         *)
LEMMA CreateSound ==
  ASSUME TypeOK, NEW s \in Snapshots, Sound(s), NoPending(s), NoRetiring(s),
         NEW r \in Roles, NEW k \in Keys, k.handle \in HandlesOf(r),
         objects[k.handle] = Free,
         s.active[r] # NoKey => s.active[r].handle # k.handle,
         k.gen = s.active[r].gen + 1, r \in Lifetime => s.active[r] = NoKey
  PROVE  LET n == Incremented([s EXCEPT !.pending[r] = k]) IN
         /\ Sound(n)
         /\ BorneOut(s) => BorneOut(n)
  <1> DEFINE n == Incremented([s EXCEPT !.pending[r] = k])
  <1>0. s \in Candidates /\ n \in Candidates
    BY SnapshotFacts, CreateFields
  <1>1. /\ n.active = s.active /\ n.retiring = s.retiring
        /\ n.pending[r] = k
        /\ \A q \in Roles : q # r => n.pending[q] = NoKey
    BY CreateFields DEF NoPending
  <1> HIDE DEF n
  <1>2. validateSnapshot(n)
    <2> SUFFICES ASSUME NEW q \in Roles
                 PROVE  ValidEntry(q, n.active[q], n.retiring[q], n.pending[q])
      BY ValidByRole
    <2>1. ValidEntry(q, s.active[q], {}, NoKey)
      BY ValidByRole DEF Sound, NoPending, NoRetiring
    <2>2. s.active[q] \in Keys \cup {NoKey}
      BY <1>0, CandidateFacts
    <2>3. CASE q = r
      BY <2>1, <2>2, <2>3, <1>1, CreateValid DEF NoRetiring
    <2>4. CASE q # r
      BY <2>1, <2>4, <1>1 DEF NoRetiring
    <2> QED BY <2>3, <2>4
  <1>3. \A q \in Roles : Recorded(s, q) \subseteq Recorded(n, q)
    BY <1>1 DEF Recorded, NoPending
  <1>4. NamesAll(n)
    BY <1>3 DEF NamesAll, Sound
  <1>5. KeepsIdentity(n)
    <2> SUFFICES ASSUME NEW q \in Lifetime, NEW l \in announced[q]
                 PROVE  l = n.active[q]
      BY DEF KeepsIdentity
    <2>1. q \in Roles /\ l \in Keys
      BY PolicyAssumption DEF TypeOK
    <2> QED BY <2>1, <1>1, KeyFacts DEF Sound, KeepsIdentity, NoPending
  <1>6. ASSUME BorneOut(s)
        PROVE  BorneOut(n)
    <2> SUFFICES ASSUME NEW q \in Roles, NEW l \in Recorded(n, q)
                 PROVE  IF l = n.active[q] THEN verifyPublicMetadata(l)
                        ELSE objects[l.handle] \in {Free, Foreign, l.key}
      BY DEF BorneOut
    <2>1. CASE l = n.active[q]
      BY <2>1, <1>1, <1>6 DEF BorneOut, Recorded
    <2>2. CASE l # n.active[q]
      BY <2>2, <1>1 DEF Recorded, NoRetiring
    <2> QED BY <2>1, <2>2
  <1> QED BY <1>2, <1>4, <1>5, <1>6 DEF Sound, n

(* Metadata with the pending key activated that the TPM has.               *)
LEMMA ActivateSound ==
  ASSUME TypeOK, IdentityInv, NEW s \in Snapshots, Sound(s), ActiveVerified(s),
         NEW r \in Roles, s.pending[r] \in Keys, verifyPublicMetadata(s.pending[r])
  PROVE  LET n == Incremented(Activated(s, r, s.pending[r])) IN
         /\ Sound(n) /\ ActiveVerified(n)
         /\ BorneOut(s) => BorneOut(n)
  <1> DEFINE n == Incremented(Activated(s, r, s.pending[r]))
  <1>0. s \in Candidates /\ n \in Candidates
    BY SnapshotFacts, ActivateFields
  <1>1. /\ n.active[r] = s.pending[r] /\ n.pending[r] = NoKey
        /\ n.retiring[r] = s.retiring[r] \cup ({s.active[r]} \ {NoKey})
        /\ \A q \in Roles : q # r => /\ n.active[q] = s.active[q]
                                     /\ n.pending[q] = s.pending[q]
                                     /\ n.retiring[q] = s.retiring[q]
    BY ActivateFields
  <1> HIDE DEF n
  <1>2. validateSnapshot(n)
    <2> SUFFICES ASSUME NEW q \in Roles
                 PROVE  ValidEntry(q, n.active[q], n.retiring[q], n.pending[q])
      BY ValidByRole
    <2>1. ValidEntry(q, s.active[q], s.retiring[q], s.pending[q])
      BY ValidByRole DEF Sound
    <2>2. s.active[q] \in Keys \cup {NoKey} /\ s.retiring[q] \in SUBSET Keys
      BY <1>0, CandidateFacts
    <2>3. CASE q = r
      BY <2>1, <2>2, <2>3, <1>1, PromoteValid
    <2>4. CASE q # r
      BY <2>1, <2>4, <1>1
    <2> QED BY <2>3, <2>4
  <1>3. \A q \in Roles : Recorded(s, q) = Recorded(n, q)
    BY <1>1 DEF Recorded
  <1>4. NamesAll(n)
    BY <1>3 DEF NamesAll, Sound
  <1>5. KeepsIdentity(n)
    <2> SUFFICES ASSUME NEW q \in Lifetime, NEW l \in announced[q]
                 PROVE  l \in {n.active[q], n.pending[q]}
      BY DEF KeepsIdentity
    <2>1. q \in Roles /\ l \in Keys
      BY PolicyAssumption DEF TypeOK
    <2>2. s.active[q] = NoKey \/ s.pending[q] = NoKey
      BY <2>1, <1>0, EntryFacts DEF Sound
    <2> QED BY <2>1, <2>2, <1>1, KeyFacts DEF Sound, KeepsIdentity
  <1>6. ActiveVerified(n)
    BY <1>1 DEF ActiveVerified
  <1>7. ASSUME BorneOut(s)
        PROVE  BorneOut(n)
    <2> SUFFICES ASSUME NEW q \in Roles, NEW l \in Recorded(n, q)
                 PROVE  IF l = n.active[q] THEN verifyPublicMetadata(l)
                        ELSE objects[l.handle] \in {Free, Foreign, l.key}
      BY DEF BorneOut
    <2>1. CASE l = n.active[q]
      BY <2>1, <1>6 DEF ActiveVerified, Recorded
    <2>2. CASE l # n.active[q]
      BY <2>2, <1>3, <1>7 DEF BorneOut, verifyPublicMetadata, readPublic
    <2> QED BY <2>1, <2>2
  <1> QED BY <1>2, <1>4, <1>5, <1>6, <1>7 DEF Sound, n

-----------------------------------------------------------------------------
(* Parts of a step.                                                        *)

CallOK ==
    /\ lock \in Processes \cup {None} /\ pc \in [Processes -> PCs]
    /\ op \in [Processes -> Running] /\ snapshot \in [Processes -> Snapshots]

(* A step that touches neither the disk nor the TPM.                       *)
LEMMA NothingStored ==
  ASSUME KeyInv, UNCHANGED <<file, survivors, objects, announced, rolledBack>>
  PROVE  DiskInv' /\ IdentityInv' /\ RepairInv'
  <1> USE DEF KeyInv
  <1>1. DiskInv'
    BY DEF DiskInv, NamesAll, KeepsIdentity
  <1>2. IdentityInv'
    BY DEF IdentityInv, verifyPublicMetadata, readPublic
  <1>3. RepairInv'
    BY DEF RepairInv, BorneOut, verifyPublicMetadata, readPublic
  <1> QED BY <1>1, <1>2, <1>3

(* An error or a crash counts as a fault.                                  *)
LEMMA FaultCounted ==
  ASSUME TypeOK, Fault \/ UNCHANGED faults
  PROVE  faults' \in 0 .. MaxFaults
  BY PolicyAssumption DEF TypeOK, Fault

(* The process that is at work goes on; the others are idle.               *)
LEMMA GoesOn ==
  ASSUME KeyInv, NEW c \in Processes, pc[c] # "idle", NEW label \in PCs,
         pc' = [pc EXCEPT ![c] = label], lock' = lock
  PROVE  /\ pc' \in [Processes -> PCs] /\ pc'[c] = label /\ LockInv'
         /\ lock' \in Processes \cup {None}
         /\ (label \notin {"idle", "load"} => (Cached(c) /\ Verified(c) /\ Progress(c))')
               => WorkInv'
  <1>1. pc \in [Processes -> PCs] /\ lock \in Processes \cup {None}
    BY DEF KeyInv, TypeOK
  <1>2. \A d \in Processes : d # c => pc[d] = "idle"
    BY DEF KeyInv, LockInv
  <1>3. pc' \in [Processes -> PCs] /\ pc'[c] = label /\ \A d \in Processes : d # c => pc'[d] = "idle"
    BY <1>1, <1>2
  <1>4. LockInv'
    BY <1>3 DEF KeyInv, LockInv
  <1> QED BY <1>1, <1>3, <1>4 DEF WorkInv

(* The process that is at work returns; all are idle.                      *)
LEMMA Returns ==
  ASSUME KeyInv, NEW c \in Processes, pc[c] # "idle", Return(c)
  PROVE  CallOK' /\ LockInv' /\ WorkInv' /\ pc' = [pc EXCEPT ![c] = "idle"]
  <1>1. /\ pc \in [Processes -> PCs] /\ op \in [Processes -> Running]
        /\ snapshot \in [Processes -> Snapshots]
    BY DEF KeyInv, TypeOK
  <1>2. \A d \in Processes : d # c => pc[d] = "idle"
    BY DEF KeyInv, LockInv
  <1>3. /\ pc' = [pc EXCEPT ![c] = "idle"] /\ lock' = None
        /\ op' = [op EXCEPT ![c] = NoOp]
        /\ snapshot' = [snapshot EXCEPT ![c] = emptySnapshot]
    BY DEF Return, Goto
  <1>4. pc' \in [Processes -> PCs] /\ \A d \in Processes : pc'[d] = "idle"
    BY <1>1, <1>2, <1>3 DEF PCs
  <1>5. op' \in [Processes -> Running]
    <2>1. NoOp \in Running
      BY DEF Running
    <2> QED BY <1>1, <1>3, <2>1
  <1>6. snapshot' \in [Processes -> Snapshots]
    BY <1>1, <1>3, SnapshotFacts
  <1> QED BY <1>3, <1>4, <1>5, <1>6 DEF CallOK, LockInv, WorkInv

(* persistSnapshotLocked with sound metadata: whatever comes of it, the    *)
(* disk is sound.                                                          *)
LEMMA SaveStep ==
  ASSUME KeyInv, NEW c \in Processes, pc[c] # "idle", NEW n \in Candidates,
         NEW label \in PCs, NEW kind,
         [op EXCEPT ![c].kind = kind] \in [Processes -> Running],
         SaveAs(c, n, label, kind), UNCHANGED <<objects, announced, rolledBack>>,
         Sound(n), BorneOut(file) => BorneOut(n)
  PROVE  /\ DiskInv' /\ IdentityInv' /\ RepairInv' /\ LockInv' /\ CallOK'
         /\ file' \in Snapshots /\ survivors' \subseteq Snapshots
         /\ faults' \in 0 .. MaxFaults
         /\ \/ pc' = [pc EXCEPT ![c] = "idle"] /\ WorkInv'
            \/ /\ pc' = [pc EXCEPT ![c] = label] /\ file' = n /\ survivors' = {n}
               /\ snapshot' = [snapshot EXCEPT ![c] = n] /\ lock' = lock
               /\ op' = [op EXCEPT ![c].kind = kind]
         /\ file' # file => file' = n
  <1> DEFINE ok == n.rev = file.rev + 1 /\ n.rev <= MaxRevision
  <1>0. /\ file \in Snapshots /\ survivors \subseteq Snapshots
        /\ snapshot \in [Processes -> Snapshots] /\ TypeOK
    BY DEF KeyInv, TypeOK
  <1>1. ok => n \in Snapshots
    BY CandidateFacts
  <1>2. IdentityInv'
    BY DEF KeyInv, IdentityInv, verifyPublicMetadata, readPublic
  <1>3. (Sound(n))' /\ \A s \in survivors : (Sound(s))'
    BY DEF KeyInv, DiskInv, Sound, NamesAll, KeepsIdentity
  <1>4. ASSUME file' = n, survivors' = {n} \/ survivors' = survivors \cup {n}
        PROVE  DiskInv' /\ RepairInv'
    <2>1. DiskInv'
      <3>1. file' \in survivors'
        BY <1>4
      <3>2. \A s \in survivors' : (Sound(s))'
        BY <1>3, <1>4
      <3> QED BY <3>1, <3>2 DEF DiskInv, Sound
    <2>2. RepairInv'
      BY <1>4 DEF KeyInv, RepairInv, BorneOut, verifyPublicMetadata, readPublic
    <2> QED BY <2>1, <2>2
  <1>5. CASE /\ ok /\ file' = n /\ survivors' = {n}
             /\ snapshot' = [snapshot EXCEPT ![c] = n] /\ Goto(c, label)
             /\ op' = [op EXCEPT ![c].kind = kind] /\ UNCHANGED <<lock, faults>>
    <2>1. n \in Snapshots /\ snapshot' \in [Processes -> Snapshots]
      BY <1>0, <1>1, <1>5
    <2>2. pc' = [pc EXCEPT ![c] = label]
      BY <1>5 DEF Goto
    <2>3. CallOK' /\ LockInv'
      BY <1>5, <2>1, <2>2, GoesOn DEF CallOK
    <2>4. faults' \in 0 .. MaxFaults
      BY <1>0, <1>5, FaultCounted
    <2> QED BY <1>2, <1>4, <1>5, <2>1, <2>2, <2>3, <2>4
  <1>6. CASE /\ ok /\ Fault /\ file' = n /\ survivors' = survivors \cup {n} /\ Return(c)
    BY <1>0, <1>1, <1>2, <1>4, <1>6, Returns, FaultCounted
  <1>7. CASE /\ (IF ok THEN Fault ELSE UNCHANGED faults) /\ UNCHANGED disk /\ Return(c)
    <2>1. UNCHANGED <<file, survivors>>
      BY <1>7 DEF disk
    <2>2. Fault \/ UNCHANGED faults
      BY <1>7
    <2>3. DiskInv' /\ RepairInv'
      BY <2>1, NothingStored
    <2> QED BY <1>0, <1>2, <1>7, <2>1, <2>2, <2>3, Returns, FaultCounted
  <1> QED BY <1>5, <1>6, <1>7 DEF SaveAs

(* A process whose cached retiring keys are complete has the file.         *)
LEMMA CachedIsFile ==
  ASSUME KeyInv, NEW c \in Processes,
         pc[c] \in {"savePending", "act", "persist", "activate"}
  PROVE  /\ snapshot[c] = file /\ file \in Snapshots /\ file \in Candidates
         /\ Sound(file) /\ ActiveVerified(file)
         /\ Cached(c) /\ Verified(c) /\ Progress(c)
  <1>1. Cached(c) /\ Verified(c) /\ Progress(c)
    BY DEF KeyInv, WorkInv
  <1>2. snapshot[c] \in Snapshots /\ file \in Snapshots
    BY DEF KeyInv, TypeOK
  <1>3. /\ snapshot[c].rev = file.rev /\ snapshot[c].active = file.active
        /\ snapshot[c].pending = file.pending /\ snapshot[c].retiring = file.retiring
    BY <1>1 DEF Cached
  <1>4. snapshot[c] = file
    BY <1>2, <1>3 DEF Snapshots
  <1>5. Sound(file) /\ ActiveVerified(file)
    BY <1>1 DEF KeyInv, DiskInv, Sound, Verified, ActiveVerified
  <1> QED BY <1>1, <1>2, <1>4, <1>5, SnapshotFacts

(* Saving under the operation's own name.                                  *)
LEMMA SameKind ==
  ASSUME KeyInv, NEW c \in Processes
  PROVE  [op EXCEPT ![c].kind = op[c].kind] = op
  <1>1. op \in [Processes -> Running] /\ op[c] \in Running
    BY DEF KeyInv, TypeOK
  <1>2. op[c] = [kind |-> op[c].kind, role |-> op[c].role]
    BY <1>1 DEF Running, Ops, NoOp
  <1>3. [op[c] EXCEPT !.kind = op[c].kind] = op[c]
    BY <1>2
  <1> QED BY <1>1, <1>3

-----------------------------------------------------------------------------
(* The actions.                                                            *)

(* withExclusiveOperation.                                                 *)
LEMMA BeginStep ==
  ASSUME KeyInv, NEW c \in Processes, NEW o \in Ops, Begin(c, o)
  PROVE  KeyInv'
  <1>1. /\ pc[c] = "idle" /\ lock = None /\ lock' = c
        /\ op' = [op EXCEPT ![c] = o] /\ pc' = [pc EXCEPT ![c] = "load"]
        /\ signed' = <<0, 0>>
        /\ captured' = captured \/ captured' = [captured EXCEPT ![c] = NoCapture]
        /\ UNCHANGED <<file, survivors, objects, born, foreign, snapshot, announced,
                       rolledBack, faults, boot>>
    BY DEF Begin, Goto, disk, tpm
  <1>2. /\ TypeOK /\ \A d \in Processes : pc[d] = "idle"
    BY <1>1, PolicyAssumption DEF KeyInv, LockInv
  <1>3. /\ pc' \in [Processes -> PCs] /\ pc'[c] = "load"
        /\ \A d \in Processes : d # c => pc'[d] = "idle"
    BY <1>1, <1>2 DEF TypeOK, PCs
  <1>4. op' \in [Processes -> Running]
    BY <1>1, <1>2 DEF TypeOK, Running
  <1>5. captured' \in [Processes -> Captures]
    BY <1>1, <1>2 DEF TypeOK, Captures
  <1>6. signed' \in (0 .. MaxKeys) \X (-1 .. MaxKeys) /\ signed'[1] = signed'[2]
    BY <1>1, PolicyAssumption
  <1>7. TypeOK'
    BY <1>1, <1>2, <1>3, <1>4, <1>5, <1>6 DEF TypeOK
  <1>8. LockInv' /\ WorkInv'
    BY <1>1, <1>3 DEF LockInv, WorkInv
  <1>9. DiskInv' /\ IdentityInv' /\ RepairInv'
    BY <1>1, NothingStored
  <1> QED BY <1>6, <1>7, <1>8, <1>9 DEF KeyInv, SignerUnchanged

(* openLocked up to the first change.                                      *)
LEMMA LoadStep ==
  ASSUME KeyInv, NEW c \in Processes, Load(c)
  PROVE  KeyInv'
  <1> USE DEF KeyInv
  <1>1. /\ pc[c] = "load"
        /\ UNCHANGED <<file, survivors, objects, born, foreign, captured, announced, signed,
                       rolledBack, boot>>
        /\ faults' \in 0 .. MaxFaults
    BY FaultCounted DEF Load, disk, tpm, ghosts
  <1>2. DiskInv' /\ IdentityInv' /\ RepairInv' /\ SignerUnchanged'
    BY <1>1, NothingStored DEF SignerUnchanged
  <1>3. CASE Return(c)
    BY <1>1, <1>2, <1>3, Returns DEF TypeOK, CallOK
  <1>4. CASE /\ Opens(file) /\ snapshot' = [snapshot EXCEPT ![c] = file]
             /\ Goto(c, IF HasPending(file) THEN "savePending" ELSE AfterPending(file))
             /\ UNCHANGED <<lock, op>>
    <2> DEFINE label == IF HasPending(file) THEN "savePending" ELSE AfterPending(file)
    <2>1. /\ label \in PCs /\ label \in {"savePending", "evict", "act"}
          /\ label \in {"evict", "act"} => NoPending(file)
          /\ label = "act" => NoRetiring(file)
      BY DEF PCs, AfterPending, HasPending, HasRetiring, NoPending, NoRetiring
    <2>2. pc' = [pc EXCEPT ![c] = label]
      BY <1>4 DEF Goto
    <2> HIDE DEF label
    <2>3. snapshot' \in [Processes -> Snapshots] /\ snapshot'[c] = file
      BY <1>4 DEF TypeOK
    <2>4. pc'[c] = label /\ pc' \in [Processes -> PCs] /\ LockInv' /\ lock' \in Processes \cup {None}
      BY <1>1, <1>4, <2>1, <2>2, GoesOn
    <2>5. Cached(c)'
      BY <1>1, <2>3 DEF Cached
    <2>6. Verified(c)'
      <3>1. ActiveVerified(file)
        BY <1>4 DEF Opens, ActiveVerified
      <3> QED BY <1>1, <2>3, <3>1 DEF Verified, ActiveVerified, verifyPublicMetadata, readPublic
    <2>7. Progress(c)'
      BY <1>1, <2>1, <2>3, <2>4 DEF Progress, NoPending, NoRetiring
    <2>8. WorkInv'
      BY <1>1, <1>4, <2>1, <2>2, <2>5, <2>6, <2>7, GoesOn
    <2> QED BY <1>1, <1>2, <1>4, <2>3, <2>4, <2>8 DEF TypeOK
  <1> QED BY <1>3, <1>4 DEF Load

(* reconcilePendingLocked.                                                 *)
LEMMA SavePendingStep ==
  ASSUME KeyInv, NEW c \in Processes, SavePending(c)
  PROVE  KeyInv'
  <1> USE DEF KeyInv
  <1> DEFINE n == reconcilePending(snapshot[c])
  <1>1. /\ pc[c] = "savePending"
        /\ UNCHANGED <<objects, born, foreign, captured, announced, signed, rolledBack, boot>>
    BY DEF SavePending, tpm, ghosts
  <1>2. SignerUnchanged'
    BY <1>1 DEF SignerUnchanged
  <1>3. /\ snapshot[c] = file /\ file \in Snapshots /\ Sound(file) /\ ActiveVerified(file)
    BY <1>1, CachedIsFile
  <1>4. CASE Return(c) /\ UNCHANGED <<disk, faults>>
    <2>1. UNCHANGED <<file, survivors, faults>>
      BY <1>4 DEF disk
    <2> QED BY <1>1, <1>2, <1>4, <2>1, NothingStored, Returns DEF TypeOK, CallOK
  <1>5. CASE Save(c, n, AfterPending(n))
    <2>1. n \in Candidates /\ Sound(n) /\ ActiveVerified(n) /\ (BorneOut(file) => BorneOut(n))
          /\ NoPending(n)
      BY <1>3, ReconcileFields, ReconcileSound DEF NoPending
    <2>2. /\ AfterPending(n) \in PCs /\ AfterPending(n) \in {"evict", "act"}
          /\ AfterPending(n) = "act" => NoRetiring(n)
      BY DEF AfterPending, PCs, HasRetiring, NoRetiring
    <2> HIDE DEF n
    <2>3. SaveAs(c, n, AfterPending(n), op[c].kind)
      BY <1>5 DEF Save
    <2>4. [op EXCEPT ![c].kind = op[c].kind] \in [Processes -> Running]
      BY SameKind DEF TypeOK
    <2>5. /\ DiskInv' /\ IdentityInv' /\ RepairInv' /\ LockInv' /\ CallOK'
          /\ file' \in Snapshots /\ survivors' \subseteq Snapshots
          /\ faults' \in 0 .. MaxFaults
          /\ \/ WorkInv'
             \/ /\ pc' = [pc EXCEPT ![c] = AfterPending(n)] /\ file' = n
                /\ snapshot' = [snapshot EXCEPT ![c] = n] /\ lock' = lock
      BY <1>1, <2>1, <2>2, <2>3, <2>4, SaveStep
    <2>6. TypeOK'
      BY <1>1, <2>5 DEF TypeOK, CallOK
    <2>7. ASSUME /\ pc' = [pc EXCEPT ![c] = AfterPending(n)] /\ file' = n
                 /\ snapshot' = [snapshot EXCEPT ![c] = n] /\ lock' = lock
          PROVE  WorkInv'
      <3>1. pc'[c] = AfterPending(n) /\ snapshot'[c] = n
        BY <1>1, <2>2, <2>7, GoesOn DEF TypeOK
      <3>2. Cached(c)'
        BY <2>7, <3>1 DEF Cached
      <3>3. Verified(c)'
        BY <1>1, <2>1, <2>7, <3>1 DEF Verified, ActiveVerified, verifyPublicMetadata, readPublic
      <3>4. Progress(c)'
        BY <2>1, <2>2, <2>7, <3>1 DEF Progress, NoPending, NoRetiring
      <3> QED BY <1>1, <2>2, <2>7, <3>2, <3>3, <3>4, GoesOn
    <2> QED BY <1>2, <2>5, <2>6, <2>7
  <1> QED BY <1>4, <1>5 DEF SavePending

(* The last part of reconcileRetiringLocked.                               *)
LEMMA SaveRetiredStep ==
  ASSUME KeyInv, NEW c \in Processes, SaveRetired(c)
  PROVE  KeyInv'
  <1> USE DEF KeyInv
  <1> DEFINE n == WithoutRetiring(snapshot[c])
  <1>1. /\ pc[c] = "saveRetired" /\ SaveAs(c, n, "act", op[c].kind)
        /\ UNCHANGED <<objects, born, foreign, captured, announced, signed, rolledBack, boot>>
    BY DEF SaveRetired, Save, tpm, ghosts
  <1>2. SignerUnchanged'
    BY <1>1 DEF SignerUnchanged
  <1>3. Cached(c) /\ Verified(c) /\ Progress(c) /\ snapshot[c] \in Snapshots /\ file \in Snapshots
    BY <1>1 DEF WorkInv, TypeOK
  <1>4. /\ n \in Candidates /\ n.active = file.active /\ n.pending = file.pending
        /\ NoRetiring(n) /\ NoPending(n)
    BY <1>1, <1>3, WithoutFields DEF Cached, Progress, NoRetiring, NoPending
  <1> HIDE DEF n
  <1>5. \A r \in Roles : \A k \in file.retiring[r] : objects[k.handle] # k.key
    BY <1>1, <1>3 DEF Verified, Progress, NoRetiring
  <1>6. Sound(n) /\ (BorneOut(file) => BorneOut(n))
    <2>1. Sound(file)
      BY DEF DiskInv, Sound
    <2> QED BY <1>3, <1>4, <1>5, <2>1, WithoutSound
  <1>7. /\ DiskInv' /\ IdentityInv' /\ RepairInv' /\ LockInv' /\ CallOK'
        /\ file' \in Snapshots /\ survivors' \subseteq Snapshots
        /\ faults' \in 0 .. MaxFaults
        /\ \/ WorkInv'
           \/ /\ pc' = [pc EXCEPT ![c] = "act"] /\ file' = n
              /\ snapshot' = [snapshot EXCEPT ![c] = n] /\ lock' = lock
    <2>1. [op EXCEPT ![c].kind = op[c].kind] \in [Processes -> Running] /\ "act" \in PCs
      BY SameKind DEF TypeOK, PCs
    <2> QED BY <1>1, <1>4, <1>6, <2>1, SaveStep
  <1>8. TypeOK'
    BY <1>1, <1>7 DEF TypeOK, CallOK
  <1>9. ASSUME /\ pc' = [pc EXCEPT ![c] = "act"] /\ file' = n
               /\ snapshot' = [snapshot EXCEPT ![c] = n] /\ lock' = lock
        PROVE  WorkInv'
    <2>1. pc'[c] = "act" /\ snapshot'[c] = n /\ "act" \in PCs
      BY <1>9 DEF TypeOK, PCs
    <2>2. Cached(c)'
      BY <1>9, <2>1 DEF Cached
    <2>3. Verified(c)'
      BY <1>1, <1>3, <1>4, <1>9, <2>1 DEF Verified, NoRetiring, verifyPublicMetadata, readPublic
    <2>4. Progress(c)'
      BY <1>4, <1>9, <2>1 DEF Progress, NoPending, NoRetiring
    <2> QED BY <1>1, <1>9, <2>1, <2>2, <2>3, <2>4, GoesOn
  <1> QED BY <1>2, <1>7, <1>8, <1>9

(* Evicting a retiring key takes nothing else from the TPM.                *)
LEMMA EvictEffect ==
  ASSUME KeyInv, NEW c \in Processes, pc[c] = "evict", NEW r \in Roles,
         NEW k \in snapshot[c].retiring[r],
         objects' \in {objects, evictKnown(k)},
         UNCHANGED <<file, survivors, announced, rolledBack>>
  PROVE  /\ DiskInv' /\ IdentityInv' /\ RepairInv'
         /\ objects' \in [Handles -> -1 .. MaxKeys]
         /\ ActiveVerified(file)'
         /\ k \in Keys /\ k \in file.retiring[r]
         /\ \A h \in Handles : objects'[h] = objects[h] \/ objects'[h] = Free
  <1> USE DEF KeyInv
  <1>1. Cached(c) /\ Verified(c) /\ snapshot[c] \in Candidates /\ file \in Candidates
    BY SnapshotFacts DEF WorkInv, TypeOK
  <1>2. k \in file.retiring[r] /\ k \in Keys /\ k.handle \in Handles
    BY <1>1, CandidateFacts, KeyFacts DEF Cached
  <1>3. validateSnapshot(file) /\ k \in Recorded(file, r)
    BY <1>1, <1>2, KeyFacts DEF DiskInv, Recorded
  <1>4. /\ objects \in [Handles -> -1 .. MaxKeys] /\ objects' \in [Handles -> -1 .. MaxKeys]
        /\ \A h \in Handles : h # k.handle => objects'[h] = objects[h]
        /\ objects'[k.handle] \in {objects[k.handle], Free}
    BY <1>2, PolicyAssumption DEF TypeOK, evictKnown, Free
  <1>5. DiskInv'
    <2>1. \A s \in survivors : NamesAll(s)'
      BY <1>4 DEF DiskInv, NamesAll
    <2> QED BY <2>1 DEF DiskInv, KeepsIdentity
  <1>6. IdentityInv'
    <2> SUFFICES ASSUME NEW q \in Lifetime, NEW l \in announced[q]
                 PROVE  objects'[l.handle] = l.key
      BY DEF IdentityInv, verifyPublicMetadata, readPublic
    <2>1. objects[l.handle] = l.key /\ l \in {file.active[q], file.pending[q]}
      BY DEF IdentityInv, DiskInv, KeepsIdentity, verifyPublicMetadata, readPublic
    <2>2. q \in Roles /\ l \in Keys
      BY PolicyAssumption DEF TypeOK
    <2>3. l \in Recorded(file, q)
      BY <2>1, <2>2, KeyFacts DEF Recorded
    <2>4. l.handle \in HandlesOf(q) /\ k.handle \in HandlesOf(r) /\ file.retiring[q] = {}
      BY <1>1, <1>3, <2>2, <2>3, EntryFacts
    <2>5. l.handle # k.handle
      BY <2>4, <2>2, <1>2, PoolFacts
    <2> QED BY <2>1, <2>2, <2>5, <1>4, KeyFacts
  <1>7. \A q \in Roles : \A l \in Recorded(file, q) :
            l.handle = k.handle => l = k /\ q = r /\ l # file.active[q]
    BY <1>1, <1>2, <1>3, EntryFacts, PoolFacts
  <1>8. \A q \in Roles : \A l \in Recorded(file, q) : l.handle \in Handles
    BY <1>1, CandidateFacts, KeyFacts
  <1>9. RepairInv'
    BY <1>4, <1>7, <1>8 DEF RepairInv, BorneOut, verifyPublicMetadata, readPublic
  <1>10. ActiveVerified(file)'
    <2>1. \A q \in Roles : file.active[q] # NoKey => file.active[q] \in Recorded(file, q)
      BY DEF Recorded
    <2> QED BY <1>1, <1>4, <1>7, <1>8, <2>1
         DEF Verified, ActiveVerified, verifyPublicMetadata, readPublic
  <1> QED BY <1>2, <1>4, <1>5, <1>6, <1>9, <1>10

(* The cached snapshot without a key that has been evicted.                *)
LEMMA RestFields ==
  ASSUME NEW s \in Snapshots, NEW r \in Roles, NEW k
  PROVE  LET rest == [s EXCEPT !.retiring[r] = @ \ {k}] IN
         /\ rest \in Snapshots /\ rest.rev = s.rev /\ rest.active = s.active
         /\ rest.pending = s.pending
         /\ rest.retiring = [s.retiring EXCEPT ![r] = s.retiring[r] \ {k}]
  BY DEF Snapshots

(* reconcileRetiringLocked, one key.                                       *)
LEMMA EvictRetiringStep ==
  ASSUME KeyInv, NEW c \in Processes, EvictRetiring(c)
  PROVE  KeyInv'
  <1> USE DEF KeyInv
  <1>1. /\ pc[c] = "evict"
        /\ UNCHANGED <<file, survivors, born, foreign, captured, announced, signed,
                       rolledBack, boot>>
    BY DEF EvictRetiring, disk, ghosts
  <1> DEFINE Evicts(r, k) ==
               LET rest == [snapshot[c] EXCEPT !.retiring[r] = @ \ {k}]
                   ok == /\ HasCapacity(snapshot[c], 1)
                         /\ ~handleOccupied(k.handle) \/ verifyPublicMetadata(k)
               IN  \/ /\ ok
                      /\ objects' = evictKnown(k)
                      /\ snapshot' = [snapshot EXCEPT ![c] = rest]
                      /\ Goto(c, IF HasRetiring(rest) THEN "evict" ELSE "saveRetired")
                      /\ UNCHANGED <<lock, op, faults>>
                   \/ /\ IF ok THEN Fault /\ objects' \in {objects, evictKnown(k)}
                         ELSE UNCHANGED <<objects, faults>>
                      /\ Return(c)
  <1>a. PICK r \in Roles : \E k \in snapshot[c].retiring[r] : Evicts(r, k)
    BY DEF EvictRetiring
  <1>2. PICK k \in snapshot[c].retiring[r] : Evicts(r, k)
    BY <1>a
  <1> DEFINE rest == [snapshot[c] EXCEPT !.retiring[r] = @ \ {k}]
             label == IF HasRetiring(rest) THEN "evict" ELSE "saveRetired"
  <1>3. \/ /\ objects' = evictKnown(k) /\ snapshot' = [snapshot EXCEPT ![c] = rest]
           /\ pc' = [pc EXCEPT ![c] = label] /\ UNCHANGED <<lock, op, faults>>
        \/ /\ objects' \in {objects, evictKnown(k)} /\ Return(c)
           /\ Fault \/ UNCHANGED faults
    BY <1>2 DEF Goto
  <1>4. objects' \in {objects, evictKnown(k)} /\ faults' \in 0 .. MaxFaults
    BY <1>3, FaultCounted
  <1>5. /\ DiskInv' /\ IdentityInv' /\ RepairInv'
        /\ objects' \in [Handles -> -1 .. MaxKeys]
        /\ ActiveVerified(file)' /\ k \in Keys /\ k \in file.retiring[r]
        /\ \A h \in Handles : objects'[h] = objects[h] \/ objects'[h] = Free
    BY <1>1, <1>4, EvictEffect
  <1>6. SignerUnchanged'
    BY <1>1 DEF SignerUnchanged
  <1>7. CASE Return(c)
    BY <1>1, <1>4, <1>5, <1>6, <1>7, Returns DEF TypeOK, CallOK
  <1>8. CASE /\ objects' = evictKnown(k) /\ snapshot' = [snapshot EXCEPT ![c] = rest]
             /\ pc' = [pc EXCEPT ![c] = label] /\ UNCHANGED <<lock, op, faults>>
    <2>1. /\ rest \in Snapshots /\ rest.rev = snapshot[c].rev /\ rest.active = snapshot[c].active
          /\ rest.pending = snapshot[c].pending
          /\ rest.retiring = [snapshot[c].retiring EXCEPT ![r] = snapshot[c].retiring[r] \ {k}]
      <3>1. snapshot[c] \in Snapshots
        BY DEF TypeOK
      <3> QED BY ONLY <3>1, RestFields, r \in Roles
    <2>2. label \in PCs /\ label \in {"evict", "saveRetired"} /\ (label = "saveRetired" => NoRetiring(rest))
      BY DEF PCs, HasRetiring, NoRetiring
    <2> HIDE DEF rest, label
    <2>3. snapshot' \in [Processes -> Snapshots] /\ snapshot'[c] = rest
      BY <1>8, <2>1 DEF TypeOK
    <2>4. Cached(c) /\ Verified(c) /\ Progress(c)
      BY <1>1 DEF WorkInv
    <2>5. pc'[c] = label /\ pc' \in [Processes -> PCs] /\ LockInv' /\ lock' \in Processes \cup {None}
      BY <1>1, <1>8, <2>2, GoesOn
    <2>6. /\ \A q \in Roles : rest.retiring[q] \subseteq snapshot[c].retiring[q]
          /\ \A q \in Roles : \A l \in snapshot[c].retiring[q] :
                l \notin rest.retiring[q] => l = k
      <3>1. snapshot[c].retiring \in [Roles -> SUBSET Keys]
        BY CandidateFacts, SnapshotFacts DEF TypeOK
      <3> QED BY <2>1, <3>1
    <2>7. Cached(c)'
      BY <1>1, <2>1, <2>2, <2>3, <2>4, <2>5, <2>6 DEF Cached
    <2>8. Verified(c)'
      <3>1. \A q \in Roles : \A l \in file.retiring[q] :
              l \notin rest.retiring[q] => objects'[l.handle] # l.key
        <4> SUFFICES ASSUME NEW q \in Roles, NEW l \in file.retiring[q], l \notin rest.retiring[q]
                     PROVE  objects'[l.handle] # l.key
          OBVIOUS
        <4>1. l \in Keys
          BY CandidateFacts, SnapshotFacts DEF TypeOK
        <4>2. l.handle \in Handles /\ l.key >= 1 /\ l.key \in Nat
          BY <4>1, KeyFacts
        <4>3. CASE l \in snapshot[c].retiring[q]
          <5>1. l = k /\ objects'[l.handle] = Free
            BY <1>8, <2>6, <4>2, <4>3 DEF evictKnown, TypeOK
          <5> QED BY <5>1, <4>2 DEF Free
        <4>4. CASE l \notin snapshot[c].retiring[q]
          BY <1>5, <2>4, <4>2, <4>4 DEF Verified, Free
        <4> QED BY <4>3, <4>4
      <3> QED BY <1>1, <1>5, <2>3, <3>1 DEF Verified, ActiveVerified
    <2>9. Progress(c)'
      BY <1>1, <2>2, <2>3, <2>4, <2>5 DEF Progress, NoPending, NoRetiring
    <2>10. WorkInv'
      BY <1>1, <1>8, <2>2, <2>7, <2>8, <2>9, GoesOn
    <2> QED BY <1>1, <1>4, <1>5, <1>6, <1>8, <2>3, <2>5, <2>10 DEF TypeOK
  <1> QED BY <1>3, <1>7, <1>8

(* createMetadataLocked: the key is recorded before it gets its handle.    *)
LEMMA CreateKeyStep ==
  ASSUME KeyInv, NEW c \in Processes, pc[c] = "act",
         op[c].kind \in {"ensure", "rotate", "rotateIfDue"}, op[c].role \in Roles,
         NEW h \in HandlesOf(op[c].role), NEW generation \in 1 .. MaxGeneration,
         generation = file.active[op[c].role].gen + 1,
         file.active[op[c].role] # NoKey => file.active[op[c].role].handle # h,
         op[c].role \in Lifetime \/ op[c].kind = "ensure" => file.active[op[c].role] = NoKey,
         NEW steps, CreateKey(c, h, generation, steps),
         UNCHANGED <<objects, announced, rolledBack>>
  PROVE  /\ DiskInv' /\ IdentityInv' /\ RepairInv' /\ LockInv' /\ CallOK' /\ WorkInv'
         /\ file' \in Snapshots /\ survivors' \subseteq Snapshots
         /\ faults' \in 0 .. MaxFaults /\ born' \in 0 .. MaxKeys
  <1> USE DEF KeyInv
  <1> DEFINE r == op[c].role
             k == createdKey(h, generation)
             n == Incremented([snapshot[c] EXCEPT !.pending[r] = k])
  <1>1. /\ snapshot[c] = file /\ file \in Snapshots /\ Sound(file) /\ ActiveVerified(file)
        /\ Progress(c)
    BY CachedIsFile
  <1>2. CASE Return(c) /\ UNCHANGED <<disk, born, faults>>
    <2>1. UNCHANGED <<file, survivors, born, faults>>
      BY <1>2 DEF disk
    <2> QED BY <1>1, <1>2, <2>1, NothingStored, Returns DEF TypeOK
  <1>3. CASE /\ ~handleOccupied(h) /\ born < MaxKeys /\ Save(c, n, "persist")
             /\ born' = IF file' = file THEN born ELSE born + 1
    <2>1. born \in Nat /\ born + 1 \in 1 .. MaxKeys /\ born' \in 0 .. MaxKeys
      <3>1. born \in 0 .. MaxKeys /\ MaxKeys \in Nat /\ born < MaxKeys
        BY <1>3, PolicyAssumption DEF TypeOK
      <3>2. born' = born \/ born' = born + 1
        BY <1>3, Zenon
      <3> QED BY ONLY <3>1, <3>2
    <2>2. k \in Keys /\ k.handle = h /\ k.gen = generation
      <3>1. h \in Handles
        BY PoolFacts
      <3> QED BY <3>1, <2>1 DEF createdKey, Keys
    <2>3. objects[h] = Free
      BY <1>3 DEF handleOccupied, readPublic
    <2>4. NoPending(file) /\ NoRetiring(file)
      BY <1>1 DEF Progress
    <2> HIDE DEF k
    <2>5. /\ n \in Candidates /\ n.active = file.active /\ n.retiring = file.retiring
          /\ n.pending[r] = k
          /\ \A q \in Roles : q # r => n.pending[q] = NoKey
      BY <1>1, <2>2, <2>4, CreateFields DEF NoPending
    <2>6. Sound(n) /\ (BorneOut(file) => BorneOut(n))
      BY <1>1, <2>2, <2>3, <2>4, CreateSound
    <2>7. /\ SaveAs(c, n, "persist", op[c].kind) /\ "persist" \in PCs
          /\ [op EXCEPT ![c].kind = op[c].kind] = op /\ op \in [Processes -> Running]
      BY <1>3, SameKind DEF Save, PCs, TypeOK
    <2> HIDE DEF n
    <2>8. /\ DiskInv' /\ IdentityInv' /\ RepairInv' /\ LockInv' /\ CallOK'
          /\ file' \in Snapshots /\ survivors' \subseteq Snapshots
          /\ faults' \in 0 .. MaxFaults
          /\ \/ WorkInv'
             \/ /\ pc' = [pc EXCEPT ![c] = "persist"] /\ file' = n /\ survivors' = {n}
                /\ snapshot' = [snapshot EXCEPT ![c] = n] /\ lock' = lock /\ op' = op
      BY <2>5, <2>6, <2>7, SaveStep
    <2>9. ASSUME /\ pc' = [pc EXCEPT ![c] = "persist"] /\ file' = n /\ survivors' = {n}
                 /\ snapshot' = [snapshot EXCEPT ![c] = n] /\ lock' = lock /\ op' = op
          PROVE  WorkInv'
      <3>1. pc'[c] = "persist" /\ snapshot'[c] = n
        BY <2>9 DEF TypeOK
      <3>2. Cached(c)'
        BY <2>9, <3>1 DEF Cached
      <3>3. Verified(c)'
        BY <1>1, <2>5, <2>9, <3>1 DEF Verified, ActiveVerified, verifyPublicMetadata, readPublic
      <3>4. NoRetiring(n) /\ n.pending[r] # NoKey
        BY <2>2, <2>4, <2>5, KeyFacts DEF NoRetiring
      <3>5. /\ file'.pending[op'[c].role] = k
            /\ objects'[k.handle] = 0 /\ k.key # 0
        BY <1>3, <2>2, <2>3, <2>5, <2>9, KeyFacts DEF Free
      <3>6. Progress(c)'
        BY <1>3, <2>5, <2>9, <3>1, <3>4, <3>5
           DEF Progress, NoRetiring, verifyPublicMetadata, readPublic
      <3> QED BY <2>7, <2>9, <3>2, <3>3, <3>6, GoesOn
    <2> QED BY <2>1, <2>8, <2>9
  <1> QED BY <1>2, <1>3 DEF CreateKey

(* The role of an operation that needs one.                                *)
LEMMA RoleOf ==
  ASSUME KeyInv, NEW c \in Processes,
         op[c].kind \in {"ensure", "rotate", "prepare", "issue", "due", "rotateIfDue"}
  PROVE  op[c].role \in Roles
  <1>1. op[c] \in Running
    BY DEF KeyInv, TypeOK
  <1> QED BY <1>1 DEF Running, Ops, NoOp

(* ensureRoleLocked.                                                       *)
LEMMA EnsureRoleStep ==
  ASSUME KeyInv, NEW c \in Processes, EnsureRole(c)
  PROVE  KeyInv'
  <1> USE DEF KeyInv
  <1> DEFINE r == op[c].role
  <1>1. /\ pc[c] = "act" /\ op[c].kind = "ensure" /\ r \in Roles
        /\ UNCHANGED <<objects, foreign, captured, signed, rolledBack, boot>>
    BY RoleOf DEF EnsureRole
  <1>2. /\ snapshot[c] = file /\ file \in Snapshots /\ file \in Candidates
        /\ Sound(file) /\ ActiveVerified(file)
    BY <1>1, CachedIsFile
  <1>3. SignerUnchanged'
    BY <1>1 DEF SignerUnchanged
  <1>4. CASE /\ file.active[r] # NoKey /\ announced' = Announced(r, file.active[r])
             /\ Return(c) /\ UNCHANGED <<disk, born, faults>>
    <2> DEFINE k == file.active[r]
    <2>1. UNCHANGED <<file, survivors, born, faults>>
      BY <1>4 DEF disk
    <2>2. k \in Keys /\ objects[k.handle] = k.key /\ k.handle \in Handles
          /\ objects[k.handle] \notin {Free, Foreign} /\ k \in Recorded(file, r)
      <3>1. k \in Keys /\ k \in Recorded(file, r)
        BY <1>1, <1>2, <1>4, CandidateFacts DEF Recorded
      <3>2. objects[k.handle] = k.key
        BY <1>1, <1>2, <1>4 DEF ActiveVerified, verifyPublicMetadata, readPublic
      <3> QED BY <3>1, <3>2, KeyFacts DEF Free, Foreign
    <2>3. announced' \in [Lifetime -> SUBSET Keys]
          /\ \A q \in Lifetime : \A l \in announced'[q] : l \in announced[q] \/ (q = r /\ l = k)
      BY <1>4, <2>2 DEF Announced, TypeOK
    <2>4. \A s \in survivors : r \in Lifetime => k \in {s.active[r], s.pending[r]}
      <3> SUFFICES ASSUME NEW s \in survivors, r \in Lifetime
                   PROVE  k \in {s.active[r], s.pending[r]}
        OBVIOUS
      <3>1. s \in Candidates /\ validateSnapshot(s) /\ NamesAll(s)
        BY SnapshotFacts DEF TypeOK, DiskInv
      <3>2. PICK q \in Roles : \E l \in Recorded(s, q) : l.handle = k.handle /\ l.key = k.key
        BY <2>2, <3>1 DEF NamesAll
      <3>3. PICK l \in Recorded(s, q) : l.handle = k.handle /\ l.key = k.key
        BY <3>2
      <3>4. l.handle \in HandlesOf(q) /\ k.handle \in HandlesOf(r) /\ l \in Keys
        BY <1>1, <1>2, <2>2, <3>1, EntryFacts DEF Sound
      <3>5. q = r
        BY <1>1, <3>3, <3>4, PoolFacts
      <3>6. l \in {s.active[r], s.pending[r]}
        BY <1>1, <3>1, <3>5, EntryFacts DEF Recorded
      <3>7. k.gen = 1
        <4>1. file.active[r].gen <= 1
          BY <1>1, <1>2 DEF Sound, validateSnapshot
        <4> QED BY <2>2, <4>1, KeyFacts
      <3>8. l.gen = 1
        <4>1. s.active[r].gen <= 1 /\ (s.active[r] = NoKey \/ s.pending[r] = NoKey)
          BY <1>1, <3>1 DEF validateSnapshot
        <4>2. s.pending[r] # NoKey => s.pending[r].gen = s.active[r].gen + 1
          BY <1>1, <3>1 DEF validateSnapshot
        <4> QED BY <3>4, <3>6, <4>1, <4>2, KeyFacts
      <3>9. l = k
        BY <2>2, <3>3, <3>4, <3>7, <3>8 DEF Keys
      <3> QED BY <3>6, <3>9
    <2>5. DiskInv'
      BY <1>1, <2>1, <2>3, <2>4 DEF DiskInv, NamesAll, KeepsIdentity
    <2>6. IdentityInv'
      BY <1>1, <2>2, <2>3 DEF IdentityInv, verifyPublicMetadata, readPublic
    <2>7. RepairInv'
      BY <1>1, <2>1 DEF RepairInv, BorneOut, verifyPublicMetadata, readPublic
    <2>8. CallOK' /\ LockInv' /\ WorkInv'
      BY <1>1, <1>4, Returns
    <2> QED BY <1>1, <1>3, <2>1, <2>3, <2>5, <2>6, <2>7, <2>8 DEF TypeOK, CallOK
  <1>5. CASE /\ file.active[r] = NoKey /\ CreateKey(c, initialHandle(r), 1, 2)
             /\ UNCHANGED announced
    <2>1. initialHandle(r) \in HandlesOf(r) /\ 1 \in 1 .. MaxGeneration
          /\ file.active[r].gen + 1 = 1
      BY <1>1, <1>5, PoolFacts, KeyFacts, PolicyAssumption
    <2> QED BY <1>1, <1>3, <1>5, <2>1, CreateKeyStep DEF TypeOK, CallOK
  <1> QED BY <1>1, <1>2, <1>4, <1>5 DEF EnsureRole

(* The first handle that is fit for a rotation is fit.                     *)
LEMMA FirstHandle ==
  ASSUME NEW r \in Roles, NEW s, rotationHandles(s, r) # {}
  PROVE  LET handles == rotationHandles(s, r)
             first == CHOOSE i \in handles : \A j \in handles : i <= j
         IN  first \in handles
  <1> DEFINE H == rotationHandles(s, r)
  <1>1. H \subseteq DOMAIN Pool[r] /\ DOMAIN Pool[r] \subseteq Nat
    <2>1. Pool[r] \in Seq(Handles)
      BY PolicyAssumption
    <2>2. DOMAIN Pool[r] \subseteq Nat
      BY <2>1
    <2> QED BY <2>2 DEF rotationHandles
  <1> HIDE DEF H
  <1>2. PICK i \in H : \A j \in H : ~(<<j, i>> \in OpToRel(<, Nat))
    <2>1. H # {} /\ H \subseteq Nat
      BY <1>1 DEF H
    <2> QED BY <2>1, NatLessThanWellFounded, WFMin
  <1>3. \A j \in H : i <= j
    <2> TAKE j \in H
    <2>1. i \in Nat /\ j \in Nat
      BY <1>1
    <2>2. j < i => <<j, i>> \in OpToRel(<, Nat)
      BY ONLY <2>1 DEF OpToRel
    <2>3. ~(j < i)
      BY <1>2, <2>2
    <2> QED BY <2>1, <2>3
  <1>4. \E x \in H : \A j \in H : x <= j
    BY <1>3
  <1> QED BY <1>4 DEF H

(* rotateLocked.                                                           *)
LEMMA RotateStep ==
  ASSUME KeyInv, NEW c \in Processes, Rotate(c)
  PROVE  KeyInv'
  <1> USE DEF KeyInv
  <1> DEFINE r == op[c].role
             handles == rotationHandles(file, r)
             first == CHOOSE i \in handles : \A j \in handles : i <= j
  <1>1. /\ pc[c] = "act" /\ op[c].kind \in {"rotate", "rotateIfDue"} /\ r \in Roles
        /\ UNCHANGED <<objects, foreign, announced, signed, rolledBack, boot>>
        /\ captured' = captured \/ captured' = [captured EXCEPT ![c] = NoCapture]
    BY RoleOf DEF Rotate, ghosts
  <1>2. /\ snapshot[c] = file /\ file \in Snapshots /\ file \in Candidates
        /\ Sound(file) /\ ActiveVerified(file)
    BY <1>1, CachedIsFile
  <1>3. SignerUnchanged' /\ captured' \in [Processes -> Captures]
    BY <1>1 DEF SignerUnchanged, TypeOK, Captures
  <1>4. CASE Return(c) /\ UNCHANGED <<disk, born, faults>>
    <2>1. UNCHANGED <<file, survivors, born, faults>>
      BY <1>4 DEF disk
    <2> QED BY <1>1, <1>3, <1>4, <2>1, NothingStored, Returns DEF TypeOK, CallOK
  <1>5. CASE rotatable(file, r) /\ CreateKey(c, Pool[r][first], file.active[r].gen + 1, 3)
    <2>1. /\ r \notin Lifetime /\ file.active[r] # NoKey /\ file.active[r].gen < MaxGeneration
          /\ handles # {}
      BY <1>5 DEF rotatable
    <2>2. first \in handles
      BY <1>1, <2>1, FirstHandle
    <2>3. Pool[r][first] \in HandlesOf(r) /\ \A k \in Recorded(file, r) : k.handle # Pool[r][first]
      BY <1>1, <2>2, PoolFacts DEF rotationHandles
    <2> HIDE DEF first
    <2>4. file.active[r] \in Keys /\ file.active[r] \in Recorded(file, r)
      BY <1>1, <1>2, <2>1, CandidateFacts DEF Recorded
    <2>5. file.active[r].gen + 1 \in 1 .. MaxGeneration
      <3>1. /\ file.active[r].gen \in Nat /\ MaxGeneration \in Nat
            /\ file.active[r].gen < MaxGeneration
        BY <2>1, <2>4, KeyFacts, PolicyAssumption
      <3>2. \A g, m \in Nat : g < m => g + 1 \in 1 .. m
        OBVIOUS
      <3> QED BY <3>1, <3>2, Zenon
    <2> QED BY <1>1, <1>3, <1>5, <2>1, <2>3, <2>4, <2>5, CreateKeyStep DEF TypeOK, CallOK
  <1> QED BY <1>2, <1>4, <1>5 DEF Rotate

(* Operations that only read, and a crash: nothing is stored.              *)
LEMMA ReadOnlyStep ==
  ASSUME KeyInv, NEW c \in Processes, pc[c] # "idle", Return(c),
         UNCHANGED <<file, survivors, objects, born, foreign, announced, rolledBack, boot>>,
         Fault \/ UNCHANGED faults, captured' \in [Processes -> Captures],
         signed' \in (0 .. MaxKeys) \X (-1 .. MaxKeys), signed'[1] = signed'[2]
  PROVE  KeyInv'
  <1>1. DiskInv' /\ IdentityInv' /\ RepairInv'
    BY NothingStored
  <1>2. CallOK' /\ LockInv' /\ WorkInv'
    BY Returns
  <1>3. faults' \in 0 .. MaxFaults
    BY FaultCounted DEF KeyInv
  <1> QED BY <1>1, <1>2, <1>3 DEF KeyInv, TypeOK, CallOK, SignerUnchanged

(* FinishOpen, Capture, IssueCertificate and Crash.                        *)
LEMMA ReaderSteps ==
  ASSUME KeyInv, NEW c \in Processes,
         FinishOpen(c) \/ Capture(c) \/ IssueCertificate(c) \/ Crash(c)
  PROVE  KeyInv'
  <1>0. /\ TypeOK /\ captured \in [Processes -> Captures] /\ NoCapture \in Captures
        /\ signed \in (0 .. MaxKeys) \X (-1 .. MaxKeys) /\ signed[1] = signed[2]
    BY DEF KeyInv, TypeOK, Captures, SignerUnchanged
  <1>1. CASE FinishOpen(c)
    BY <1>0, <1>1, ReadOnlyStep DEF FinishOpen, disk, tpm, ghosts
  <1>2. CASE Crash(c)
    <2>1. captured' \in [Processes -> Captures]
      BY <1>0, <1>2 DEF Crash
    <2> QED BY <1>0, <1>2, <2>1, ReadOnlyStep DEF Crash, disk, tpm, ghosts
  <1>3. CASE Capture(c)
    <2>1. pc[c] = "act" /\ op[c].role \in Roles
      BY <1>3, RoleOf DEF Capture
    <2>2. snapshot[c] \in Candidates
      BY <1>0, SnapshotFacts DEF TypeOK
    <2>3. snapshot[c].active[op[c].role] \in Keys \cup {NoKey}
      BY <2>1, <2>2, CandidateFacts
    <2>4. captured' \in [Processes -> Captures]
      <3> DEFINE k == snapshot[c].active[op[c].role]
                 use == IF op[c].kind = "prepare" THEN "issue" ELSE "rotateIfDue"
      <3>1. \/ captured' = captured
            \/ k # NoKey /\ captured' = [captured EXCEPT ![c] =
                                [use |-> use, role |-> op[c].role, key |-> k]]
        BY <1>3 DEF Capture
      <3>2. k # NoKey => [use |-> use, role |-> op[c].role, key |-> k] \in Captures
        BY <2>1, <2>3 DEF Captures
      <3> QED BY <1>0, <3>1, <3>2
    <2> QED BY <1>0, <1>3, <2>1, <2>4, ReadOnlyStep DEF Capture, disk, tpm, ghosts
  <1>4. CASE IssueCertificate(c)
    <2> DEFINE active == snapshot[c].active[op[c].role]
    <2>1. /\ pc[c] = "act" /\ op[c].role \in Roles /\ Return(c)
          /\ captured' = [captured EXCEPT ![c] = NoCapture]
          /\ signed' = IF SignerAccepted(c, active)
                       THEN <<captured[c].key.key, signingKey(active)>> ELSE signed
          /\ UNCHANGED <<file, survivors, objects, born, foreign, announced, rolledBack,
                         faults, boot>>
      BY <1>4, RoleOf DEF IssueCertificate, disk, tpm
    <2>2. captured' \in [Processes -> Captures]
      BY <1>0, <2>1
    <2>3. signed' \in (0 .. MaxKeys) \X (-1 .. MaxKeys) /\ signed'[1] = signed'[2]
      <3>1. CASE ~SignerAccepted(c, active)
        BY <1>0, <2>1, <3>1
      <3>2. CASE SignerAccepted(c, active)
        <4>1. active = captured[c].key /\ objects[active.handle] = active.key
          BY <3>2 DEF SignerAccepted, verifyPublicMetadata, readPublic
        <4>2. captured[c].key \in Keys \cup {NoKey}
          BY <1>0 DEF Captures, NoCapture
        <4>3. active.key \in 0 .. MaxKeys
          BY <4>1, <4>2, KeyFacts, PolicyAssumption
        <4>4. signed' = <<active.key, active.key>>
          BY <2>1, <3>2, <4>1 DEF signingKey, readPublic
        <4>5. active.key \in -1 .. MaxKeys
          BY <4>3, PolicyAssumption
        <4> HIDE DEF active
        <4> QED BY <4>3, <4>4, <4>5
      <3> QED BY <3>1, <3>2
    <2> QED BY <2>1, <2>2, <2>3, ReadOnlyStep
  <1> QED BY <1>1, <1>2, <1>3, <1>4

(* A key gets its handle when every surviving file names it.               *)
LEMMA PersistEffect ==
  ASSUME KeyInv, NEW c \in Processes, pc[c] = "persist", NEW k,
         k = file.pending[op[c].role], objects[k.handle] = Free,
         objects' \in {objects, persistedAt(k)},
         UNCHANGED <<file, survivors, announced, rolledBack>>
  PROVE  /\ DiskInv' /\ IdentityInv' /\ RepairInv'
         /\ objects' \in [Handles -> -1 .. MaxKeys] /\ ActiveVerified(file)'
         /\ objects' = persistedAt(k) => objects'[k.handle] = k.key
  <1> USE DEF KeyInv
  <1> DEFINE r == op[c].role
  <1>1. /\ file \in Candidates /\ Sound(file) /\ ActiveVerified(file) /\ Progress(c)
    BY CachedIsFile
  <1>2. r \in Roles /\ survivors = {file} /\ k # NoKey
    BY <1>1, RoleOf DEF Progress
  <1>3. k \in Keys /\ k.handle \in Handles /\ k \in Recorded(file, r)
    BY <1>1, <1>2, CandidateFacts, KeyFacts DEF Recorded
  <1>4. /\ objects \in [Handles -> -1 .. MaxKeys] /\ objects' \in [Handles -> -1 .. MaxKeys]
        /\ \A h \in Handles : h # k.handle => objects'[h] = objects[h]
        /\ objects'[k.handle] \in {Free, k.key}
        /\ objects' = persistedAt(k) => objects'[k.handle] = k.key
    <2>1. k.key \in -1 .. MaxKeys
      BY <1>3, KeyFacts, PolicyAssumption
    <2> QED BY <1>3, <2>1 DEF TypeOK, persistedAt
  <1>5. DiskInv'
    <2>1. NamesAll(file)'
      BY <1>1, <1>2, <1>3, <1>4 DEF Sound, NamesAll
    <2> QED BY <1>2, <2>1 DEF DiskInv, KeepsIdentity
  <1>6. \A l \in Keys : objects[l.handle] = l.key => objects'[l.handle] = l.key
    <2> TAKE l \in Keys
    <2>1. l.handle \in Handles /\ l.key # Free
      BY KeyFacts DEF Free
    <2> QED BY <1>4, <2>1
  <1>7. IdentityInv'
    <2>1. \A q \in Lifetime : \A l \in announced[q] : l \in Keys
      BY DEF TypeOK
    <2> QED BY <1>6, <2>1 DEF IdentityInv, verifyPublicMetadata, readPublic
  <1>8. \A q \in Roles : \A l \in Recorded(file, q) : l \in Keys /\ (l.handle = k.handle => l = k)
    <2>1. validateSnapshot(file)
      BY <1>1 DEF Sound
    <2> QED BY <1>1, <1>2, <1>3, <2>1, EntryFacts, PoolFacts
  <1>9. RepairInv'
    <2> SUFFICES ASSUME ~rolledBack, NEW q \in Roles, NEW l \in Recorded(file, q)
                 PROVE  IF l = file.active[q] THEN objects'[l.handle] = l.key
                        ELSE objects'[l.handle] \in {Free, Foreign, l.key}
      BY DEF RepairInv, BorneOut, verifyPublicMetadata, readPublic
    <2>1. l \in Keys /\ l.handle \in Handles
      BY <1>8, KeyFacts
    <2>2. CASE l = file.active[q]
      BY <2>1, <2>2, <1>6 DEF RepairInv, BorneOut, verifyPublicMetadata, readPublic
    <2>3. CASE l # file.active[q]
      BY <2>1, <2>3, <1>4, <1>8 DEF RepairInv, BorneOut
    <2> QED BY <2>2, <2>3
  <1>10. ActiveVerified(file)'
    <2>1. \A q \in Roles : file.active[q] # NoKey => file.active[q] \in Keys
      BY <1>1, CandidateFacts
    <2> QED BY <1>1, <1>6, <2>1 DEF ActiveVerified, verifyPublicMetadata, readPublic
  <1> QED BY <1>4, <1>5, <1>7, <1>9, <1>10

(* The rest of CreatePersistent.                                           *)
LEMMA PersistStep ==
  ASSUME KeyInv, NEW c \in Processes, Persist(c)
  PROVE  KeyInv'
  <1> USE DEF KeyInv
  <1> DEFINE k == file.pending[op[c].role]
  <1>1. /\ pc[c] = "persist"
        /\ UNCHANGED <<file, survivors, born, foreign, captured, announced, signed,
                       rolledBack, boot>>
    BY DEF Persist, disk, ghosts
  <1>2. /\ snapshot[c] = file /\ file \in Snapshots /\ Cached(c) /\ Verified(c) /\ Progress(c)
    BY <1>1, CachedIsFile
  <1>3. SignerUnchanged'
    BY <1>1 DEF SignerUnchanged
  <1>4. CASE Return(c) /\ UNCHANGED <<objects, faults>>
    BY <1>1, <1>3, <1>4, NothingStored, Returns DEF TypeOK, CallOK
  <1>5. CASE /\ objects[k.handle] = Free /\ objects' \in {objects, persistedAt(k)}
             /\ Fault \/ UNCHANGED faults
             /\ \/ Return(c)
                \/ /\ objects' = persistedAt(k) /\ Goto(c, "activate")
                   /\ UNCHANGED <<lock, op, snapshot>>
    <2>1. /\ DiskInv' /\ IdentityInv' /\ RepairInv'
          /\ objects' \in [Handles -> -1 .. MaxKeys] /\ ActiveVerified(file)'
          /\ objects' = persistedAt(k) => objects'[k.handle] = k.key
      BY <1>1, <1>5, PersistEffect
    <2>2. faults' \in 0 .. MaxFaults
      BY <1>5, FaultCounted
    <2>3. CASE Return(c)
      BY <1>1, <1>3, <2>1, <2>2, <2>3, Returns DEF TypeOK, CallOK
    <2>4. CASE objects' = persistedAt(k) /\ Goto(c, "activate") /\ UNCHANGED <<lock, op, snapshot>>
      <3>1. pc' = [pc EXCEPT ![c] = "activate"] /\ "activate" \in PCs
        BY <2>4 DEF Goto, PCs
      <3>2. pc'[c] = "activate" /\ pc' \in [Processes -> PCs] /\ LockInv'
        BY <1>1, <2>4, <3>1, GoesOn
      <3>3. Cached(c)'
        BY <1>1, <1>2, <2>4, <3>2 DEF Cached
      <3>4. Verified(c)'
        BY <1>1, <1>2, <2>1, <2>4 DEF Verified, ActiveVerified
      <3>5. Progress(c)'
        <4>1. objects'[k.handle] = k.key
          BY <2>1, <2>4
        <4> QED BY <1>1, <1>2, <2>4, <3>2, <4>1
             DEF Progress, NoRetiring, verifyPublicMetadata, readPublic
      <3>6. WorkInv'
        BY <1>1, <2>4, <3>1, <3>3, <3>4, <3>5, GoesOn
      <3> QED BY <1>1, <1>3, <2>1, <2>2, <2>4, <3>2, <3>6 DEF TypeOK
    <2> QED BY <1>5, <2>3, <2>4
  <1> QED BY <1>2, <1>4, <1>5 DEF Persist, handleOccupied, readPublic

(* The pending key becomes the active one.                                 *)
LEMMA ActivateStep ==
  ASSUME KeyInv, NEW c \in Processes, Activate(c)
  PROVE  KeyInv'
  <1> USE DEF KeyInv
  <1> DEFINE r == op[c].role
             n == Incremented(Activated(file, r, file.pending[r]))
             label == IF op[c].kind = "ensure" THEN "act" ELSE "evict"
             kind == IF op[c].kind = "ensure" THEN op[c].kind ELSE "open"
  <1>1. /\ pc[c] = "activate"
        /\ UNCHANGED <<objects, born, foreign, captured, announced, signed, rolledBack, boot>>
    BY DEF Activate, tpm, ghosts
  <1>2. /\ snapshot[c] = file /\ file \in Snapshots /\ file \in Candidates
        /\ Sound(file) /\ ActiveVerified(file) /\ Progress(c)
    BY <1>1, CachedIsFile
  <1>3. SaveAs(c, n, label, kind)
    BY <1>2 DEF Activate, Save
  <1>4. /\ op[c].kind \in {"ensure", "rotate", "rotateIfDue"} /\ r \in Roles
        /\ file.pending[r] \in Keys /\ verifyPublicMetadata(file.pending[r])
        /\ NoRetiring(file) /\ (op[c].kind = "ensure" => file.active[r] = NoKey)
        /\ \A q \in Roles : q # r => file.pending[q] = NoKey
    BY <1>1, <1>2, RoleOf, CandidateFacts DEF Progress
  <1>5. /\ n \in Candidates /\ Sound(n) /\ ActiveVerified(n) /\ (BorneOut(file) => BorneOut(n))
    BY <1>2, <1>4, ActivateFields, ActivateSound
  <1>6. NoPending(n) /\ (op[c].kind = "ensure" => NoRetiring(n))
    <2>1. /\ n.pending[r] = NoKey
          /\ n.retiring[r] = file.retiring[r] \cup ({file.active[r]} \ {NoKey})
          /\ \A q \in Roles : q # r => n.pending[q] = file.pending[q] /\ n.retiring[q] = file.retiring[q]
      BY <1>2, <1>4, ActivateFields
    <2> HIDE DEF n
    <2> QED BY <1>4, <2>1 DEF NoPending, NoRetiring
  <1>7. [op EXCEPT ![c].kind = kind] \in [Processes -> Running]
    <2>1. CASE op[c].kind = "ensure"
      BY <2>1, SameKind DEF TypeOK
    <2>2. CASE op[c].kind # "ensure"
      <3>1. op[c] \in Running /\ op \in [Processes -> Running]
        BY DEF TypeOK
      <3>2. op[c] = [kind |-> op[c].kind, role |-> op[c].role]
        BY <3>1 DEF Running, Ops, NoOp
      <3>3. [op[c] EXCEPT !.kind = "open"] = [kind |-> "open", role |-> r]
        BY <3>2
      <3>4. [kind |-> "open", role |-> r] \in Running
        BY <1>4 DEF Running
      <3> QED BY <2>2, <3>1, <3>3, <3>4
    <2> QED BY <2>1, <2>2
  <1>8. label \in PCs /\ label \in {"act", "evict"} /\ (label = "act" <=> op[c].kind = "ensure")
    BY DEF PCs
  <1> HIDE DEF n, label, kind
  <1>9. /\ DiskInv' /\ IdentityInv' /\ RepairInv' /\ LockInv' /\ CallOK'
        /\ file' \in Snapshots /\ survivors' \subseteq Snapshots
        /\ faults' \in 0 .. MaxFaults
        /\ \/ WorkInv'
           \/ /\ pc' = [pc EXCEPT ![c] = label] /\ file' = n
              /\ snapshot' = [snapshot EXCEPT ![c] = n] /\ lock' = lock
    BY <1>1, <1>3, <1>5, <1>7, <1>8, SaveStep
  <1>10. ASSUME /\ pc' = [pc EXCEPT ![c] = label] /\ file' = n
                /\ snapshot' = [snapshot EXCEPT ![c] = n] /\ lock' = lock
         PROVE  WorkInv'
    <2>1. pc'[c] = label /\ snapshot'[c] = n
      BY <1>10 DEF TypeOK
    <2>2. Cached(c)'
      BY <1>10, <2>1 DEF Cached
    <2>3. Verified(c)'
      BY <1>1, <1>5, <1>10, <2>1 DEF Verified, ActiveVerified, verifyPublicMetadata, readPublic
    <2>4. Progress(c)'
      BY <1>6, <1>8, <1>10, <2>1 DEF Progress, NoPending, NoRetiring
    <2> QED BY <1>1, <1>8, <1>10, <2>2, <2>3, <2>4, GoesOn
  <1> QED BY <1>1, <1>9, <1>10 DEF TypeOK, CallOK, SignerUnchanged

(* After a power loss the file is one that could survive; the TPM has not  *)
(* changed.                                                                *)
LEMMA PowerLossStep ==
  ASSUME KeyInv, PowerLoss
  PROVE  KeyInv'
  <1> USE DEF KeyInv
  <1>1. /\ file' \in survivors /\ survivors' = {file'}
        /\ rolledBack' = (rolledBack \/ file' # file) /\ lock' = None
        /\ pc' = [c \in Processes |-> "idle"] /\ op' = [c \in Processes |-> NoOp]
        /\ snapshot' = [c \in Processes |-> emptySnapshot]
        /\ captured' = [c \in Processes |-> NoCapture]
        /\ boot < MaxBoots /\ boot' = boot + 1
        /\ UNCHANGED <<objects, born, foreign, announced, signed, faults>>
    BY DEF PowerLoss, tpm
  <1>2. LockInv' /\ WorkInv'
    BY <1>1 DEF LockInv, WorkInv
  <1>3. DiskInv'
    BY <1>1 DEF DiskInv, NamesAll, KeepsIdentity
  <1>4. IdentityInv'
    BY <1>1 DEF IdentityInv, verifyPublicMetadata, readPublic
  <1>5. RepairInv'
    BY <1>1 DEF RepairInv, BorneOut, verifyPublicMetadata, readPublic
  <1>6. CallOK' /\ captured' \in [Processes -> Captures]
    BY <1>1, SnapshotFacts DEF CallOK, PCs, Running, Captures
  <1>7. boot' \in 1 .. MaxBoots
    BY <1>1, PolicyAssumption DEF TypeOK
  <1>8. file' \in Snapshots /\ survivors' \subseteq Snapshots /\ rolledBack' \in BOOLEAN
    BY <1>1 DEF TypeOK
  <1> QED BY <1>1, <1>2, <1>3, <1>4, <1>5, <1>6, <1>7, <1>8
       DEF TypeOK, CallOK, SignerUnchanged

(* An object of other software takes a free handle.                        *)
LEMMA ForeignStep ==
  ASSUME KeyInv, NEW h \in Handles, ForeignCreates(h)
  PROVE  KeyInv'
  <1> USE DEF KeyInv
  <1>1. /\ objects[h] = Free /\ objects' = [objects EXCEPT ![h] = Foreign]
        /\ foreign < MaxForeign /\ foreign' = foreign + 1
        /\ UNCHANGED <<file, survivors, born, lock, pc, op, snapshot, captured,
                       announced, signed, rolledBack, faults, boot>>
    BY DEF ForeignCreates, disk, call, ghosts
  <1>2. foreign' \in 0 .. MaxForeign
    BY <1>1, PolicyAssumption DEF TypeOK
  <1>3. /\ objects \in [Handles -> -1 .. MaxKeys] /\ objects' \in [Handles -> -1 .. MaxKeys]
        /\ \A g \in Handles : g # h => objects'[g] = objects[g]
        /\ objects'[h] = Foreign
    BY <1>1, PolicyAssumption DEF TypeOK, Foreign
  <1>4. TypeOK'
    BY <1>1, <1>2, <1>3 DEF TypeOK
  <1>5. LockInv' /\ SignerUnchanged'
    BY <1>1 DEF LockInv, SignerUnchanged
  <1>6. \A l \in Keys : /\ l.handle \in Handles
                        /\ objects[l.handle] = l.key => objects'[l.handle] = l.key
                        /\ objects[l.handle] # l.key => objects'[l.handle] # l.key
    <2> TAKE l \in Keys
    <2>1. l.handle \in Handles /\ l.key # Free /\ l.key # Foreign
      BY KeyFacts DEF Free, Foreign
    <2> QED BY <1>1, <1>3, <2>1
  <1>7. file \in Candidates /\ \A q \in Roles : /\ Recorded(file, q) \subseteq Keys
                                                /\ file.retiring[q] \subseteq Keys
                                                /\ file.active[q] \in Keys \cup {NoKey}
                                                /\ file.pending[q] \in Keys \cup {NoKey}
    BY CandidateFacts, SnapshotFacts DEF TypeOK
  <1>8. DiskInv'
    <2>1. \A s \in survivors : NamesAll(s)'
      BY <1>1, <1>3 DEF DiskInv, NamesAll
    <2> QED BY <1>1, <2>1 DEF DiskInv, KeepsIdentity
  <1>9. IdentityInv'
    <2>1. \A q \in Lifetime : \A l \in announced[q] : l \in Keys
      BY DEF TypeOK
    <2> QED BY <1>1, <1>6, <2>1 DEF IdentityInv, verifyPublicMetadata, readPublic
  <1>10. RepairInv'
    <2> SUFFICES ASSUME ~rolledBack, NEW q \in Roles, NEW l \in Recorded(file, q)
                 PROVE  IF l = file.active[q] THEN objects'[l.handle] = l.key
                        ELSE objects'[l.handle] \in {Free, Foreign, l.key}
      BY <1>1 DEF RepairInv, BorneOut, verifyPublicMetadata, readPublic
    <2>1. l \in Keys
      BY <1>7
    <2>2. CASE l = file.active[q]
      BY <2>1, <2>2, <1>6 DEF RepairInv, BorneOut, verifyPublicMetadata, readPublic
    <2>3. CASE l # file.active[q]
      BY <2>1, <2>3, <1>3, <1>6 DEF RepairInv, BorneOut
    <2> QED BY <2>2, <2>3
  <1>11. WorkInv'
    <2> SUFFICES ASSUME NEW c \in Processes, pc[c] \notin {"idle", "load"}
                 PROVE  (Cached(c) /\ Verified(c) /\ Progress(c))'
      BY <1>1 DEF WorkInv
    <2>1. Cached(c) /\ Verified(c) /\ Progress(c)
      BY DEF WorkInv
    <2>2. Cached(c)'
      BY <1>1, <2>1 DEF Cached
    <2>3. Verified(c)'
      BY <1>1, <1>6, <1>7, <2>1 DEF Verified, verifyPublicMetadata, readPublic
    <2>4. Progress(c)'
      <3>1. ASSUME pc[c] \in {"persist", "activate"}
            PROVE  file.pending[op[c].role] \in Keys
        <4>1. op[c].role \in Roles /\ file.pending[op[c].role] # NoKey
          BY <2>1, <3>1, RoleOf DEF Progress
        <4> QED BY <1>7, <4>1
      <3>2. /\ pc[c] = "persist" => ~verifyPublicMetadata(file.pending[op[c].role])'
            /\ pc[c] = "activate" => verifyPublicMetadata(file.pending[op[c].role])'
        BY <1>1, <1>6, <2>1, <3>1 DEF Progress, verifyPublicMetadata, readPublic
      <3> QED BY <1>1, <2>1, <3>2 DEF Progress, NoPending, NoRetiring
    <2> QED BY <2>2, <2>3, <2>4
  <1> QED BY <1>4, <1>5, <1>8, <1>9, <1>10, <1>11

-----------------------------------------------------------------------------
(* The invariant holds of a machine without keys.                          *)
LEMMA InitKeyInv ==
  ASSUME Init
  PROVE  KeyInv
  <1>1. /\ file = emptySnapshot /\ survivors = {emptySnapshot}
        /\ objects = [h \in Handles |-> Free] /\ born = 0 /\ lock = None
        /\ pc = [c \in Processes |-> "idle"] /\ op = [c \in Processes |-> NoOp]
        /\ snapshot = [c \in Processes |-> emptySnapshot]
        /\ captured = [c \in Processes |-> NoCapture]
        /\ announced = [r \in Lifetime |-> {}] /\ signed = <<0, 0>>
        /\ rolledBack = FALSE /\ foreign = 0 /\ faults = 0 /\ boot = 1
    BY DEF Init
  <1>2. \A r \in Roles : /\ emptySnapshot.active[r] = NoKey /\ emptySnapshot.pending[r] = NoKey
                         /\ emptySnapshot.retiring[r] = {}
    BY DEF emptySnapshot
  <1>3. \A r \in Roles : Recorded(emptySnapshot, r) = {}
    BY <1>2 DEF Recorded
  <1>4. validateSnapshot(emptySnapshot)
    <2>1. \A r \in Roles : ValidEntry(r, NoKey, {}, NoKey)
      BY KeyFacts DEF ValidEntry
    <2> QED BY <1>2, <2>1, ValidByRole
  <1>5. LockInv /\ WorkInv /\ IdentityInv
    BY <1>1 DEF LockInv, WorkInv, IdentityInv
  <1>6. DiskInv
    BY <1>1, <1>4 DEF DiskInv, NamesAll, KeepsIdentity
  <1>7. RepairInv
    BY <1>1, <1>3 DEF RepairInv, BorneOut
  <1>8. CallOK /\ captured \in [Processes -> Captures]
    BY <1>1, SnapshotFacts DEF CallOK, PCs, Running, Captures
  <1>9. /\ 0 \in 0 .. MaxKeys /\ 0 \in -1 .. MaxKeys /\ 0 \in 0 .. MaxForeign
        /\ 0 \in 0 .. MaxFaults /\ 1 \in 1 .. MaxBoots
    BY PolicyAssumption
  <1>10. TypeOK
    BY <1>1, <1>8, <1>9, SnapshotFacts DEF TypeOK, CallOK, Free
  <1> QED BY <1>1, <1>5, <1>6, <1>7, <1>10 DEF KeyInv, SignerUnchanged

(* Every step of every process, of other software and of the power keeps   *)
(* the invariant.                                                          *)
LEMMA NextKeyInv ==
  ASSUME KeyInv, [Next]_vars
  PROVE  KeyInv'
  <1>1. CASE UNCHANGED vars
    <2>1. UNCHANGED <<file, survivors, objects, born, lock, pc, op, snapshot, captured,
                      announced, signed, rolledBack, foreign, faults, boot>>
      BY <1>1 DEF vars
    <2>2. TypeOK' /\ LockInv' /\ SignerUnchanged'
      BY <2>1 DEF KeyInv, TypeOK, LockInv, SignerUnchanged
    <2>3. DiskInv' /\ IdentityInv' /\ RepairInv'
      BY <2>1, NothingStored
    <2>4. WorkInv'
      BY <2>1 DEF KeyInv, WorkInv, Cached, Verified, Progress, NoPending, NoRetiring,
                  verifyPublicMetadata, readPublic
    <2> QED BY <2>2, <2>3, <2>4 DEF KeyInv
  <1>2. CASE PowerLoss
    BY <1>2, PowerLossStep
  <1>3. CASE \E h \in Handles : ForeignCreates(h)
    BY <1>3, ForeignStep
  <1>4. ASSUME NEW c \in Processes, (\E o \in Ops : Begin(c, o)) \/ Step(c) \/ Crash(c)
        PROVE  KeyInv'
    <2>1. CASE \E o \in Ops : Begin(c, o)
      BY <2>1, BeginStep
    <2>2. CASE Load(c) \/ SavePending(c) \/ EvictRetiring(c) \/ SaveRetired(c)
      BY <2>2, LoadStep, SavePendingStep, EvictRetiringStep, SaveRetiredStep
    <2>3. CASE EnsureRole(c) \/ Rotate(c) \/ Persist(c) \/ Activate(c)
      BY <2>3, EnsureRoleStep, RotateStep, PersistStep, ActivateStep
    <2>4. CASE FinishOpen(c) \/ Capture(c) \/ IssueCertificate(c) \/ Crash(c)
      BY <2>4, ReaderSteps
    <2> QED BY <1>4, <2>1, <2>2, <2>3, <2>4 DEF Step
  <1> QED BY <1>1, <1>2, <1>3, <1>4 DEF Next

(* The inductive invariant: surviving metadata is valid, names every key   *)
(* of ours in the TPM and keeps the lifetime identities, and an operation  *)
(* at work knows exactly what is in the file (withExclusiveOperation).     *)
THEOREM Invariance == Spec => []KeyInv
  <1>1. Init => KeyInv
    BY InitKeyInv
  <1>2. KeyInv /\ [Next]_vars => KeyInv'
    BY NextKeyInv
  <1> QED BY <1>1, <1>2, PTL DEF Spec

(* Whatever step an operation was interrupted at, the next Open accepts    *)
(* the metadata, unless a failed sync and a power loss have brought back   *)
(* older metadata.                                                         *)
THEOREM AlwaysReopens == Spec => []Recoverable
  <1>1. KeyInv => Recoverable
    BY DEF KeyInv, DiskInv, RepairInv, BorneOut, Recoverable
  <1> QED BY <1>1, Invariance, PTL

(* The TPM never holds a key of ours that some surviving metadata does not *)
(* name: createMetadataLocked records first, reconcileRetiringLocked       *)
(* forgets last.                                                           *)
THEOREM NoKeyOrphaned == Spec => []NoOrphans
  <1>1. KeyInv => NoOrphans
    BY DEF KeyInv, DiskInv, NamesAll, NoOrphans
  <1> QED BY <1>1, Invariance, PTL

(* The key that EnsureRole has returned for a lifetime role stays in the   *)
(* TPM and is what every surviving metadata names for that role.           *)
THEOREM IdentityKept == Spec => []IdentityIsForever
  <1>1. KeyInv => IdentityIsForever
    BY DEF KeyInv, DiskInv, IdentityInv, KeepsIdentity, IdentityIsForever
  <1> QED BY <1>1, Invariance, PTL

(* IssueCertificate signs with the key that the policy approved.           *)
THEOREM ApprovedKeySigns == Spec => []SignerUnchanged
  <1>1. KeyInv => SignerUnchanged
    BY DEF KeyInv
  <1> QED BY <1>1, Invariance, PTL

(* A call that ends although nothing failed finds no way to store its      *)
(* metadata: the revision counter is exhausted.                            *)
LEMMA SaveGivesUp ==
  ASSUME KeyInv, NEW c \in Processes, NEW next, NEW label, NEW kind,
         SaveAs(c, next, label, kind), next.rev = file.rev + 1,
         lock = c, lock' = None, faults' = faults
  PROVE  file.rev = MaxRevision
  <1>1. c # None /\ file.rev \in Nat /\ file.rev <= MaxRevision /\ faults \in Nat
    BY PolicyAssumption, SnapshotFacts DEF KeyInv, TypeOK
  <1>2. ~(next.rev <= MaxRevision)
    BY <1>1 DEF SaveAs, Fault
  <1> QED BY <1>1, <1>2, PolicyAssumption

(* Every step that ends an operation without a fault.                      *)
LEMMA EndsClean ==
  ASSUME KeyInv, Next, lock # None, lock' = None, UNCHANGED <<faults, boot>>
  PROVE  ~Leftover' \/ Blocked
  <1>1. faults \in Nat /\ boot \in Nat /\ ~Fault
    BY PolicyAssumption DEF KeyInv, TypeOK, Fault
  <1>2. ~PowerLoss /\ ~(\E h \in Handles : ForeignCreates(h))
    BY <1>1 DEF PowerLoss, ForeignCreates, call
  <1>3. PICK c \in Processes : Step(c)
    BY <1>1, <1>2 DEF Next, Begin, Crash
  <1>4. pc[c] # "idle" /\ lock = c
    BY <1>3 DEF KeyInv, LockInv, Step, Load, SavePending, EvictRetiring, SaveRetired,
                FinishOpen, EnsureRole, Rotate, Capture, IssueCertificate, Persist, Activate
  <1>5. /\ pc[c] # "load" => Cached(c) /\ Progress(c)
        /\ snapshot[c] \in Snapshots /\ file \in Snapshots
        /\ file.rev \in Nat /\ file.rev <= MaxRevision
    BY <1>4, SnapshotFacts DEF KeyInv, WorkInv, TypeOK
  <1>6. ASSUME pc[c] = "act", UNCHANGED file PROVE ~Leftover'
    BY <1>5, <1>6 DEF Cached, Progress, NoPending, NoRetiring, Leftover, HasPending, HasRetiring
  <1>7. ASSUME NEW next, NEW label, NEW kind, SaveAs(c, next, label, kind),
               next.rev = file.rev + 1
        PROVE  Blocked
    BY <1>4, <1>7, SaveGivesUp DEF Blocked
  <1>8. CASE Load(c)
    BY <1>1, <1>4, <1>8 DEF Load, Blocked
  <1>9. CASE SavePending(c)
    <2>1. CASE ~PendingMatches(snapshot[c])
      BY <1>5, <1>9, <2>1 DEF SavePending, Cached, PendingMatches, Blocked
    <2>2. CASE Save(c, reconcilePending(snapshot[c]), AfterPending(reconcilePending(snapshot[c])))
      <3>1. reconcilePending(snapshot[c]).rev = file.rev + 1
        BY <1>5, <1>9 DEF SavePending, Cached, reconcilePending, Incremented
      <3> QED BY <1>7, <2>2, <3>1 DEF Save
    <2> QED BY <1>9, <2>1, <2>2 DEF SavePending
  <1>10. CASE SaveRetired(c)
    <2>1. WithoutRetiring(snapshot[c]).rev = file.rev + 1
      BY <1>5, <1>10, WithoutFields DEF SaveRetired, Cached
    <2> QED BY <1>7, <1>10, <2>1 DEF SaveRetired, Save
  <1>11. CASE EvictRetiring(c)
    <2>1. PICK r \in Roles : \E k \in snapshot[c].retiring[r] :
             ~(/\ HasCapacity(snapshot[c], 1)
               /\ ~handleOccupied(k.handle) \/ verifyPublicMetadata(k))
      BY <1>1, <1>4, <1>11 DEF EvictRetiring
    <2>2. snapshot[c].retiring[r] \subseteq file.retiring[r] /\ snapshot[c].rev = file.rev
      BY <1>5, <1>11 DEF EvictRetiring, Cached
    <2>3. CASE ~HasCapacity(snapshot[c], 1)
      BY <1>5, <2>2, <2>3, PolicyAssumption DEF HasCapacity, Blocked
    <2>4. CASE HasCapacity(snapshot[c], 1)
      BY <2>1, <2>2, <2>4 DEF Opens, Blocked
    <2> QED BY <2>3, <2>4
  <1>12. CASE FinishOpen(c) \/ Capture(c) \/ IssueCertificate(c)
    BY <1>6, <1>12 DEF FinishOpen, Capture, IssueCertificate, disk
  <1>13. ASSUME NEW h, NEW generation, NEW steps, CreateKey(c, h, generation, steps),
                pc[c] = "act", op[c].role \in Roles
         PROVE  ~Leftover' \/ Blocked
    <2> DEFINE k == createdKey(h, generation)
               m == [snapshot[c] EXCEPT !.pending[op[c].role] = k]
    <2>1. CASE Save(c, Incremented(m), "persist")
      <3>1. Incremented(m).rev = file.rev + 1
        <4> HIDE DEF k
        <4> QED BY <1>5, <1>13 DEF Snapshots, Incremented, Cached
      <3> HIDE DEF m
      <3> QED BY <1>7, <2>1, <3>1 DEF Save
    <2>2. CASE UNCHANGED disk
      BY <1>6, <1>13, <2>2 DEF disk
    <2> QED BY <1>13, <2>1, <2>2 DEF CreateKey
  <1>14. CASE EnsureRole(c) \/ Rotate(c)
    <2>1. pc[c] = "act" /\ op[c].role \in Roles
      BY <1>14, RoleOf DEF EnsureRole, Rotate
    <2> QED BY <1>6, <1>13, <1>14, <2>1 DEF EnsureRole, Rotate, disk
  <1>15. CASE Persist(c)
    <2>1. /\ op[c].role \in Roles /\ file.pending[op[c].role] # NoKey
          /\ snapshot[c].pending = file.pending
          /\ ~verifyPublicMetadata(file.pending[op[c].role])
      BY <1>5, <1>15, RoleOf DEF Persist, Cached, Progress
    <2>2. handleOccupied(file.pending[op[c].role].handle)
      BY <1>1, <1>4, <1>15, <2>1 DEF Persist
    <2> QED BY <2>1, <2>2 DEF PendingMatches, Blocked
  <1>16. CASE Activate(c)
    <2> DEFINE n == Incremented(Activated(snapshot[c], op[c].role, snapshot[c].pending[op[c].role]))
    <2>1. /\ op[c].role \in Roles /\ file.pending[op[c].role] # NoKey
          /\ snapshot[c].pending = file.pending /\ snapshot[c].rev = file.rev
      BY <1>5, <1>16, RoleOf DEF Activate, Cached, Progress
    <2>2. file.pending[op[c].role] \in Keys
      BY <1>5, <2>1, CandidateFacts, SnapshotFacts
    <2>3. n.rev = file.rev + 1
      BY <1>5, <2>1, <2>2, ActivateFields
    <2> HIDE DEF n
    <2>4. Save(c, n, "act") \/ SaveAs(c, n, "evict", "open")
      BY <1>16 DEF Activate, n
    <2> QED BY <1>7, <2>3, <2>4 DEF Save
  <1> QED BY <1>3, <1>8, <1>9, <1>10, <1>11, <1>12, <1>14, <1>15, <1>16 DEF Step

(* Whatever an interrupted operation has left undone, the next operation   *)
(* that ends by itself has finished.                                       *)
THEOREM NothingLeftOver == Spec => LeftoversCleared
  <1>1. KeyInv /\ [Next]_vars =>
           [lock # None /\ lock' = None /\ UNCHANGED <<faults, boot>> =>
              ~Leftover' \/ Blocked]_vars
    BY EndsClean
  <1> QED BY <1>1, Invariance, PTL DEF Spec, LeftoversCleared
=============================================================================
