------------------------------- MODULE Vault -------------------------------
(* The account's encrypted vault: phones that sync it and publish to it,   *)
(* and the relay that stores one row per account under a compare-and-set   *)
(* on its version.  A row's record (kdf) wraps the vault key; a phone opens*)
(* it with the wrapping key its passphrase gave it.  Every step ends at a  *)
(* network call: what a task does between two of them is one step, and the *)
(* phone's other task, a reload or a sign-out may come between.            *)
EXTENDS Naturals, FiniteSets

CONSTANTS Phones, Users, Nobody, Machines,
          CostOf,     \* the key-derivation cost each phone's build uses
          MaxPaired,  \* bound: credentials ever made by pairing
          MaxMints,   \* bound: vault keys ever minted
          MaxTasks    \* bound: syncs and claims ever begun

VARIABLES row,      \* account_vaults: the row of each account
          owned,    \* the devices bound to each account
          cookie,   \* the account each browser's session cookie stands for
          store,    \* the account domain of each phone
          db,       \* each phone's credential database: created_at by machine
          kept,     \* the wrapping key each phone keeps across reloads
          sync,     \* the sync running on each phone
          claim,    \* the claim of a newly paired machine on each phone
          paired, mints, tasks

vaultVars == <<row, owned, cookie, store, db, kept, sync, claim, paired, mints, tasks>>

Empty  == [m \in Machines |-> 0]
NoKey  == 0
NoKdf  == [key |-> NoKey, cost |-> 0]
NoWrap == [of |-> Nobody, cost |-> 0]
NoRow  == [version |-> 0, kdf |-> NoKdf, creds |-> Empty,
           under |-> [key |-> NoKey, user |-> Nobody, version |-> 0]]

SignedOut == [user |-> Nobody, devices |-> {}, version |-> 0, kdf |-> NoKdf,
              sealed |-> FALSE, busy |-> FALSE, wrap |-> NoWrap, key |-> NoKey]
Fresh(u, wrap) == [SignedOut EXCEPT !.user = u, !.wrap = wrap]

Idle == [pc |-> "idle", user |-> Nobody, pass |-> FALSE, machine |-> Nobody,
         local |-> Empty, devices |-> {}, got |-> NoRow,
         put |-> NoRow, at |-> 0, as |-> Nobody, adopt |-> FALSE]

-----------------------------------------------------------------------------
(* lib/account-vault.                                                      *)
mergeCredentials(local, remote) ==
  [m \in Machines |-> IF local[m] > remote[m] THEN local[m] ELSE remote[m]]
scopeToOwnedDevices(creds, devices) ==
  [m \in Machines |-> IF m \in devices THEN creds[m] ELSE 0]

\* The record wraps the vault key under one passphrase and one cost.
tryUnwrap(wrap, r, u) == IF wrap = [of |-> u, cost |-> r.kdf.cost] THEN r.kdf.key ELSE NoKey
decrypts(key, r, u) == r.under = [key |-> key, user |-> u, version |-> r.version]
\* The blob is bound to the version it replaces.
MutEncryptVault(key, kdf, creds, u, version) ==
  [version |-> version + 1, kdf |-> kdf, creds |-> creds,
   under |-> [key |-> key, user |-> u, version |-> version]]

encryptVault(key, kdf, creds, u, version) ==
  [version |-> version + 1, kdf |-> kdf, creds |-> creds,
   under |-> [key |-> key, user |-> u, version |-> version + 1]]

(* vaultKeyFor: the key in the domain, the wrapping key at its own cost,   *)
(* the passphrase at the record's.                                         *)
vaultKeyFor(s, t, p) ==
  IF s.key # NoKey THEN s.key
  ELSE IF t.got.kdf.cost = CostOf[p] /\ s.wrap # NoWrap
  THEN tryUnwrap(s.wrap, t.got, t.user)
  ELSE IF t.pass THEN t.got.kdf.key ELSE NoKey

-----------------------------------------------------------------------------
VaultInit ==
  /\ row = [u \in Users |-> NoRow] /\ owned = [u \in Users |-> {}]
  /\ cookie = [p \in Phones |-> Nobody] /\ store = [p \in Phones |-> SignedOut]
  /\ db = [p \in Phones |-> Empty] /\ kept = [p \in Phones |-> NoWrap]
  /\ sync = [p \in Phones |-> Idle] /\ claim = [p \in Phones |-> Idle]
  /\ paired = 0 /\ mints = 0 /\ tasks = 0

StartSync(p, u, pass) ==
  /\ tasks < MaxTasks /\ tasks' = tasks + 1
  /\ sync' = [sync EXCEPT ![p] = [Idle EXCEPT !.pc = "list", !.user = u, !.pass = pass,
                                              !.local = db[p]]]

(* submitAccountEntry: setAccountSession, rememberWrapKey, syncAccountVault.*)
SignIn(p, u) ==
  LET wrap == [of |-> u, cost |-> CostOf[p]] IN
  /\ ~ store[p].busy
  /\ store[p].user = Nobody \/ store[p].sealed
  /\ cookie' = [cookie EXCEPT ![p] = u]
  /\ kept' = [kept EXCEPT ![p] = wrap]
  /\ store' = [store EXCEPT ![p] = [Fresh(u, wrap) EXCEPT !.busy = TRUE]]
  /\ StartSync(p, u, TRUE)
  /\ UNCHANGED <<row, owned, db, claim, paired, mints>>

(* The sync button.                                                        *)
SyncPress(p) ==
  /\ ~ store[p].busy /\ store[p].user # Nobody
  /\ store' = [store EXCEPT ![p].busy = TRUE]
  /\ StartSync(p, store[p].user, FALSE)
  /\ UNCHANGED <<row, owned, cookie, db, kept, claim, paired, mints>>

(* A reload: resumeAccountAtBoot adopts what the cookie names, with the    *)
(* wrapping key that was kept, and syncs without a passphrase.             *)
Reload(p) ==
  /\ store[p] # SignedOut \/ sync[p] # Idle \/ claim[p] # Idle
  /\ claim' = [claim EXCEPT ![p] = Idle]
  /\ IF cookie[p] = Nobody
     THEN /\ store' = [store EXCEPT ![p] = SignedOut]
          /\ sync' = [sync EXCEPT ![p] = Idle]
          /\ UNCHANGED tasks
     ELSE /\ store' = [store EXCEPT ![p] = [Fresh(cookie[p], kept[p]) EXCEPT !.busy = TRUE]]
          /\ StartSync(p, cookie[p], FALSE)
  /\ UNCHANGED <<row, owned, cookie, db, kept, paired, mints>>

(* signOutOfAccount.                                                       *)
SignOut(p) ==
  /\ ~ store[p].busy /\ store[p].user # Nobody
  /\ cookie' = [cookie EXCEPT ![p] = Nobody]
  /\ store' = [store EXCEPT ![p] = SignedOut]
  /\ kept' = [kept EXCEPT ![p] = NoWrap]
  /\ db' = [db EXCEPT ![p] = [m \in Machines |->
                               IF m \in store[p].devices THEN 0 ELSE @[m]]]
  /\ UNCHANGED <<row, owned, sync, claim, paired, mints, tasks>>

(* A pairing completes: the credential is saved, and a phone that is       *)
(* signed in claims the machine for its account (claimPairedDevice).       *)
Pair(p, m) ==
  /\ paired < MaxPaired /\ paired' = paired + 1
  /\ claim[p] = Idle
  /\ db' = [db EXCEPT ![p][m] = paired + 1]
  /\ IF store[p].user = Nobody THEN UNCHANGED <<claim, tasks>>
     ELSE /\ tasks < MaxTasks /\ tasks' = tasks + 1
          /\ claim' = [claim EXCEPT ![p] = [Idle EXCEPT !.pc = "bind", !.machine = m]]
  /\ UNCHANGED <<row, owned, cookie, store, kept, sync, mints>>

-----------------------------------------------------------------------------
(* publishCredentials up to its first write.  Outcome is the task after it:*)
(* writing, or over because it may not or need not write.                  *)
MayMint(s) == s.key = NoKey /\ s.kdf = NoKdf /\ s.version = 0 /\ s.wrap # NoWrap

Publish(s, t, creds, p) ==
  LET fresh == s.key = NoKey \/ s.kdf = NoKdf
      key   == IF fresh THEN mints + 1 ELSE s.key
      kdf   == IF fresh THEN [key |-> mints + 1, cost |-> CostOf[p]] ELSE s.kdf
  IN  IF s.user = Nobody \/ s.sealed \/ creds = Empty \/ (fresh /\ ~ MayMint(s))
      THEN [task |-> Idle, minted |-> 0]
      ELSE [task |-> [t EXCEPT !.pc = "write", !.user = s.user, !.local = creds,
                               !.put = encryptVault(key, kdf, creds, s.user, s.version),
                               !.at = s.version, !.as = cookie[p], !.adopt = TRUE],
            minted |-> IF fresh THEN 1 ELSE 0]

Begun(o) == mints + o.minted <= MaxMints /\ mints' = mints + o.minted

(* A sync that has nothing more to wait for gives the button back.         *)
Settled(s, t) == IF t = Idle THEN [s EXCEPT !.busy = FALSE] ELSE s

SyncListed(p) ==
  /\ sync[p].pc = "list"
  /\ sync' = [sync EXCEPT ![p].pc = "read", ![p].devices = owned[cookie[p]]]
  /\ store' = [store EXCEPT ![p].devices = owned[cookie[p]]]
  /\ UNCHANGED <<row, owned, cookie, db, kept, claim, paired, mints, tasks>>

SyncRead(p) ==
  /\ sync[p].pc = "read"
  /\ sync' = [sync EXCEPT ![p].pc = "open", ![p].got = row[cookie[p]]]
  /\ UNCHANGED <<row, owned, cookie, store, db, kept, claim, paired, mints, tasks>>

(* syncAccountDevices after its reads, adoptCredentials, and the publish.  *)
OpenedStore(s, t, key) ==
  IF t.got = NoRow THEN [s EXCEPT !.version = 0, !.kdf = NoKdf, !.sealed = FALSE]
  ELSE IF key = NoKey \/ ~ decrypts(key, t.got, t.user)
  THEN [s EXCEPT !.version = t.got.version, !.kdf = t.got.kdf, !.sealed = TRUE]
  ELSE [s EXCEPT !.version = t.got.version, !.kdf = t.got.kdf, !.sealed = FALSE, !.key = key]

SyncOpened(p) ==
  LET t == sync[p]
      key == vaultKeyFor(store[p], t, p)
      s == OpenedStore(store[p], t, key)
      opened == t.got # NoRow /\ ~ s.sealed
      merged == scopeToOwnedDevices(IF opened THEN mergeCredentials(t.local, t.got.creds)
                                              ELSE t.local, t.devices)
      o == Publish(s, t, merged, p)
  IN  /\ t.pc = "open"
      /\ db' = [db EXCEPT ![p] = [m \in Machines |-> IF @[m] = 0 THEN merged[m] ELSE @[m]]]
      /\ sync' = [sync EXCEPT ![p] = o.task]
      /\ store' = [store EXCEPT ![p] = Settled(s, o.task)]
      /\ Begun(o)
      /\ UNCHANGED <<row, owned, cookie, kept, claim, paired, tasks>>

(* claimPairedDevice: the relay binds an armed claim, the list is read     *)
(* again, and the phone's own credentials are published.                   *)
ClaimBound(p) ==
  /\ claim[p].pc = "bind" /\ cookie[p] # Nobody
  /\ \A u \in Users \ {cookie[p]} : claim[p].machine \notin owned[u]
  /\ owned' = [owned EXCEPT ![cookie[p]] = @ \cup {claim[p].machine}]
  /\ claim' = [claim EXCEPT ![p].pc = "list"]
  /\ UNCHANGED <<row, cookie, store, db, kept, sync, paired, mints, tasks>>

ClaimListed(p) ==
  LET s == [store[p] EXCEPT !.devices = owned[cookie[p]]]
      o == Publish(s, claim[p], db[p], p)
  IN  /\ claim[p].pc = "list" /\ cookie[p] # Nobody
      /\ store' = [store EXCEPT ![p] = s]
      /\ claim' = [claim EXCEPT ![p] = o.task]
      /\ Begun(o)
      /\ UNCHANGED <<row, owned, cookie, db, kept, sync, paired, tasks>>

-----------------------------------------------------------------------------
(* What the two kinds of task share.  Step(p, k) says which of the two it  *)
(* is and what it becomes.                                                 *)
Kinds == {"sync", "claim"}
Task(p, k) == IF k = "sync" THEN sync[p] ELSE claim[p]
Becomes(p, k, t) ==
  IF k = "sync" THEN sync' = [sync EXCEPT ![p] = t] /\ UNCHANGED claim
                ELSE claim' = [claim EXCEPT ![p] = t] /\ UNCHANGED sync
Stored(p, k, s, t) ==
  store' = [store EXCEPT ![p] = IF k = "sync" THEN Settled(s, t) ELSE s]

\* The version is not compared.
MutWins(t) == row[t.as].version >= t.at

(* The relay's writeVault: an insert at version 0, else an update of the   *)
(* row whose version still matches; a session that is gone is refused.     *)
Wins(t) == row[t.as].version = t.at

RelayWrites(p, k) ==
  LET t == Task(p, k) IN
  /\ t.pc \in {"write", "rewrite"} /\ cookie[p] = t.as /\ t.as # Nobody
  /\ \/ /\ Wins(t)
        /\ row' = [row EXCEPT ![t.as] = t.put]
        /\ Becomes(p, k, [t EXCEPT !.pc = "saved"])
     \/ /\ ~ Wins(t) \/ t.at = 0     \* an insert that throws is a lost one
        /\ Becomes(p, k, [t EXCEPT !.pc = IF @ = "write" THEN "lost" ELSE "over"])
        /\ UNCHANGED row
  /\ UNCHANGED <<owned, cookie, store, db, kept, paired, mints, tasks>>

(* The answer to a write that won: the key and the record are adopted.     *)
WriteSaved(p, k) ==
  LET t == Task(p, k) IN
  /\ t.pc = "saved"
  /\ Stored(p, k, [store[p] EXCEPT !.key = IF t.adopt THEN t.put.under.key ELSE @,
                                   !.version = t.put.version, !.kdf = t.put.kdf,
                                   !.sealed = FALSE], Idle)
  /\ Becomes(p, k, Idle)
  /\ UNCHANGED <<row, owned, cookie, db, kept, paired, mints, tasks>>

(* A conflict: the stored row is read again,                               *)
ConflictRead(p, k) ==
  LET t == Task(p, k) IN
  /\ t.pc = "lost" /\ cookie[p] # Nobody
  /\ Becomes(p, k, [t EXCEPT !.pc = "merge", !.got = row[cookie[p]]])
  /\ UNCHANGED <<row, owned, cookie, store, db, kept, paired, mints, tasks>>

(* and its record decides the key of the one rewrite there is.             *)
ConflictMerged(p, k) ==
  LET t == Task(p, k)
      s == store[p]
      theirs == tryUnwrap(s.wrap, t.got, t.user)
      opens == theirs # NoKey /\ decrypts(theirs, t.got, t.user)
  IN  /\ t.pc = "merge"
      /\ IF t.got = NoRow
         THEN /\ Becomes(p, k, [t EXCEPT !.pc = "rewrite", !.at = 0, !.as = cookie[p],
                          !.put = encryptVault(t.put.under.key, t.put.kdf, t.local, t.user, 0)])
              /\ UNCHANGED store
         ELSE IF ~ opens
         THEN /\ Stored(p, k, [s EXCEPT !.version = t.got.version, !.kdf = t.got.kdf,
                                        !.sealed = TRUE], Idle)
              /\ Becomes(p, k, Idle)
         ELSE /\ Stored(p, k, [s EXCEPT !.key = theirs, !.sealed = FALSE], t)
              /\ Becomes(p, k, [t EXCEPT !.pc = "rewrite", !.at = t.got.version,
                         !.as = cookie[p], !.adopt = FALSE,
                         !.put = encryptVault(theirs, t.got.kdf,
                                   mergeCredentials(t.local, t.got.creds), t.user, t.got.version)])
      /\ UNCHANGED <<row, owned, cookie, db, kept, paired, mints, tasks>>

(* A call fails, its answer is lost or the second write loses as well; a   *)
(* session the relay no longer knows ends a sync with clearAccountSession. *)
TaskFails(p, k) ==
  /\ Task(p, k).pc \notin {"idle", "open", "merge"}
  /\ Becomes(p, k, Idle)
  /\ \/ Stored(p, k, store[p], Idle) /\ UNCHANGED cookie
     \/ /\ k = "sync"
        /\ store' = [store EXCEPT ![p] = SignedOut]
        /\ cookie' = [cookie EXCEPT ![p] = Nobody]
  /\ UNCHANGED <<row, owned, db, kept, paired, mints, tasks>>

VaultNext ==
  \E p \in Phones :
    \/ \E u \in Users : SignIn(p, u)
    \/ \E m \in Machines : Pair(p, m)
    \/ SyncPress(p) \/ Reload(p) \/ SignOut(p)
    \/ SyncListed(p) \/ SyncRead(p) \/ SyncOpened(p)
    \/ ClaimBound(p) \/ ClaimListed(p)
    \/ \E k \in Kinds : \/ RelayWrites(p, k) \/ WriteSaved(p, k) \/ ConflictRead(p, k)
                        \/ ConflictMerged(p, k) \/ TaskFails(p, k)

VaultSpec == VaultInit /\ [][VaultNext]_vaultVars

-----------------------------------------------------------------------------
(* publishCredentials: whatever phones, tasks and lost answers interleave, *)
(* a stored vault opens with the key its own record wraps, for the account *)
(* and at the version it is stored under.                                  *)
VaultOpens ==
  \A u \in Users : row[u] # NoRow => decrypts(row[u].kdf.key, row[u], u)

(* publishCredentials: a vault is keyed once.  No later write, from a phone*)
(* that minted a key of its own, lost a race or was refused the record,    *)
(* puts another key under the credentials already stored.                  *)
VaultStaysKeyed == \A u \in Users : row[u] # NoRow => row'[u].kdf = row[u].kdf

VaultIsNotRekeyed == [][VaultStaysKeyed]_vaultVars
=============================================================================
