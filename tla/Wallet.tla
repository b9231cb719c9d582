------------------------------- MODULE Wallet -------------------------------
(***************************************************************************)
(* The HD wallet (internal/wallet): keys derived from one seed by index,   *)
(* an encryption and lock state, and the file wallet.json.                 *)
(*                                                                         *)
(* Every operation holds the wallet's lock, so an operation is an action.  *)
(* It changes memory first and writes the file last; the write may fail,   *)
(* and the process may end between any two operations.  Key derivation and *)
(* encryption are perfect: a key is its seed, its chain and its index, and *)
(* only the right passphrase opens the file.                               *)
(***************************************************************************)
EXTENDS Integers, Sequences

CONSTANTS
  Imports,   \* private keys a user may import
  Faults,    \* what may fail: "save", "encrypt"; "tear": a failed write may
             \* truncate; "read": wallet.json may be unreadable at a start
  MaxIndex,  \* bound on the number of keys of a chain
  MaxSeeds   \* bound on the number of seeds ever generated

Chains == {"external", "change"}

(* The key at index i of a chain of seed s. *)
HDKey(s, c, i) == <<s, c, i>>

(* An imported key is none that the wallet itself derives. *)
ASSUME WalletAssumption ==
  /\ Faults \subseteq {"save", "encrypt", "tear", "read"}
  /\ MaxIndex \in Nat /\ MaxSeeds \in Nat
  /\ \A s \in 1..MaxSeeds, c \in Chains, i \in 0..MaxIndex : HDKey(s, c, i) \notin Imports

VARIABLES
  status,    \* "up" while a process has the wallet open, else "down"
  lockState, \* "plain" (not encrypted), "locked" or "unlocked"
  timer,     \* unlockUntil: "none" (zero), "running" or "expired"
  seed,      \* the seed in memory: "nil", "real" or "zeroed"
  mnemonic,  \* the mnemonic in memory: "none" or "real"
  seedId,    \* which seed the wallet's keys derive from
  keys,      \* externalKeys and changeKeys, in the order they were added
  next,      \* nextExternalIdx and nextChangeIdx
  file,      \* wallet.json
  seeds,     \* number of seeds that were ever written to the file
  issued     \* history: the keys whose addresses were given out

state == <<lockState, timer, seed, mnemonic, seedId>>
walletVars == <<status, state, keys, next, file, seeds, issued>>

NoKeys == [c \in Chains |-> << >>]
NoIndex == [c \in Chains |-> 0]

(* kind: "absent", "plain", "encrypted", or what a torn write leaves:       *)
(* "empty" or "broken".                                                     *)
File(kind, s, n) == [kind |-> kind, seed |-> s, next |-> n]

-----------------------------------------------------------------------------
(* Derivation and persistence. *)

(* loadSeedAndDerive: the keys below the indices are appended. *)
Rederive(ks, s, n) ==
  [c \in Chains |-> ks[c] \o [i \in 1..n[c] |-> HDKey(s, c, i - 1)]]

(* Mutant: the file of an encrypted wallet is rewritten like any other. *)
MutSaved(n) == File("plain", seedId, n)

(* What save writes: an encrypted wallet's file keeps everything but its    *)
(* counters.                                                                *)
Saved(n) == IF lockState = "plain" THEN File("plain", seedId, n) ELSE File(file.kind, file.seed, n)

(* savePreservingEncryption has to read the file first. *)
Saveable == lockState # "plain" => file.kind \in {"plain", "encrypted"}

(* os.WriteFile returns an error.  It truncates the file before it writes,  *)
(* so an error (or a crash inside the write: a torn write followed by Stop) *)
(* may leave less than the old or the new contents.                         *)
Torn == "tear" \in Faults /\ \E k \in {"empty", "broken"} : file' = File(k, 0, NoIndex)

SaveFails(op) == op \in Faults /\ (UNCHANGED file \/ Torn)

-----------------------------------------------------------------------------
(* Start and end of the process. *)

WalletInit ==
  /\ status = "down" /\ lockState = "plain" /\ timer = "none"
  /\ seed = "nil" /\ mnemonic = "none" /\ seedId = 0
  /\ keys = NoKeys /\ next = NoIndex
  /\ file = File("absent", 0, NoIndex) /\ seeds = 0 /\ issued = {}

FirstIndex == [NoIndex EXCEPT !["external"] = 1]

(* NewHDWallet finds no wallet: there is no file, it is empty, or reading   *)
(* it fails, whatever it holds.                                             *)
NoWallet == file.kind \in {"absent", "empty"} \/ "read" \in Faults

(* createNew: a new seed, its first external key (the default address) and  *)
(* the file, written twice, over whatever is there.                         *)
CreateNew ==
  /\ status = "down" /\ NoWallet /\ seeds < MaxSeeds
  /\ status' = "up" /\ lockState' = "plain" /\ timer' = "none"
  /\ seed' = "real" /\ mnemonic' = "real"
  /\ seedId' = seeds + 1 /\ seeds' = seeds + 1
  /\ keys' = Rederive(NoKeys, seedId', FirstIndex)
  /\ next' = FirstIndex
  /\ file' = File("plain", seedId', FirstIndex)
  /\ issued' = issued \cup {HDKey(seedId', "external", 0)}

(* One of the two writes fails and the node does not start.  The file may   *)
(* be there, with a seed no process has used yet.  (When the first fails    *)
(* without touching the file nothing has happened.)                         *)
CreateFails ==
  /\ status = "down" /\ NoWallet /\ seeds < MaxSeeds
  /\ "save" \in Faults
  /\ \/ seeds' = seeds + 1 /\ file' = File("plain", seeds + 1, FirstIndex)
     \/ Torn /\ UNCHANGED seeds
  /\ UNCHANGED <<status, state, keys, next, issued>>

(* loadFromJSON. *)
Load ==
  /\ status = "down" /\ file.kind \in {"plain", "encrypted"}
  /\ status' = "up"
  /\ seedId' = file.seed /\ next' = file.next
  /\ IF file.kind = "plain"
     THEN /\ seed' = "real" /\ mnemonic' = "real" /\ lockState' = "plain"
          /\ keys' = Rederive(NoKeys, file.seed, file.next)
     ELSE /\ seed' = "nil" /\ mnemonic' = "none" /\ lockState' = "locked"
          /\ keys' = NoKeys
  /\ UNCHANGED <<timer, file, seeds, issued>>

Stop ==
  /\ status = "up"
  /\ status' = "down" /\ lockState' = "plain" /\ timer' = "none"
  /\ seed' = "nil" /\ mnemonic' = "none" /\ seedId' = 0
  /\ keys' = NoKeys /\ next' = NoIndex
  /\ UNCHANGED <<file, seeds, issued>>

-----------------------------------------------------------------------------
(* Keys. *)

(* Mutant: the address is given out although the save failed. *)
MutDeriveNext(c) ==
  /\ status = "up" /\ seed # "nil" /\ next[c] < MaxIndex
  /\ keys' = [keys EXCEPT ![c] = Append(@, HDKey(seedId, c, next[c]))]
  /\ next' = [next EXCEPT ![c] = @ + 1]
  /\ issued' = issued \cup {HDKey(seedId, c, next[c])}
  /\ (Saveable /\ file' = Saved(next')) \/ SaveFails("save")
  /\ UNCHANGED <<status, state, seeds>>

(* DeriveNextExternal and DeriveNextChange: the key and its index stay in   *)
(* memory when the save fails; the address is not returned then.  (Without  *)
(* a seed the derivation fails and nothing changes.)                        *)
DeriveNext(c) ==
  /\ status = "up" /\ seed # "nil" /\ next[c] < MaxIndex
  /\ keys' = [keys EXCEPT ![c] = Append(@, HDKey(seedId, c, next[c]))]
  /\ next' = [next EXCEPT ![c] = @ + 1]
  /\ \/ /\ Saveable /\ file' = Saved(next')
        /\ issued' = issued \cup {HDKey(seedId, c, next[c])}
     \/ SaveFails("save") /\ UNCHANGED issued
  /\ UNCHANGED <<status, state, seeds>>

HasKey(k) == \E c \in Chains : \E i \in 1..Len(keys[c]) : keys[c][i] = k

(* ImportPrivKey: memory only. *)
ImportPrivKey(k) ==
  /\ status = "up" /\ ~HasKey(k)
  /\ keys' = [keys EXCEPT !["external"] = Append(@, k)]
  /\ UNCHANGED <<status, state, next, file, seeds, issued>>

-----------------------------------------------------------------------------
(* Encryption. *)

(* EncryptWallet marks the wallet encrypted and locked, then writes. *)
EncryptWallet ==
  /\ status = "up" /\ lockState = "plain"
  /\ lockState' = "locked"
  /\ file' = File("encrypted", seedId, next) \/ SaveFails("encrypt")
  /\ UNCHANGED <<status, timer, seed, mnemonic, seedId, keys, next, seeds, issued>>

(* Mutant: the keys are derived again by every unlock. *)
MutWalletPassphrase ==
  /\ status = "up" /\ lockState # "plain" /\ file.kind = "encrypted"
  /\ Len(keys["external"]) <= 2 * MaxIndex
  /\ lockState' = "unlocked" /\ timer' \in {"running", "none"}
  /\ seed' = "real" /\ mnemonic' = "real"
  /\ keys' = Rederive(keys, file.seed, next)
  /\ UNCHANGED <<status, seedId, next, file, seeds, issued>>

(* WalletPassphrase with the right passphrase, with or without a timeout:   *)
(* seed and mnemonic are loaded only when there is no seed in memory,       *)
(* zeroed or not.                                                           *)
WalletPassphrase ==
  /\ status = "up" /\ lockState # "plain" /\ file.kind = "encrypted"
  /\ lockState' = "unlocked" /\ timer' \in {"running", "none"}
  /\ IF seed = "nil"
     THEN seed' = "real" /\ mnemonic' = "real" /\ keys' = Rederive(keys, file.seed, next)
     ELSE UNCHANGED <<seed, mnemonic, keys>>
  /\ UNCHANGED <<status, seedId, next, file, seeds, issued>>

Wipe ==
  /\ lockState' = "locked" /\ timer' = "none"
  /\ seed' = IF seed = "nil" THEN "nil" ELSE "zeroed"
  /\ mnemonic' = "none"
  /\ UNCHANGED <<status, seedId, keys, next, file, seeds, issued>>

WalletLock == status = "up" /\ lockState # "plain" /\ Wipe

(* The deadline of a timed unlock passes. *)
Expire ==
  /\ timer = "running" /\ timer' = "expired"
  /\ UNCHANGED <<status, lockState, seed, mnemonic, seedId, keys, next, file, seeds, issued>>

(* IsLocked notices that the deadline has passed. *)
IsLocked == lockState = "unlocked" /\ timer = "expired" /\ Wipe

-----------------------------------------------------------------------------
WalletNext ==
  \/ CreateNew \/ CreateFails \/ Load \/ Stop
  \/ \E c \in Chains : DeriveNext(c)
  \/ \E k \in Imports : ImportPrivKey(k)
  \/ EncryptWallet \/ WalletPassphrase \/ WalletLock \/ Expire \/ IsLocked

WalletSpec == WalletInit /\ [][WalletNext]_walletVars

-----------------------------------------------------------------------------
(* The keys a process that starts on the file as it is derives, at once or  *)
(* after an unlock.                                                         *)
Derivable ==
  UNION {{HDKey(file.seed, c, i) : i \in 0..file.next[c] - 1} : c \in Chains}

(* An address that GetNewAddress or GetChangeAddress returned can be spent  *)
(* from after a restart at any later moment: as long as the file still      *)
(* holds the address's seed its counter is above the key's index, whatever  *)
(* saves failed or were cut short since, and however often the wallet was   *)
(* encrypted, locked, unlocked and reopened.                                *)
IssuedRecoverable ==
  file.kind \in {"plain", "encrypted"} =>
    \A k \in issued : k[1] = file.seed => k \in Derivable

(* The derived keys in ks are the first n of a chain of seed s, in order. *)
InOrder(ks, s, c, n) ==
  LET derived == {p \in DOMAIN ks : ks[p] \notin Imports} IN
  /\ {ks[p] : p \in derived} = {HDKey(s, c, i) : i \in 0..n - 1}
  /\ \A p, q \in derived : p < q => ks[p][3] < ks[q][3]

(* The keys in memory are those below the indices, each once and in order,  *)
(* with imported keys in between: no unlock derives a key a second time,    *)
(* and a failed save (whose key stays in memory) never makes a later        *)
(* derivation repeat or skip an index.                                      *)
KeysInOrder ==
  seed # "nil" => \A c \in Chains : InOrder(keys[c], seedId, c, next[c])

(* Once a seed was in an encrypted file it is never in a plain one again,   *)
(* whatever fails, restarts or is unlocked afterwards.  The file itself may *)
(* become plain: a start that cannot read it writes that of a new seed over *)
(* it.                                                                      *)
StaysEncrypted ==
  \A s \in 1..MaxSeeds :
    [](file.kind = "encrypted" /\ file.seed = s
         => [](file.kind = "plain" => file.seed # s))
=============================================================================
