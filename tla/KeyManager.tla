----------------------------- MODULE KeyManager -----------------------------
(***************************************************************************)
(* The signing keys of the Approval Service: KeyManager with the in-memory *)
(* signer (service/internal/crypto/keymanager.go), initCrypto and the      *)
(* adapters that sign with it (service/cmd/approval-service/main.go).      *)
(*                                                                         *)
(* KeyManager's methods run under its lock and are one step each.  A key   *)
(* is the number of its generation.  A kid is made of the purpose and the  *)
(* first 8 hex digits of a UUIDv7, the upper 32 of its 48 bits of          *)
(* milliseconds: all keys generated for a purpose within the same 2^16 ms  *)
(* have the same kid.  The clock counts these intervals.                   *)
(***************************************************************************)
EXTENDS Naturals, Sequences, FiniteSets

CONSTANTS
  AllPurposes,   \* the purposes of keys, in the order Initialize takes them
  Signers,       \* calls of SignRequest and SignGrant
  NoSig,         \* no signature, no key set
  MaxKeys,       \* bound on the keys generated
  GrantTTL,      \* max grant TTL, in intervals of 2^16 ms
  MaxInterval    \* bound on the clock

Purposes == {AllPurposes[i] : i \in DOMAIN AllPurposes}

\* The purposes differ, and the bound leaves room for a key of each.
ASSUME KeyAssumption ==
  /\ AllPurposes \in Seq(Purposes)
  /\ \A i, j \in DOMAIN AllPurposes : AllPurposes[i] = AllPurposes[j] => i = j
  /\ MaxKeys \in Nat /\ Len(AllPurposes) <= MaxKeys
  /\ GrantTTL \in Nat \ {0} /\ MaxInterval \in Nat
  /\ NoSig \notin [Purposes -> Nat]

VARIABLES
  interval,      \* the clock, in intervals of 2^16 ms
  kids,          \* the kid of each key, in the order of generation
  keys,          \* InMemorySigner.keys and pubKeys: kid -> key
  activeKeys,    \* activeKeys.Keys: purpose -> key; NoSig when nil
  allowedKids,   \* KeyManager.allowedKids
  overlapKids,   \* KeyManager.overlapKids
  retiredAt,     \* KeyVersion.RetiredAt of the keys that were rotated out
  ceremony,      \* the key set the offline root signed last
  rootSig,       \* activeKeys.RootSig: the key set it signs
  signing,       \* signer -> the call of an adapter in progress
  tokens         \* everything signed so far: [purpose, kid, key]

keyVars == <<interval, kids, keys, activeKeys, allowedKids, overlapKids, retiredAt,
             ceremony, rootSig, signing, tokens>>

Idle == [pc |-> "idle"]

KeyInit ==
  /\ interval = 0
  /\ kids = <<>>
  /\ keys = <<>>
  /\ activeKeys = NoSig
  /\ allowedKids = {}
  /\ overlapKids = {}
  /\ retiredAt = <<>>
  /\ ceremony = NoSig
  /\ rootSig = NoSig
  /\ signing = [s \in Signers |-> Idle]
  /\ tokens = {}

Kid(p) == <<p, interval>>

IntervalEnds ==
  /\ interval < MaxInterval
  /\ interval' = interval + 1
  /\ UNCHANGED <<kids, keys, activeKeys, allowedKids, overlapKids, retiredAt, ceremony, rootSig, signing, tokens>>

-------------------------------------------------------------------------------
(***************************************************************************)
(* initCrypto.  Without development mode there is no signer: Vault is not  *)
(* implemented.  A root signature on disk cannot be over the keys that     *)
(* were generated a moment ago, so it is refused.                          *)
(***************************************************************************)

Configs == [dev : BOOLEAN, rootPubKeyFile : {"none", "good", "bad"}, rootSigFile : BOOLEAN]

NewSignerForMode(cfg) == cfg.dev

RootPubKey(cfg) == cfg.rootPubKeyFile = "good" \/ (cfg.rootPubKeyFile = "none" /\ cfg.dev)

RootSigned(cfg) == ~ cfg.rootSigFile /\ cfg.dev

Position(p) == CHOOSE i \in DOMAIN AllPurposes : AllPurposes[i] = p

\* One key for each purpose: keys 1, 2, ... in the order of AllPurposes.
Initialize ==
  /\ kids' = [i \in DOMAIN AllPurposes |-> Kid(AllPurposes[i])]
  /\ keys' = [k \in {Kid(p) : p \in Purposes} |-> Position(k[1])]
  /\ activeKeys' = [p \in Purposes |-> Position(p)]
  /\ allowedKids' = {Kid(p) : p \in Purposes}

\* The service starts; with a configuration initCrypto refuses it exits.
InitCrypto(cfg) ==
  /\ activeKeys = NoSig
  /\ NewSignerForMode(cfg) /\ RootPubKey(cfg) /\ RootSigned(cfg)
  /\ Initialize
  /\ UNCHANGED <<interval, overlapKids, retiredAt, ceremony, rootSig, signing, tokens>>

-------------------------------------------------------------------------------
(***************************************************************************)
(* KeyManager.                                                             *)
(***************************************************************************)

\* The pair a key set holds for a purpose is named by its key.  The signature
\* the root made is over one key set and verifies over no other.
SignKeySet ==
  /\ activeKeys # NoSig
  /\ ceremony' = activeKeys
  /\ UNCHANGED <<interval, kids, keys, activeKeys, allowedKids, overlapKids, retiredAt, rootSig, signing, tokens>>

\* A signature over an earlier key set is refused.
SetRootSignature ==
  /\ activeKeys # NoSig
  /\ ceremony = activeKeys
  /\ rootSig' = ceremony
  /\ UNCHANGED <<interval, kids, keys, activeKeys, allowedKids, overlapKids, retiredAt, ceremony, signing, tokens>>

\* GetPubKey: the kid of the active key of a purpose.
ActiveKid(p) == kids[activeKeys[p]]

\* SignWithPurpose signs with the key the signer holds under the active kid.
SignWithPurpose(p, kid) ==
  /\ activeKeys # NoSig
  /\ tokens' = tokens \cup {[purpose |-> p, kid |-> kid, key |-> keys[ActiveKid(p)]]}

\* GenerateKey replaces a key that has the same kid.
GenerateKey(p) ==
  /\ Len(kids) < MaxKeys
  /\ kids' = Append(kids, Kid(p))
  /\ keys' = [k \in DOMAIN keys \cup {Kid(p)} |-> IF k = Kid(p) THEN Len(kids) + 1 ELSE keys[k]]

Retire(n) ==
  retiredAt' = [m \in DOMAIN retiredAt \cup {n} |-> IF m = n THEN interval ELSE retiredAt[m]]

\* Mutant: the allowlist holds the active keys only.
RotateKeyDropsOld(p) ==
  /\ activeKeys # NoSig
  /\ GenerateKey(p)
  /\ overlapKids' = overlapKids \cup {ActiveKid(p)}
  /\ Retire(activeKeys[p])
  /\ activeKeys' = [activeKeys EXCEPT ![p] = Len(kids')]
  /\ allowedKids' = (allowedKids \ {ActiveKid(p)}) \cup {Kid(p)}
  /\ UNCHANGED <<interval, ceremony, rootSig, signing, tokens>>

\* The key set is changed in place and keeps its root signature.
RotateKey(p) ==
  /\ activeKeys # NoSig
  /\ GenerateKey(p)
  /\ overlapKids' = overlapKids \cup {ActiveKid(p)}
  /\ Retire(activeKeys[p])
  /\ activeKeys' = [activeKeys EXCEPT ![p] = Len(kids')]
  /\ allowedKids' = allowedKids \cup {Kid(p)}
  /\ UNCHANGED <<interval, ceremony, rootSig, signing, tokens>>

\* Mutant: max grant TTL is counted from when the key was made, not from when it
\* was rotated out.
WindowFromCreation(kid) == kid[2] + GrantTTL <= interval

\* The loop goes on with the next kid when now is after now - maxGrantTTL,
\* which it is for every positive maxGrantTTL.
WindowOver(kid) == FALSE

RetireOverlapKeys ==
  LET gone == {k \in overlapKids : WindowOver(k)}
  IN  /\ overlapKids' = overlapKids \ gone
      /\ allowedKids' = allowedKids \ gone
      /\ UNCHANGED <<interval, kids, keys, activeKeys, retiredAt, ceremony, rootSig, signing, tokens>>

VerifySignature(kid, key) == kid \in allowedKids /\ kid \in DOMAIN keys /\ keys[kid] = key

-------------------------------------------------------------------------------
(***************************************************************************)
(* The adapters.                                                           *)
(***************************************************************************)

\* SignRequest and SignGrant read the kid for the header first ...
SignHeader(s, p) ==
  /\ signing[s] = Idle
  /\ activeKeys # NoSig
  /\ signing' = [signing EXCEPT ![s] = [pc |-> "header", purpose |-> p, kid |-> ActiveKid(p)]]
  /\ UNCHANGED <<interval, kids, keys, activeKeys, allowedKids, overlapKids, retiredAt, ceremony, rootSig, tokens>>

\* ... and then sign, and pass over the kid SignWithPurpose returns.
SignBody(s) ==
  /\ signing[s] # Idle
  /\ SignWithPurpose(signing[s].purpose, signing[s].kid)
  /\ signing' = [signing EXCEPT ![s] = Idle]
  /\ UNCHANGED <<interval, kids, keys, activeKeys, allowedKids, overlapKids, retiredAt, ceremony, rootSig>>

\* The audit signer and a signer of policies take kid and signature together.
SignAtOnce(p) ==
  /\ activeKeys # NoSig
  /\ SignWithPurpose(p, ActiveKid(p))
  /\ UNCHANGED <<interval, kids, keys, activeKeys, allowedKids, overlapKids, retiredAt, ceremony, rootSig, signing>>

KeyNext ==
  \/ IntervalEnds
  \/ \E cfg \in Configs : InitCrypto(cfg)
  \/ SignKeySet
  \/ SetRootSignature
  \/ \E p \in Purposes : RotateKey(p)
  \/ RetireOverlapKeys
  \/ \E s \in Signers, p \in Purposes \cap {"request_sig", "grant_sig"} : SignHeader(s, p)
  \/ \E s \in Signers : SignBody(s)
  \/ \E p \in Purposes \cap {"audit_checkpoint_sig", "policy_sig"} : SignAtOnce(p)

-------------------------------------------------------------------------------
KeyTypeOK ==
  /\ interval \in 0..MaxInterval
  /\ kids \in Seq(Purposes \X (0..MaxInterval)) /\ Len(kids) <= MaxKeys
  /\ keys \in [DOMAIN keys -> DOMAIN kids]
  /\ {activeKeys, ceremony, rootSig} \subseteq {NoSig} \cup [Purposes -> DOMAIN kids]
  /\ DOMAIN retiredAt \subseteq DOMAIN kids
  /\ retiredAt \in [DOMAIN retiredAt -> 0..MaxInterval]
  /\ overlapKids \subseteq allowedKids /\ allowedKids \subseteq DOMAIN keys
  /\ signing \in [Signers -> {Idle} \cup [pc : {"header"}, purpose : Purposes, kid : DOMAIN keys]]
  /\ tokens \subseteq [purpose : Purposes, kid : DOMAIN keys, key : DOMAIN kids]

\* The key is active, or less than max grant TTL has passed since its rotation.
InWindow(n) == n \in DOMAIN retiredAt => interval < retiredAt[n] + GrantTTL

\* Rotation strands nothing that was signed: until max grant TTL after its key was
\* rotated out a message verifies (DR-KEY-9, keymanager.go:257), with any
\* rotations, ceremonies and retirements in between.  Not covered is a message
\* whose key was rotated in between SignRequest's or SignGrant's two steps, so that
\* its header names another key, and one whose kid a later key of the same 2^16 ms
\* took over.
RotationStrandsNothing ==
  \A t \in tokens :
    /\ t.kid = kids[t.key] /\ (\A n \in t.key + 1 .. Len(kids) : kids[n] # t.kid)
    /\ InWindow(t.key)
    => VerifySignature(t.kid, t.key)

\* "The old key remains in the allowlist for max grant TTL" (keymanager.go:257):
\* a signature made with any key that was ever active verifies under its kid.
OldKeyRemains == \A n \in DOMAIN kids : VerifySignature(kids[n], n)

===============================================================================
