----------------------------- MODULE Attestation -----------------------------
(***************************************************************************)
(* The device attestation that precedes a connect: attest.service.ts and   *)
(* attested.guard.ts on the server, connection_repository.dart and the     *)
(* native attestation bridges on the phone.                                *)
(*                                                                         *)
(* An attempt makes a fresh key pair, asks for a challenge, has the phone  *)
(* prove both, posts the proof to verify and then the key to /connect.     *)
(* Attempts overlap: one that its user gave up is carried on by the server *)
(* and by the phone's attestation service.  One device row is followed.    *)
(* Proofs are genuine (the verifiers' checks of them are VerifyRejected).  *)
(***************************************************************************)
EXTENDS Integers

CONSTANTS
  Attempt,   \* attempts to connect; an attempt also names the keys made in it
  OldKey,    \* the App Attest key of a phone that registered earlier
  None,      \* SQL null, no value
  Platforms  \* bound: the platforms looked at, of "android" and "ios"

Key == Attempt \cup {OldKey}

ASSUME AttestAssumption ==
  /\ None \notin Key /\ OldKey \notin Attempt
  /\ Platforms \subseteq {"android", "ios"}

VARIABLES
  platform,   \* of the phone
  attempt,    \* the attempts
  challenge,  \* attestation_challenges, one of each attempt
  device,     \* the row of devices
  savedKey,   \* UserDefaults appattest.keyId
  signs       \* the Secure Enclave's counter of the saved key

attestVars == <<platform, attempt, challenge, device, savedKey, signs>>

(* mode, key and sign make up the proof; sign is the counter of an         *)
(* assertion.                                                              *)
AttemptRow == [pc : {"unused", "asking", "proving", "attesting", "proved", "checking",
                     "bound", "admitted", "granted", "refused", "denied"},
               mode : {"none", "token", "attest", "assert"},
               key : Key \cup {None}, sign : Nat]

(* ok stands for is_attested and attested_until > now(), bound for the     *)
(* attempt whose key is attested_client_public_key.                        *)
DeviceRow == [ok : BOOLEAN, bound : Attempt \cup {None},
              key : Key \cup {None}, count : Nat]

AttestType ==
  /\ platform \in Platforms
  /\ attempt \in [Attempt -> AttemptRow]
  /\ challenge \in [Attempt -> {"none", "open", "used", "lapsed"}]
  /\ device \in DeviceRow
  /\ savedKey \in Key \cup {None}
  /\ signs \in Nat

Unused == [pc |-> "unused", mode |-> "none", key |-> None, sign |-> 0]

\* A new device, or an iPhone whose key registered and has signed once.
AttestInit ==
  /\ platform \in Platforms
  /\ attempt = [a \in Attempt |-> Unused]
  /\ challenge = [a \in Attempt |-> "none"]
  /\ \/ /\ device = [ok |-> FALSE, bound |-> None, key |-> None, count |-> 0]
        /\ savedKey = None /\ signs = 0
     \/ /\ platform = "ios"
        /\ device = [ok |-> FALSE, bound |-> None, key |-> OldKey, count |-> 1]
        /\ savedKey = OldKey /\ signs = 1

At(a, pc) == attempt[a].pc = pc
Goto(a, pc) == attempt' = [attempt EXCEPT ![a].pc = pc]

-----------------------------------------------------------------------------
\* The phone.

\* ConnectionRepository.connect makes the key pair and asks for a challenge.
BeginAttempt(a) ==
  /\ At(a, "unused")
  /\ Goto(a, "asking")
  /\ UNCHANGED <<platform, challenge, device, savedKey, signs>>

\* Android: the Play Integrity token over key and challenge.
ProveToken(a) ==
  /\ platform = "android" /\ At(a, "proving")
  /\ attempt' = [attempt EXCEPT ![a].pc = "proved", ![a].mode = "token"]
  /\ UNCHANGED <<platform, challenge, device, savedKey, signs>>

\* Mutant: the key is saved when it is generated.
SaveGenerated(a) ==
  /\ platform = "ios" /\ At(a, "proving") /\ savedKey = None
  /\ Goto(a, "attesting")
  /\ savedKey' = a
  /\ UNCHANGED <<platform, challenge, device, signs>>

\* iOS without a saved key: generateKey, then attestKey.
GenerateKey(a) ==
  /\ platform = "ios" /\ At(a, "proving") /\ savedKey = None
  /\ Goto(a, "attesting")
  /\ UNCHANGED <<platform, challenge, device, savedKey, signs>>

AttestKey(a) ==
  /\ At(a, "attesting")
  /\ attempt' = [attempt EXCEPT ![a].pc = "proved", ![a].mode = "attest", ![a].key = a]
  /\ savedKey' = a /\ signs' = 0
  /\ UNCHANGED <<platform, challenge, device>>

\* Any failure but serverUnavailable also drops the saved key.
AttestKeyFails(a) ==
  /\ At(a, "attesting")
  /\ Goto(a, "refused")
  /\ savedKey' \in {savedKey, None}
  /\ UNCHANGED <<platform, challenge, device, signs>>

\* iOS with a saved key: generateAssertion.
SignAssertion(a) ==
  /\ platform = "ios" /\ At(a, "proving") /\ savedKey # None
  /\ signs' = signs + 1
  /\ attempt' = [attempt EXCEPT ![a] = [pc |-> "proved", mode |-> "assert",
                                        key |-> savedKey, sign |-> signs + 1]]
  /\ UNCHANGED <<platform, challenge, device, savedKey>>

\* invalidKey: the saved key is gone from the phone, and is dropped.
KeyInvalid(a) ==
  /\ platform = "ios" /\ At(a, "proving") /\ savedKey # None
  /\ Goto(a, "refused")
  /\ savedKey' = None
  /\ UNCHANGED <<platform, challenge, device, signs>>

\* Any other failure of the platform's service.
ProveFails(a) ==
  /\ At(a, "proving")
  /\ Goto(a, "refused")
  /\ UNCHANGED <<platform, challenge, device, savedKey, signs>>

PhoneNext(a) ==
  \/ ProveToken(a) \/ GenerateKey(a) \/ AttestKey(a) \/ AttestKeyFails(a)
  \/ SignAssertion(a) \/ KeyInvalid(a) \/ ProveFails(a)

-----------------------------------------------------------------------------
\* The requests of the client, as the server handles them.

\* createChallenge
CreateChallenge(a) ==
  /\ At(a, "asking")
  /\ Goto(a, "proving")
  /\ challenge' = [challenge EXCEPT ![a] = "open"]
  /\ UNCHANGED <<platform, device, savedKey, signs>>

\* verify, phase A: the challenge is consumed in a transaction of its own.
ConsumeChallenge(a) ==
  /\ At(a, "proved") /\ challenge[a] = "open"
  /\ Goto(a, "checking")
  /\ challenge' = [challenge EXCEPT ![a] = "used"]
  /\ UNCHANGED <<platform, device, savedKey, signs>>

ChallengeRefused(a) ==
  /\ At(a, "proved") /\ challenge[a] # "open"
  /\ Goto(a, "refused")
  /\ UNCHANGED <<platform, challenge, device, savedKey, signs>>

\* AttestedGuard: attested, and the presented key is the one bound.
Attested(a) == device.ok /\ device.bound = a

\* /connect as far as its guard, which reads the device row once.
GuardPasses(a) ==
  /\ At(a, "bound") /\ Attested(a)
  /\ Goto(a, "admitted")
  /\ UNCHANGED <<platform, challenge, device, savedKey, signs>>

GuardDenies(a) ==
  /\ At(a, "bound") /\ ~Attested(a)
  /\ Goto(a, "denied")
  /\ UNCHANGED <<platform, challenge, device, savedKey, signs>>

RequestNext(a) ==
  \/ CreateChallenge(a) \/ ConsumeChallenge(a) \/ ChallengeRefused(a)
  \/ GuardPasses(a) \/ GuardDenies(a)

-----------------------------------------------------------------------------
\* verify after phase A, and connect after its guard: no one can call them back.

\* Android: after the external decode, the device is marked in a short transaction.
MarkAttested(a) ==
  /\ At(a, "checking") /\ attempt[a].mode = "token"
  /\ device' = [device EXCEPT !.ok = TRUE, !.bound = a]
  /\ Goto(a, "bound")
  /\ UNCHANGED <<platform, challenge, savedKey, signs>>

(* iOS, mode attest: the key is registered and its counter starts at 0,    *)
(* which the trigger on devices refuses when the stored counter is above.  *)
RegisterKey(a) ==
  /\ At(a, "checking") /\ attempt[a].mode = "attest" /\ device.count = 0
  /\ device' = [ok |-> TRUE, bound |-> a, key |-> attempt[a].key, count |-> 0]
  /\ Goto(a, "bound")
  /\ UNCHANGED <<platform, challenge, savedKey, signs>>

\* Mutant: the counter of an assertion is stored without being compared.
AnySign(a) == TRUE

\* verifyAssertion: ad.signCount > storedSignCount
NewerSign(a) == attempt[a].sign > device.count

\* iOS, mode assert: one transaction with the device row locked.
AcceptAssertion(a) ==
  /\ At(a, "checking") /\ attempt[a].mode = "assert"
  /\ device.key = attempt[a].key /\ NewerSign(a)
  /\ device' = [device EXCEPT !.ok = TRUE, !.bound = a, !.count = attempt[a].sign]
  /\ Goto(a, "bound")
  /\ UNCHANGED <<platform, challenge, savedKey, signs>>

\* The verifier rejects, the decode fails, the transaction is refused or cut.
VerifyRejected(a) ==
  /\ At(a, "checking")
  /\ Goto(a, "refused")
  /\ UNCHANGED <<platform, challenge, device, savedKey, signs>>

(* ConnectionService.connect commits whatever has become of the device row *)
(* since the guard read it: another verify may have bound its key by then. *)
ConnectGranted(a) ==
  /\ At(a, "admitted")
  /\ Goto(a, "granted")
  /\ UNCHANGED <<platform, challenge, device, savedKey, signs>>

ConnectFails(a) ==
  /\ At(a, "admitted")
  /\ Goto(a, "denied")
  /\ UNCHANGED <<platform, challenge, device, savedKey, signs>>

ServerNext(a) ==
  \/ MarkAttested(a) \/ RegisterKey(a) \/ AcceptAssertion(a) \/ VerifyRejected(a)
  \/ ConnectGranted(a) \/ ConnectFails(a)

\* challengeTtlMs, attestationTtlMs run out.
LapseChallenge(a) ==
  /\ challenge[a] = "open"
  /\ challenge' = [challenge EXCEPT ![a] = "lapsed"]
  /\ UNCHANGED <<platform, attempt, device, savedKey, signs>>

LapseAttestation ==
  /\ device.ok
  /\ device' = [device EXCEPT !.ok = FALSE]
  /\ UNCHANGED <<platform, attempt, challenge, savedKey, signs>>

LapseNext == LapseAttestation \/ \E a \in Attempt : LapseChallenge(a)

-----------------------------------------------------------------------------
\* The server has accepted a's assertion.
Accepted(a) ==
  /\ attempt[a].mode = "assert"
  /\ attempt[a].pc \in {"bound", "admitted", "granted", "denied"}

(* Assertions are accepted in the order in which they were signed: when    *)
(* attempts overlap and their verifies arrive the other way round, the     *)
(* older assertion is refused, and no registration, refused or not, makes  *)
(* the server forget how far it has counted.                               *)
SignedInOrder ==
  [][\A a, b \in Attempt :
       ~Accepted(a) /\ Accepted(a)' /\ Accepted(b)
       => attempt[b].sign < attempt[a].sign]_attempt

(* The key the phone would sign with is the one the server knows, save in  *)
(* two cases: the verify that was to register it is under way or failed,   *)
(* or another first attestation ran beside it.                             *)
SavedKeyKnown ==
  savedKey \in Attempt /\ device.key # savedKey
  => \/ attempt[savedKey].pc \in {"proved", "checking", "refused"}
     \/ \E b \in Attempt \ {savedKey} : attempt[b].mode = "attest"

(* AttestationBridge.swift:75 says that a phone whose key is gone          *)
(* re-registers with its next attempt; the server must then be able to     *)
(* accept the new key's attestation.                                       *)
ReRegisters ==
  \A a \in Attempt :
    At(a, "checking") /\ attempt[a].mode = "attest" => device.count = 0
=============================================================================
