----------------------------- MODULE Revocation -----------------------------
(***************************************************************************)
(* Revoking a device of an account: the account server's rows, epoch and   *)
(* signed records (control-plane/src/UserStore.php, Api.php), the epoch    *)
(* sync and the backfill of records in client/src/app.ts, and the floor,   *)
(* the denylist and the certificate each device keeps in its sealed        *)
(* identity (client/src/groupchannel.ts over crypto/src/conversation.rs).  *)
(*                                                                         *)
(* A record is its target: records of one target count once.  Signatures   *)
(* are taken as given.  Every change of the identity is resealed before    *)
(* anything of it leaves the device, so a reload between the two is a      *)
(* reload before both: the change and its seal are one step, and a reload  *)
(* loses the handlers under way.  The pairing ceremony is Pairing.tla's,   *)
(* the removal from the groups GroupCommit.tla's.                          *)
(***************************************************************************)
EXTENDS Integers, FiniteSets

CONSTANTS
    Own,         \* the devices of the account
    Founding,    \* the one that registered it
    Paired,      \* the ones that were paired with it
    MaxRevoke,   \* bound: revocations in one behaviour
    MaxRevFault  \* bound: failed calls and reloads

ASSUME OwnAssumption == IsFiniteSet(Own) /\ Founding \in Own /\ Paired \subseteq Own \ {Founding}
ASSUME RevBoundAssumption == MaxRevoke \in Nat /\ MaxRevFault \in Nat

VARIABLES
    rows,        \* the server's device rows
    serverEpoch, \* account_epoch
    records,     \* targets of the signed records the server stores
    packages,    \* the certificate epoch of a device's published key packages
    vault,       \* a device's identity: certificate epoch, floor, denylist, seed
    lastEpoch,   \* lastAccountEpoch
    sync,        \* where a device's syncAndPublish or recovery is suspended
    revoking,    \* where its revoke handler is suspended
    revSpent

serverVars == <<rows, serverEpoch, records, packages>>
revVars == <<serverVars, vault, lastEpoch, sync, revoking, revSpent>>

NoPackage == -1
IdleSync == [at |-> "idle", epoch |-> 0, burned |-> {}, recover |-> FALSE, target |-> {}]
NoRevoke == [at |-> "none", target |-> {}]
Blank == [cert |-> 0, floor |-> 0, deny |-> {}, seed |-> FALSE]

Larger(m, n) == IF m > n THEN m ELSE n
Active(d) == rows[d] = "active"
Burned == {x \in Own : rows[x] = "revoked"}

RevFault == /\ revSpent.fault < MaxRevFault
            /\ revSpent' = [revSpent EXCEPT !.fault = @ + 1]

\* The remaining devices are yet to be paired, or an older build revoked them, which
\* left no record.
RevInit ==
    /\ \E others \in [Own \ (Paired \cup {Founding}) -> {"none", "revoked"}] :
         rows = [d \in Own |-> IF d \in DOMAIN others THEN others[d] ELSE "active"]
    /\ serverEpoch = Cardinality(Burned)
    /\ records = {}
    /\ packages = [d \in Own |-> IF Active(d) THEN 0 ELSE NoPackage]
    /\ vault = [d \in Own |-> [Blank EXCEPT !.seed = (d = Founding)]]
    /\ lastEpoch = [d \in Own |-> 0]
    /\ sync = [d \in Own |-> IdleSync]
    /\ revoking = [d \in Own |-> NoRevoke]
    /\ revSpent = [revoke |-> 0, fault |-> 0]

\* ingest_revocation: the records are added and the floor rises to their number.
Denying(v, targets) ==
    [v EXCEPT !.deny = @ \cup targets, !.floor = Larger(@, Cardinality(v.deny \cup targets))]

\* recredential_at_epoch: certified at the epoch asked for, or at the floor above it.
Certified(v, epoch) ==
    LET at == Larger(epoch, v.floor) IN [v EXCEPT !.cert = at, !.floor = at]

\* revokeDeviceKey: a seed-holder mints the record of x and adopts it; others cannot.
RevokeDeviceKey(d, x) ==
    IF vault[d].seed THEN [vault EXCEPT ![d] = Denying(@, {x})] ELSE vault

\* ingestRevocations: the records the server stores, which all verify.
IngestRevocations(d) == [vault EXCEPT ![d] = Denying(@, records)]

IsDeviceRevoked(d, x) == x \in vault[d].deny

\* freshKeyPackages: they carry the current certificate, and are sealed before the
\* directory has them.
FreshKeyPackages(d) == [packages EXCEPT ![d] = vault[d].cert]

\* listDevices: the account's epoch and the burned rows, as of now.
DeviceList == [epoch |-> serverEpoch, burned |-> Burned]

\* addRevocation: a record of a target that has one is ignored.
AddRevocation(targets) == records' = records \cup targets

Goto(d, stage) == sync' = [sync EXCEPT ![d] = [IdleSync EXCEPT !.at = stage]]

-----------------------------------------------------------------------------
(* currentAccountEpoch, then syncEpoch or recoverWithSeed, then the keys.   *)

\* Login, a reconnect or a revoke syncs; the user may enter the recovery secret.  The
\* records of the answer are ingested at once: adding them commutes with anything else
\* the device does.
ListDevices(d, recover) ==
    /\ Active(d) /\ sync[d].at \in {"idle", "again"}
    /\ recover => sync[d].at = "idle" /\ ~vault[d].seed
    /\ sync' = [sync EXCEPT ![d] = [IdleSync EXCEPT !.at = "backfill", !.epoch = DeviceList.epoch,
                                        !.burned = DeviceList.burned, !.recover = recover]]
    /\ vault' = IngestRevocations(d)
    /\ UNCHANGED <<serverVars, lastEpoch, revoking, revSpent>>

\* A failed read counts as epoch 0 and brings no records.
ListDevicesFails(d, recover) ==
    /\ Active(d) /\ sync[d].at \in {"idle", "again"}
    /\ recover => sync[d].at = "idle" /\ ~vault[d].seed
    /\ RevFault
    /\ sync' = [sync EXCEPT ![d] = [IdleSync EXCEPT !.at = "epoch", !.recover = recover]]
    /\ UNCHANGED <<serverVars, vault, lastEpoch, revoking>>

\* backfillRevocationRecords: a seed-holder mints a record for a revoked row, unless
\* it already holds one.
BackfillNever(d) ==
    /\ Active(d) /\ sync[d].at = "backfill"
    /\ sync' = [sync EXCEPT ![d].at = "epoch", ![d].burned = {}]
    /\ UNCHANGED <<serverVars, vault, lastEpoch, revoking, revSpent>>

Backfill(d) ==
    LET missing == IF vault[d].seed THEN {x \in sync[d].burned \ {d} : ~IsDeviceRevoked(d, x)} ELSE {}
    IN  /\ Active(d) /\ sync[d].at = "backfill"
        /\ \/ /\ missing = {}
              /\ sync' = [sync EXCEPT ![d].at = "epoch", ![d].burned = {}]
              /\ UNCHANGED vault
           \/ \E x \in missing :
              /\ vault' = RevokeDeviceKey(d, x)
              /\ sync' = [sync EXCEPT ![d].at = "upload", ![d].target = {x}]
        /\ UNCHANGED <<serverVars, lastEpoch, revoking, revSpent>>

\* account.revokeDevice on a burned row stores the record, or fails and is let go.
UploadRecord(d) ==
    /\ Active(d) /\ sync[d].at = "upload"
    /\ \/ AddRevocation(sync[d].target) /\ UNCHANGED revSpent
       \/ RevFault /\ UNCHANGED records
    /\ sync' = [sync EXCEPT ![d].at = "backfill", ![d].target = {}]
    /\ UNCHANGED <<rows, serverEpoch, packages, vault, lastEpoch, revoking>>

\* syncEpoch: a device behind the epoch certifies itself again if it holds the seed,
\* and publishes nothing if it does not.  A device denied by a record stops.
SyncEpochNever(d) ==
    /\ Active(d) /\ sync[d].at = "epoch" /\ ~sync[d].recover
    /\ lastEpoch' = [lastEpoch EXCEPT ![d] = Larger(@, sync[d].epoch)]
    /\ Goto(d, "publish")
    /\ UNCHANGED <<serverVars, vault, revoking, revSpent>>

SyncEpoch(d) ==
    LET epoch == sync[d].epoch
        behind == vault[d].cert < epoch
        able == vault[d].seed /\ ~IsDeviceRevoked(d, d)
    IN  /\ Active(d) /\ sync[d].at = "epoch" /\ ~sync[d].recover
        /\ lastEpoch' = [lastEpoch EXCEPT ![d] = Larger(@, epoch)]
        /\ vault' = IF behind /\ able THEN [vault EXCEPT ![d] = Certified(@, epoch)] ELSE vault
        /\ Goto(d, IF behind /\ ~able THEN "idle" ELSE "publish")
        /\ UNCHANGED <<serverVars, revoking, revSpent>>

\* recoverWithSeed: the device becomes a seed-holder, certified at the epoch read, and
\* goes on to a sync of its own; a denied one keeps the seed and is refused.
RecoverWithSeed(d) ==
    /\ Active(d) /\ sync[d].at = "epoch" /\ sync[d].recover
    /\ LET v == [vault[d] EXCEPT !.seed = TRUE]
       IN  vault' = [vault EXCEPT ![d] =
                       IF d \in v.deny THEN v ELSE Certified(v, sync[d].epoch)]
    /\ Goto(d, IF d \in vault[d].deny THEN "idle" ELSE "again")
    /\ UNCHANGED <<serverVars, lastEpoch, revoking, revSpent>>

\* publishOwnKeys: sealed, then published; the server replaces what it had.
PublishOwnKeys(d) ==
    /\ Active(d) /\ sync[d].at = "publish"
    /\ \/ packages' = FreshKeyPackages(d) /\ UNCHANGED revSpent
       \/ RevFault /\ UNCHANGED packages
    /\ Goto(d, "idle")
    /\ UNCHANGED <<rows, serverEpoch, records, vault, lastEpoch, revoking>>

\* A pass that consumed packages tops the directory up without a sync.
TopUpKeys(d) ==
    /\ Active(d) /\ sync[d].at = "idle" /\ packages[d] # vault[d].cert
    /\ packages' = FreshKeyPackages(d)
    /\ UNCHANGED <<rows, serverEpoch, records, vault, lastEpoch, sync, revoking, revSpent>>

-----------------------------------------------------------------------------
(* Revoking and pairing.                                                    *)

\* UserStore::revokeDevice, one transaction: the epoch counts live devices only.
Burn(x) ==
    /\ rows' = [rows EXCEPT ![x] = "revoked"]
    /\ serverEpoch' = IF Active(x) THEN serverEpoch + 1 ELSE serverEpoch
    /\ packages' = [packages EXCEPT ![x] = NoPackage]

\* revoke-confirm: a seed-holder mints the record first.
RevokeConfirm(d, x) ==
    /\ Active(d) /\ revoking[d] = NoRevoke /\ x \in Own \ {d} /\ Active(x)
    /\ revSpent.revoke < MaxRevoke
    /\ revSpent' = [revSpent EXCEPT !.revoke = @ + 1]
    /\ vault' = RevokeDeviceKey(d, x)
    /\ revoking' = [revoking EXCEPT ![d] =
                      [at |-> IF vault[d].seed THEN "signed" ELSE "unsigned", target |-> {x}]]
    /\ UNCHANGED <<serverVars, lastEpoch, sync>>

\* The server burns the row, then stores the record; either may be where it stops.
RevokeDevice(d) ==
    /\ Active(d) /\ revoking[d].at \in {"signed", "unsigned"}
    /\ \E x \in revoking[d].target :
         \/ /\ Burn(x)
            /\ AddRevocation(IF revoking[d].at = "signed" THEN {x} ELSE {})
            /\ UNCHANGED revSpent
         \/ Burn(x) /\ revoking[d].at = "signed" /\ RevFault /\ UNCHANGED records
         \/ RevFault /\ UNCHANGED <<rows, serverEpoch, packages, records>>
    /\ revoking' = [revoking EXCEPT ![d] = NoRevoke]
    /\ UNCHANGED <<vault, lastEpoch, sync>>

\* revokeself-confirm: the row is burned without a record and the device wiped.
RevokeSelf(d) ==
    /\ Active(d) /\ revSpent.revoke < MaxRevoke
    /\ revSpent' = [revSpent EXCEPT !.revoke = @ + 1]
    /\ Burn(d)
    /\ vault' = [vault EXCEPT ![d] = Blank]
    /\ lastEpoch' = [lastEpoch EXCEPT ![d] = 0]
    /\ sync' = [sync EXCEPT ![d] = IdleSync]
    /\ revoking' = [revoking EXCEPT ![d] = NoRevoke]
    /\ UNCHANGED records

\* grantScannedDevice: mintEpoch, raised to the minter's floor; the new device adopts
\* the certificate, enrolls and publishes.
GrantScannedDevice(d, x) ==
    /\ Active(d) /\ vault[d].seed /\ rows[x] = "none" /\ ~IsDeviceRevoked(d, x)
    /\ LET cert == Larger(Larger(lastEpoch[d], vault[d].cert), vault[d].floor)
       IN  /\ vault' = [vault EXCEPT ![x] = [Blank EXCEPT !.cert = cert]]
           /\ packages' = [packages EXCEPT ![x] = cert]
    /\ rows' = [rows EXCEPT ![x] = "active"]
    /\ UNCHANGED <<serverEpoch, records, lastEpoch, sync, revoking, revSpent>>

\* The page is reloaded: the handlers under way are gone.
RevReload(d) ==
    /\ Active(d) /\ RevFault
    /\ lastEpoch' = [lastEpoch EXCEPT ![d] = 0]
    /\ sync' = [sync EXCEPT ![d] = IdleSync]
    /\ revoking' = [revoking EXCEPT ![d] = NoRevoke]
    /\ UNCHANGED <<serverVars, vault>>

-----------------------------------------------------------------------------
SyncStep(d) ==
    \/ Backfill(d) \/ UploadRecord(d)
    \/ SyncEpoch(d) \/ RecoverWithSeed(d) \/ PublishOwnKeys(d)

RevNext ==
    \E d \in Own :
        \/ SyncStep(d) \/ TopUpKeys(d)
        \/ \E recover \in BOOLEAN : ListDevices(d, recover) \/ ListDevicesFails(d, recover)
        \/ RevokeDevice(d) \/ RevokeSelf(d) \/ RevReload(d)
        \/ \E x \in Own : RevokeConfirm(d, x) \/ GrantScannedDevice(d, x)

\* A running device that is not in the middle of a sync begins the next one with the
\* device list: it signs in or reconnects now and then.
PollStep(d) == SyncStep(d) \/ ListDevices(d, FALSE)

\* Every running device syncs now and then, and what was begun goes on.
RevFairness ==
    \A d \in Own :
        /\ WF_revVars(PollStep(d)) /\ WF_revVars(RevokeDevice(d))

RevSpec == RevInit /\ [][RevNext]_revVars /\ RevFairness

-----------------------------------------------------------------------------
\* Type correctness.
RevTypeOK ==
    /\ rows \in [Own -> {"none", "active", "revoked"}]
    /\ serverEpoch \in 0..Cardinality(Own) /\ records \subseteq Own
    /\ packages \in [Own -> {NoPackage} \cup 0..Cardinality(Own)]
    /\ vault \in [Own -> [cert : 0..Cardinality(Own), floor : 0..Cardinality(Own),
                           deny : SUBSET Own, seed : BOOLEAN]]
    /\ lastEpoch \in [Own -> 0..Cardinality(Own)]

\* No minted record is missing at the server.
Unpublished(x) == \E h \in Own : Active(h) /\ x \in vault[h].deny /\ x \notin records
HalfRevoked(x) == \E h \in Own : x \in vault[h].deny /\ rows[x] # "revoked"

\* Every running device denies the keys of the revoked ones, as long as some running
\* device holds the seed and no minted record is stranded on the device that minted it.
RevokedDenied ==
    \A x \in Burned :
        \/ \A e \in Own : Active(e) => x \in vault[e].deny
        \/ Unpublished(x)
        \/ \A h \in Own : Active(h) => ~vault[h].seed

\* The packages of running seed-holders pass every running device's gate, unless a
\* revocation went through on one device alone.
PackagesCurrent ==
    \/ \E x \in Own : HalfRevoked(x)
    \/ \A d, e \in Own : Active(d) /\ Active(e) /\ vault[d].seed =>
            packages[d] >= vault[e].floor

\* However a device was revoked (by a seed-holder, by a device without the seed, by
\* itself, before records existed) and whatever device-list read or upload failed on
\* the way, the running devices end up denying its key and publishing packages that
\* each other's gates admit (app.ts: backfillRevocationRecords, syncAndPublish).
RevocationSettles == <>[](RevokedDenied /\ PackagesCurrent)

\* "A failure here is retried on the next device-list read" (app.ts:7452): a record
\* that a running seed-holder minted for a revoked device reaches the server.
MintedIsPublished ==
    \A x \in Own : <>[](x \in Burned => ~Unpublished(x))

\* "do not publish old-epoch packages a peer would reject" (app.ts:7518): no sync of a
\* device goes on to publish packages below an account epoch it has been told.
StaleWithheld == \A d \in Own : sync[d].at = "publish" => vault[d].cert >= lastEpoch[d]
=============================================================================
