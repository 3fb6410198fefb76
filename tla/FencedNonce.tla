---------------------------- MODULE FencedNonce ----------------------------
(***************************************************************************)
(* What the users of one exchange API key are promised, whatever happens   *)
(* to containers, locks and leases: nonces strictly increase, and once an  *)
(* owner has issued under a newer lease version, no earlier owner issues   *)
(* again.  Rotating the key starts a new sequence at the exchange.         *)
(* (bot/distributed_nonce_manager.py, DistributedNonceManager)             *)
(***************************************************************************)
EXTENDS Naturals

CONSTANT Keys       \* exchange API keys

VARIABLES
  last,             \* last[k]: the last nonce issued since the rotation
  epoch,            \* epoch[k]: the lease version it was issued under
  issuer            \* issuer[k]: the owner it was issued to

vars == <<last, epoch, issuer>>

Init ==
  /\ last = [k \in Keys |-> 0]
  /\ epoch = [k \in Keys |-> 0]
  /\ issuer \in [Keys -> {<<>>}]

Others(k) ==
  \A j \in Keys \ {k} :
    /\ last'[j] = last[j]
    /\ epoch'[j] = epoch[j]
    /\ issuer'[j] = issuer[j]

Issue(k) ==
  /\ last'[k] > last[k]
  /\ \/ epoch'[k] > epoch[k]
     \/ epoch'[k] = epoch[k] /\ issuer'[k] = issuer[k]
  /\ Others(k)

Rotate(k) ==
  /\ last'[k] = 0
  /\ epoch'[k] = epoch[k]
  /\ issuer'[k] = issuer[k]
  /\ Others(k)

Next == \E k \in Keys : Issue(k) \/ Rotate(k)

Spec == Init /\ [][Next]_vars
=============================================================================
