--------------------------- MODULE MCAlertDelivery ---------------------------
(* Instances of AlertDelivery for TLC. *)
EXTENDS AlertDelivery, TLC

CONSTANTS k1, k2, k3, s1, s2

\* One key: long histories of sends, crashes and prunes.
OneKeySymbol == [k \in Keys |-> s1]
OneKeyCooldown == [k \in Keys |-> 3]
OneKeyHits == [k \in Keys |-> 1]
\* Three keys, two of them of one symbol: the tasks of one round.
ThreeKeysSymbol == k1 :> s1 @@ k2 :> s1 @@ k3 :> s2
ThreeKeysCooldown == [k \in Keys |-> 1]
ThreeKeysHits == k1 :> 1 @@ k2 :> 2 @@ k3 :> 1
=============================================================================
