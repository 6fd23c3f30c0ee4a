------------------------------ MODULE MCSecrets ------------------------------
(***************************************************************************)
(* Two Secrets, a and a-b, and two keys, k and b-k: the ids made of them   *)
(* collide, both by their keys and as a-b-k.                               *)
(***************************************************************************)
EXTENDS SecretVolume

CONSTANTS a, b, k, ns

NameA  == <<a>>
NameAB  == <<a, b>>
KeyK   == <<k>>
KeyBK  == <<b, k>>
TheNamespace == <<ns>>
TwoNames == <<NameA, NameAB>>

Pair(name, key, v) == [name |-> name, key |-> key, value |-> v]

TwoWrites ==
    {<<Pair(NameA, KeyK, "v1"), Pair(NameAB, KeyK, "v1")>>,
     <<Pair(NameA, KeyBK, "v2"), Pair(NameA, KeyK, "v2"), Pair(NameAB, KeyK, "v2")>>}

\* Two collide with ids that a write would take, one is a second id of a Secret.
Others ==
    {[id |-> KeyBK, pointer |-> [name |-> NameAB, key |-> KeyBK]],
     [id |-> TheNamespace \o NameAB \o KeyK, pointer |-> [name |-> NameAB, key |-> NameA]],
     [id |-> TheNamespace, pointer |-> [name |-> NameA, key |-> KeyK]]}

Some(used) == [e \in SecretEvents |-> IF e \in DOMAIN used THEN used[e] ELSE 0]

\* Writers race, twice as often as one write tries; the cluster refuses what the
\* branch has accepted; requests overlap with writes.
Racing    == Some([write |-> 2, outside |-> 2, net |-> 1, crash |-> 1, disk |-> 1])
Refusing  == Some([write |-> 2, revert |-> 1, net |-> 1, api |-> 1, touch |-> 1, crash |-> 1])
Resolving == Some([write |-> 2, resolve |-> 2, mount |-> 3])
ThreeKinds == {Racing, Refusing, Resolving}

\* The service refers to the two keys by the ids that the first write gives them.
Refs == {KeyK, NameAB \o KeyK}

\* Two writes of one Secret, one key each, and nothing goes wrong.
KeyByKey == {<<Pair(NameA, KeyK, "v1")>>, <<Pair(NameA, KeyBK, "v2")>>}
Calm == {Some([write |-> 2])}
=============================================================================
