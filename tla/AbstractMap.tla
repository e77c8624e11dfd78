----------------------------- MODULE AbstractMap -----------------------------
(***************************************************************************)
(* What SharedMemoryMap and SharedMemoryHashMap promise: a set of pairs of *)
(* a key and a value, one for each key that is present, which an operation *)
(* changes at one key or empties.  Both keep the pairs in linked nodes;    *)
(* the modules RbTreeMap and HashTable implement this specification.       *)
(***************************************************************************)
CONSTANTS Keys, Values

VARIABLE content

Others(c, k) == {pair \in c : pair[1] # k}

(* insert, emplace and try_emplace of a key that is not there, and         *)
(* insert_or_assign of any key.                                            *)
Put(c, k, v) == Others(c, k) \cup {<<k, v>>}

Init == content = {}

Step(now, then) ==
  \E k \in Keys :
    \/ then = Others(now, k)                 (* erase                      *)
    \/ \E v \in Values : then = Put(now, k, v)
    \/ then = {}                             (* clear                      *)

Next == Step(content, content')

Spec == Init /\ [][Next]_content
=============================================================================
