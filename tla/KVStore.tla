------------------------------- MODULE KVStore -------------------------------
(***************************************************************************)
(* What FPTree promises its callers (the public operations of the class in *)
(* include/fptree/fptree.h): a dictionary that outlives the process.       *)
(***************************************************************************)
CONSTANTS
  Keys, Values,
  NoValue  \* MAX_VALUE, what find returns for a key that is not there

VARIABLES
  store,  \* the dictionary, a function from the keys present to values
  ret     \* the last operation and what it returned

Init == /\ \E K \in SUBSET Keys : store \in [K -> Values]
        /\ ret = [op |-> "open", key |-> NoValue, out |-> NoValue]

WithEntry(f, k, v) == [j \in DOMAIN f \cup {k} |-> IF j = k THEN v ELSE f[j]]

Returns(op, k, out) == ret' = [op |-> op, key |-> k, out |-> out]

\* Insert a key, or give a key that is present another value.
Insert(k, v) ==
  /\ Returns("insert", k, NoValue)
  /\ store' = WithEntry(store, k, v)

\* "return true if the key exists, and remove operation succeeds" (fptree.h:52)
Remove(k) == \E found \in BOOLEAN :
  /\ Returns("remove", k, found)
  /\ found = (k \in DOMAIN store)
  /\ store' = [j \in DOMAIN store \ {k} |-> store[j]]

\* "return true if the key exists and update operation succeeds" (fptree.h:61)
Update(k, v) == \E found \in BOOLEAN :
  /\ Returns("update", k, found)
  /\ found = (k \in DOMAIN store)
  /\ store' = IF found THEN [store EXCEPT ![k] = v] ELSE store

\* "the related value, MAX_VALUE if the key cannot be found" (fptree.h:68)
Find(k) == \E out \in Values \cup {NoValue} :
  /\ Returns("find", k, out)
  /\ out = IF k \in DOMAIN store THEN store[k] ELSE NoValue
  /\ UNCHANGED store

\* The process ends between two operations, and another opens the store:
\* "load data from persistent memory" (fptree.h:221).
Reopen ==
  /\ Returns("open", NoValue, NoValue)
  /\ UNCHANGED store

Next ==
  \/ \E k \in Keys, v \in Values : Insert(k, v) \/ Update(k, v)
  \/ \E k \in Keys : Remove(k) \/ Find(k)
  \/ Reopen

Spec == Init /\ [][Next]_<<store, ret>>
=============================================================================
