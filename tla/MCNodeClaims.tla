---------------------------- MODULE MCNodeClaims ----------------------------
(***************************************************************************)
(* Every queue of a few pods: web spreads over hosts, db keeps apart from  *)
(* itself and from caches, a cache has no constraint, a job is in a batch  *)
(* of its own; an alien and a guest do not match the pool.                 *)
(***************************************************************************)
EXTENDS NodeClaims, TLC

CONSTANTS web, db, cache, job, alien, guest

Pods(owner, sizes) == {[owner |-> owner, size |-> k] : k \in sizes}
Kinds == Pods(web, {1}) \cup Pods(db, {1}) \cup Pods(cache, {1, 2})
         \cup Pods(job, {1}) \cup Pods(alien, {1}) \cup Pods(guest, {1})

Some(f) == [o \in Owner |-> IF o \in DOMAIN f THEN f[o] ELSE {}]

Labelled == [o \in Owner |-> {o}]
Apart == Some(db :> {{db}, {cache}})
Spread == Some(web :> {2})
Required == Some(job :> {"ssd"} @@ alien :> {"hdd"})
Tolerating == [o \in Owner |-> IF o = guest THEN {} ELSE {"dedicated"}]
=============================================================================
