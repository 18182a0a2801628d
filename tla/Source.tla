------------------------------- MODULE Source -------------------------------
(***************************************************************************)
(* The source of a session (source/session.rs, source/repo.rs): `session   *)
(* run` brings the bare cache up to date, clones the session's checkout    *)
(* from it and records both in source.json, which is written once; a run   *)
(* that finds source.json uses what it says.  The cache id comes from the  *)
(* settings of the run, the lock is per cache id, and every checkout lives *)
(* under the session's directory by cache id.                              *)
(***************************************************************************)
EXTENDS Workspace

(* source.json is there, and valid when it is.                             *)
HasSource(p) == Of(p).source # None

(* source.json decides, and its checkout must be there.                    *)
Resume(p) ==
  LET src == Of(p).source IN
  IF Of(p).checkout[src.k] = None
  THEN Finish(p)
  ELSE /\ Becomes(p, [proc[p] EXCEPT !.pc = "work", !.k = src.k, !.sha = src.sha, !.since = 0])
       /\ Release(p)
       /\ UNCHANGED dir

(* The first look at source.json, before the lock.                         *)
ReadSource(p) ==
  /\ At(p, "source")
  /\ IF HasSource(p) THEN Resume(p) ELSE Goto(p, "lock") /\ UNCHANGED <<dir, lock>>
  /\ UNCHANGED <<cache, upstream, repo, origin, shared, crossed, used, faults>>

AcquireLock(p) ==
  /\ At(p, "lock") /\ lock[proc[p].k] = None
  /\ lock' = [lock EXCEPT ![proc[p].k] = p]
  /\ Goto(p, "recheck")
  /\ UNCHANGED <<dir, cache, upstream, repo, origin, shared, crossed, used, faults>>

(* The second look: another run may have been here while this one waited.  *)
Recheck_Skipped(p) ==
  /\ At(p, "recheck")
  /\ Goto(p, "cache")
  /\ UNCHANGED <<dir, cache, lock, upstream, repo, origin, shared, crossed, used, faults>>
Recheck(p) ==
  /\ At(p, "recheck")
  /\ IF HasSource(p) THEN Resume(p) ELSE Goto(p, "cache") /\ UNCHANGED <<dir, lock>>
  /\ UNCHANGED <<cache, upstream, repo, origin, shared, crossed, used, faults>>

(* ensure_cache: a clone of the upstream repository, or a fetch that moves *)
(* the branch of the cache to the upstream tip.                            *)
ensure_cache_FetchHead(p) ==
  /\ At(p, "cache")
  /\ cache' = [cache EXCEPT ![proc[p].k] = IF @ = None THEN upstream ELSE @]
  /\ Goto(p, "clone")
  /\ UNCHANGED <<dir, lock, upstream, repo, origin, shared, crossed, used, faults>>
ensure_cache(p) ==
  /\ At(p, "cache")
  /\ cache' = [cache EXCEPT ![proc[p].k] = upstream]
  /\ Goto(p, "clone")
  /\ UNCHANGED <<dir, lock, upstream, repo, origin, shared, crossed, used, faults>>

(* The network fails, or the cache is the rest of a clone that was killed  *)
(* before it was a repository; its mere presence is taken for a cache.     *)
FetchFails(p) ==
  /\ At(p, "cache")
  /\ faults < MaxFaults \/ cache[proc[p].k] = Partial
  /\ faults' = IF cache[proc[p].k] = Partial THEN faults ELSE faults + 1
  /\ Finish(p)
  /\ UNCHANGED <<cache, upstream, repo, origin, shared, crossed, used>>

(* prune_session_checkout, clone_session_checkout, resolve_head_sha.       *)
clone_session_checkout(p) ==
  /\ At(p, "clone")
  /\ Store(proc[p].s, [Of(p) EXCEPT !.checkout[proc[p].k] = cache[proc[p].k], !.exists = TRUE])
  /\ Becomes(p, [proc[p] EXCEPT !.pc = "write", !.sha = cache[proc[p].k]])
  /\ UNCHANGED <<cache, lock, upstream, repo, origin, shared, crossed, used, faults>>

(* SourceJson::write refuses to replace a file: a run with another cache   *)
(* id holds another lock and may have written first.                       *)
WriteSource(p) ==
  /\ At(p, "write")
  /\ IF HasSource(p)
     THEN Finish(p)
     ELSE /\ Store(proc[p].s, [Of(p) EXCEPT !.source = [k |-> proc[p].k, sha |-> proc[p].sha],
                                            !.exists = TRUE])
          /\ Becomes(p, [proc[p] EXCEPT !.pc = "work", !.since = 0]) /\ Release(p)
  /\ UNCHANGED <<cache, upstream, repo, origin, shared, crossed, used, faults>>

(* The source branch moves on GitHub (`source seed` is one way).           *)
Upstream ==
  /\ upstream < MaxUpstream /\ upstream' = upstream + 1
  /\ UNCHANGED <<dir, proc, cache, lock, repo, origin, shared, crossed, used, faults>>
=============================================================================
