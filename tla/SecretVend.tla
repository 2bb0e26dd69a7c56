----------------------------- MODULE SecretVend -----------------------------
(***************************************************************************)
(* Vending credentials for one duplicacy invocation (src/secrets_runtime.go,*)
(* src/secrets.go, src/network.go).  prepareEnvForRepo walks the storages  *)
(* of a repo; for each it takes the bundle from the in-memory cache, or    *)
(* fetches it from the controller with bounded retries and caches it, and  *)
(* writes its key files to /dev/shm.  Concurrent invocations share the     *)
(* cache; the controller rotates credentials and then asks the agent to    *)
(* invalidate, at any moment of a fetch.                                   *)
(*                                                                         *)
(* A bundle is its version (UpdatedAt).  The 60 s of the TTL are the       *)
(* action expire: an entry is fresh until it is not.                       *)
(***************************************************************************)
EXTENDS Naturals, Sequences, FiniteSets

CONSTANTS
    Cred,         \* credential ids
    Call,         \* concurrent callers of prepareEnvForRepo
    Storages,     \* per caller: the credential of each storage of its repo
    MaxAttempts,  \* maxAttempts of fetchSecrets
    MaxVersion    \* bound on the rotations of a credential

\* What the values of the constants have to be like.
VendConstants ==
    /\ Storages \in [Call -> Seq(Cred)]
    /\ \A r \in Call : Storages[r] # <<>>
    /\ MaxAttempts \in Nat \ {0} /\ MaxVersion \in Nat \ {0}

VARIABLES
    version,    \* the controller's version of each credential
    notify,     \* the controller still has to ask for the invalidation
    cache,      \* per credential: version cached, 0: no entry
    fresh,      \* per credential: the entry is younger than the TTL
    pc,         \* per caller: "idle", "get", "fetch", "answered", "build",
                \* "ready"
    at,         \* per caller: the storage it is working on
    attempt,    \* per caller: fetch attempts made for it
    bundle,     \* per caller: the bundle in hand
    env,        \* per caller: the version in the environment of each storage
    failed,     \* per caller: errs is not empty
    files,      \* the key files in /dev/shm, <<caller, storage>>
    floor       \* history: version at the last invalidation of a credential

ctlVars == <<version, notify>>
cacheVars == <<cache, fresh>>
callVars == <<pc, at, attempt, bundle, env, failed>>
vars == <<ctlVars, cacheVars, callVars, files, floor>>

Init ==
    /\ version = [c \in Cred |-> 1]
    /\ notify = [c \in Cred |-> FALSE]
    /\ cache = [c \in Cred |-> 0]
    /\ fresh = [c \in Cred |-> FALSE]
    /\ pc = [r \in Call |-> "idle"]
    /\ at = [r \in Call |-> 1]
    /\ attempt = [r \in Call |-> 0]
    /\ bundle = [r \in Call |-> 0]
    /\ env = [r \in Call |-> <<>>]
    /\ failed = [r \in Call |-> FALSE]
    /\ files = {}
    /\ floor = [c \in Cred |-> 0]

\* The credential of the storage a caller is working on.
Wanted(r) == Storages[r][at[r]]

FilesOf(r) == {f \in files : f[1] = r}

-----------------------------------------------------------------------------
\* prepareEnvForRepo is called for a mapped repo.
prepareEnvForRepo(r) ==
    /\ pc[r] = "idle"
    /\ pc' = [pc EXCEPT ![r] = "get"]
    /\ at' = [at EXCEPT ![r] = 1]
    /\ env' = [env EXCEPT ![r] = <<>>]
    /\ failed' = [failed EXCEPT ![r] = FALSE]
    /\ UNCHANGED <<ctlVars, cacheVars, attempt, bundle, files, floor>>

\* Mutant: the TTL is not looked at.
Hit_noTTL(c) == cache[c] # 0

\* secretCache.get: an entry, and not an expired one.
Hit(c) == cache[c] # 0 /\ fresh[c]

\* resolveCredential: the cached bundle, or a fetch.
get(r) ==
    /\ pc[r] = "get"
    /\ IF Hit(Wanted(r))
       THEN /\ bundle' = [bundle EXCEPT ![r] = cache[Wanted(r)]]
            /\ pc' = [pc EXCEPT ![r] = "build"]
            /\ UNCHANGED attempt
       ELSE /\ attempt' = [attempt EXCEPT ![r] = 0]
            /\ pc' = [pc EXCEPT ![r] = "fetch"]
            /\ UNCHANGED bundle
    /\ UNCHANGED <<ctlVars, cacheVars, at, env, failed, files, floor>>

\* Mutant: the loop is left with the environments that did succeed.
errs_dropped(r, e) == FALSE

\* errs after a storage has, or has not, failed.
errs(r, e) == failed[r] \/ e

\* Mutant: the files of an invocation that failed are left behind.
cleanupOnError_missing(r) == files

\* What is left in /dev/shm when prepareEnvForRepo returns an error.
cleanupOnError(r) == files \ FilesOf(r)

\* The loop goes on to the next storage, or prepareEnvForRepo returns: with
\* an error, after unlinking what it wrote, when any storage failed.
nextStorage(r, e, written) ==
    LET fs == files \union written
        last == at[r] = Len(Storages[r])
    IN  /\ failed' = [failed EXCEPT ![r] = errs(r, e)]
        /\ at' = IF last THEN at ELSE [at EXCEPT ![r] = @ + 1]
        /\ pc' = [pc EXCEPT ![r] =
                    IF ~last THEN "get" ELSE IF errs(r, e) THEN "idle" ELSE "ready"]
        /\ files' = IF last /\ errs(r, e) THEN cleanupOnError(r) ELSE fs

\* External: the controller answers with its current version.
answer(r) ==
    /\ pc[r] = "fetch"
    /\ bundle' = [bundle EXCEPT ![r] = version[Wanted(r)]]
    /\ pc' = [pc EXCEPT ![r] = "answered"]
    /\ UNCHANGED <<ctlVars, cacheVars, at, attempt, env, failed, files,
                   floor>>

MoreAttempts(r) == attempt[r] + 1 < MaxAttempts

\* fetchSecretsOnce: a network error or a 5xx; fetchSecrets tries again.
transient(r) ==
    /\ pc[r] = "fetch"
    /\ MoreAttempts(r)
    /\ attempt' = [attempt EXCEPT ![r] = @ + 1]
    /\ UNCHANGED <<ctlVars, cacheVars, pc, at, bundle, env, failed, files,
                   floor>>

\* A permanent error, the last attempt, or the 30 s context: the storage
\* failed.
vendFails(r) ==
    /\ pc[r] = "fetch"
    /\ nextStorage(r, TRUE, {})
    /\ UNCHANGED <<ctlVars, cacheVars, attempt, bundle, env, floor>>

\* Mutant: the newer entry is overwritten.
Keeps_never(c, v) == FALSE

\* secretCache.put keeps an entry that is newer than the bundle.
Keeps(c, v) == cache[c] > v

\* fetchSecrets returns the bundle and resolveCredential caches it.
put(r) ==
    LET c == Wanted(r) IN
    /\ pc[r] = "answered"
    /\ IF Keeps(c, bundle[r])
       THEN UNCHANGED cacheVars
       ELSE /\ cache' = [cache EXCEPT ![c] = bundle[r]]
            /\ fresh' = [fresh EXCEPT ![c] = TRUE]
    /\ pc' = [pc EXCEPT ![r] = "build"]
    /\ UNCHANGED <<ctlVars, at, attempt, bundle, env, failed, files, floor>>

\* buildEnv: the environment and the key files of one storage; on an error
\* it leaves no file.
buildEnv(r) ==
    /\ pc[r] = "build"
    /\ \/ /\ env' = [env EXCEPT ![r] = Append(@, bundle[r])]
          /\ nextStorage(r, FALSE, {<<r, at[r]>>})
       \/ nextStorage(r, TRUE, {}) /\ UNCHANGED env
    /\ UNCHANGED <<ctlVars, cacheVars, attempt, bundle, floor>>

\* The invocation has ended and its cleanup closure runs.
cleanup(r) ==
    /\ pc[r] = "ready"
    /\ files' = files \ FilesOf(r)
    /\ pc' = [pc EXCEPT ![r] = "idle"]
    /\ UNCHANGED <<ctlVars, cacheVars, at, attempt, bundle, env, failed,
                   floor>>

-----------------------------------------------------------------------------
\* External: a credential is rotated on the controller.
rotate(c) ==
    /\ version[c] < MaxVersion
    /\ version' = [version EXCEPT ![c] = @ + 1]
    /\ notify' = [notify EXCEPT ![c] = TRUE]
    /\ UNCHANGED <<cacheVars, callVars, files, floor>>

\* handleInvalidateCredential: the entry is dropped.
invalidate(c) ==
    /\ notify[c]
    /\ notify' = [notify EXCEPT ![c] = FALSE]
    /\ cache' = [cache EXCEPT ![c] = 0]
    /\ fresh' = [fresh EXCEPT ![c] = FALSE]
    /\ floor' = [floor EXCEPT ![c] = version[c]]
    /\ UNCHANGED <<version, callVars, files>>

\* secretCacheTTL passes.
expire(c) ==
    /\ fresh[c]
    /\ fresh' = [fresh EXCEPT ![c] = FALSE]
    /\ UNCHANGED <<ctlVars, cache, callVars, files, floor>>

-----------------------------------------------------------------------------
CallStep(r) ==
    \/ get(r) \/ answer(r) \/ transient(r) \/ vendFails(r) \/ put(r)
    \/ buildEnv(r) \/ cleanup(r)

Next ==
    \/ \E r \in Call : prepareEnvForRepo(r) \/ CallStep(r)
    \/ \E c \in Cred : rotate(c) \/ invalidate(c) \/ expire(c)

Spec == Init /\ [][Next]_vars

\* Calls go on and entries age; nobody has to rotate, call or invalidate.
FairSpec ==
    /\ Spec
    /\ \A r \in Call : WF_vars(CallStep(r))
    /\ \A c \in Cred : WF_vars(expire(c))

-----------------------------------------------------------------------------
TypeOK ==
    /\ version \in [Cred -> 1..MaxVersion]
    /\ notify \in [Cred -> BOOLEAN]
    /\ cache \in [Cred -> 0..MaxVersion]
    /\ fresh \in [Cred -> BOOLEAN]
    /\ pc \in [Call -> {"idle", "get", "fetch", "answered", "build", "ready"}]
    /\ \A r \in Call : at[r] \in 1..Len(Storages[r])
    /\ attempt \in [Call -> 0..(MaxAttempts - 1)]
    /\ bundle \in [Call -> 0..MaxVersion]
    /\ env \in [Call -> Seq(1..MaxVersion)]
    /\ failed \in [Call -> BOOLEAN]
    /\ files \subseteq UNION {{r} \X (1..Len(Storages[r])) : r \in Call}
    /\ floor \in [Cred -> 0..MaxVersion]

(***************************************************************************)
(* secrets_runtime.go, "failures must be loud": an invocation that goes    *)
(* ahead has the environment and the key files of every storage, whichever *)
(* fetches failed and were retried on the way.                             *)
(***************************************************************************)
AllOrNothing ==
    \A r \in Call : pc[r] = "ready" =>
        /\ Len(env[r]) = Len(Storages[r])
        /\ FilesOf(r) = {r} \X (1..Len(Storages[r]))

(***************************************************************************)
(* Key files exist only for a call under way or an invocation that has not *)
(* been cleaned up: one failing storage does not leave the key files of    *)
(* the ones before it in /dev/shm, and a fetch is tried MaxAttempts times  *)
(* at most (TypeOK).                                                       *)
(***************************************************************************)
NoKeyFileLeft == TypeOK /\ \A f \in files : pc[f[1]] # "idle"

(***************************************************************************)
(* Fetches that overtake each other do not roll a cached credential back   *)
(* (secretCache.put): only an invalidation makes room for an older one.    *)
(***************************************************************************)
RollsForward == \A c \in Cred : cache'[c] # 0 => cache'[c] >= cache[c]
CacheNeverRollsBack == [][RollsForward]_vars

(***************************************************************************)
(* The TTL bounds staleness: once rotations have ended, every invocation   *)
(* prepared from then on has the current credentials, although a fetch     *)
(* that was under way may have cached an older one after the invalidation. *)
(***************************************************************************)
RotationTakesEffect ==
    \A c \in Cred :
        <>[](\A r \in Call : \A i \in 1..Len(env[r]) :
                pc[r] = "ready" /\ Storages[r][i] = c /\ Len(env[r]) = Len(Storages[r])
                    => env[r][i] = version[c])

(***************************************************************************)
(* README.md:296: invalidate drops an entry "so a credential rotation      *)
(* takes effect immediately rather than after the TTL": what the cache     *)
(* serves is never older than the last invalidation.                       *)
(***************************************************************************)
ImmediateRotation == \A c \in Cred : Hit(c) => cache[c] >= floor[c]
=============================================================================
