----------------------------- MODULE MCNightVend -----------------------------
(***************************************************************************)
(* Jobs that nobody watches, and the credentials they are given.  The two  *)
(* parts meet in no variable of the models and are checked side by side: a *)
(* behaviour is one of NightWave or one of SecretVend, and the other is    *)
(* left as it was in the beginning.                                        *)
(***************************************************************************)
EXTENDS NightWave, Sequences, TLC

CONSTANTS Cred, Call, Credentials, MaxAttempts, MaxVersion, c1, c2, r1, r2

VARIABLES scenario,
          version, notify, cache, fresh, pc, at, attempt, bundle, env, failed, files, floor

vendVars == <<version, notify, cache, fresh, pc, at, attempt, bundle, env, failed, files, floor>>

Vend == INSTANCE SecretVend WITH Storages <- Credentials

\* A host with a backup, a copy, two prunes, a check and an operator's jobs.
MCActions == <<"backup", "copy", "prune", "prune", "check", "check", "preview">>
MCStorages == <<"local", "offsite", "local", "offsite", "local", "local", "local">>

\* A repo with two storages, and one that shares the second of them.
TwoRepos == r1 :> <<c1, c2>> @@ r2 :> <<c2>>

ASSUME VendConstantsFit == Vend!VendConstants

SideInit == scenario \in {"night", "vend"} /\ Init /\ Vend!Init

NightNext == scenario = "night" /\ Next /\ UNCHANGED <<scenario, vendVars>>
VendNext == scenario = "vend" /\ Vend!Next /\ UNCHANGED <<scenario, vars>>

\* A night comes to its end; rotations and calls may come as long as they like.
NightMayStop == scenario = "night" /\ UNCHANGED <<scenario, vars, vendVars>>

\* The fairness of each part, while that part is what is looked at.
SideSpec ==
    /\ SideInit /\ [][NightNext \/ VendNext \/ NightMayStop]_<<scenario, vars, vendVars>>
    /\ WF_vars(scenario = "night" /\ Goes)
    /\ \A r \in Call : WF_vendVars(scenario = "vend" /\ Vend!CallStep(r))
    /\ \A c \in Cred : WF_vendVars(scenario = "vend" /\ Vend!expire(c))

\* A call that goes ahead has every storage's credentials (SecretVend.tla).
AllOrNothing == Vend!AllOrNothing

\* No key file outlives its call or invocation (SecretVend.tla).
NoKeyFileLeft == Vend!NoKeyFileLeft

\* A cached bundle is never replaced by an older one (SecretVend.tla).
CacheNeverRollsBack == [][Vend!RollsForward]_vendVars

\* Once rotations end, invocations get the current credentials (SecretVend.tla).
RotationTakesEffect == Vend!RotationTakesEffect
=============================================================================
