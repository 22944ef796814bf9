----------------------------- MODULE MCKeyService -----------------------------
(* Model checking of KeyService: two sessions share the loaded vault.      *)
EXTENDS KeyService, TLC

CONSTANTS s1, s2, r1, r2

MCSymmetry == Permutations({s1, s2}) \cup Permutations({r1, r2})

(* Bound: the scope's references and key handles are explored with one     *)
(* normal session and none of the special events; everything else with two *)
(* sessions, two records and any two of the special events: a failed       *)
(* write, a backup, a passkey, a change of passphrase.                     *)
MCSharing == \/ state # None /\ state.refs # <<>>
             \/ \E s \in Sessions : sessions[s] # None /\ sessions[s].handles # <<>>

MCSpecial == {e \in {"fault", "backup", "passkey", "change"} :
                \/ e = "fault" /\ used.faults > 0
                \/ e = "backup" /\ backup # None
                \/ e = "passkey" /\ {mem.presence, disk.presence} # {None}
                \/ e = "change" /\ used.kdfs > used.vaults}

MCBound ==
  /\ MCSharing => /\ MCSpecial = {}
                  /\ now <= 1
                  /\ \A s \in Sessions : sessions[s] # None => sessions[s].kind = "normal"
                  /\ \E s \in Sessions : sessions[s] = None
  /\ ~MCSharing => /\ Len(records) <= 2
                   /\ Cardinality(MCSpecial) <= 2
===============================================================================
