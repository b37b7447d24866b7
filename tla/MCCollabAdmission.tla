-------------------------- MODULE MCCollabAdmission --------------------------
(* Two connections on one network: a guest's (c1) and one of the account
   that absorbs this guest (c2).  Two keys, so that with MaxEntries = 1 the
   log evicts, two revokers, and a clock that passes the TTL. *)
EXTENDS CollabAdmission, TLC

CONSTANTS c1, c2, kGuest, kIp

MCKeysOf == c1 :> {kGuest, kIp} @@ c2 :> {kIp}

MCReplacedBy == c1 :> NoKey @@ c2 :> kGuest

RevokerSymmetry == Permutations(Revoker)

=============================================================================
