----------------------------- MODULE MCCallRoom -----------------------------
(***************************************************************************)
(* Instances of CallRoom for TLC: a host and a member with one tab each,   *)
(* or the member with two.                                                 *)
(***************************************************************************)
EXTENDS CallRoom, TLC

CONSTANTS h, a,         \* users
          sh, sa, sb    \* sockets

\* One tab each.
TwoPeople == sh :> h @@ sa :> a

\* Two people; a has two tabs.
TwoTabs == sh :> h @@ sa :> a @@ sb :> a

\* Two states that differ only in Room objects nobody holds, or in variables
\* that neither a guard nor a property reads, are one state.
Held(f, blank) == [r \in RoomIds |-> IF InUse(r) THEN f[r] ELSE blank]

SafetyView ==
    <<live, Held(peers, {}), Held(locked, FALSE), Held(kicked, {}), sockVars,
      pending # NoTimer, run, restarts>>

\* Bounds: one tab at a time has left before its join was answered, and one kick
\* at a time is about to be carried out.
OneHasty ==
    /\ Cardinality({s \in Sockets : sock[s] = "up" /\ client[s] = "out"
                                    /\ (creating[s] > 0 \/ mine[s] # NoRoom)}) <= 1
    /\ Cardinality(doomed) <= 1

\* The same with what the liveness properties read.
LifeView == <<SafetyView, spinner>>
=============================================================================
