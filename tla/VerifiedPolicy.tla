--------------------------- MODULE VerifiedPolicy ---------------------------
(***************************************************************************)
(* What resolving policies promises, whoever asks at the same time: the    *)
(* policy changes only to one that a lease named and that was signed, for  *)
(* one resolution at a time; an answer is that policy, or the last that    *)
(* was kept if the lease allows for it, or none.                           *)
(***************************************************************************)
CONSTANTS Resolvers, Leases, Artifacts, NoPolicy, Nobody

VARIABLES signed,  \* the artifacts that were signed
          policy,  \* the policy in force
          good,    \* the policy that was kept last
          busy,    \* the resolution that changes them
          asked,   \* the lease each resolution is for, if it is under way
          answer   \* what each was answered with

vars == <<signed, policy, good, busy, asked, answer>>

Reply(status, ctx) == [status |-> status, ctx |-> ctx]
Named(l) == [content |-> l.hash, hash |-> l.hash]

Init ==
  /\ signed = {}
  /\ policy = NoPolicy
  /\ good = NoPolicy
  /\ busy = Nobody
  /\ asked = [r \in Resolvers |-> {}]
  /\ answer = [r \in Resolvers |-> Reply("none", NoPolicy)]

Ask(r, l) ==
  /\ asked[r] = {}
  /\ asked' = [asked EXCEPT ![r] = {l}]
  /\ answer' = [answer EXCEPT ![r] = Reply("none", NoPolicy)]
  /\ UNCHANGED <<signed, policy, good, busy>>

Answers(r, reply) ==
  /\ asked' = [asked EXCEPT ![r] = {}]
  /\ answer' = [answer EXCEPT ![r] = reply]

\* The lease's own policy takes force ...
Activate(r, l) ==
  /\ asked[r] = {l}
  /\ busy = Nobody
  /\ l.hash \in signed
  /\ busy' = r
  /\ policy' = Named(l)
  /\ UNCHANGED <<signed, good, asked, answer>>

\* ... and is kept, and is the answer, before another one does; ...
Keep(r, l) ==
  /\ asked[r] = {l}
  /\ busy = r
  /\ policy = Named(l)
  /\ busy' = Nobody
  /\ good' = policy
  /\ Answers(r, Reply("activated", policy))
  /\ UNCHANGED <<signed, policy>>

\* ... or it cannot be kept, which is an error.
GiveUp(r) ==
  /\ busy = r
  /\ busy' = Nobody
  /\ Answers(r, Reply("error", NoPolicy))
  /\ UNCHANGED <<signed, policy, good>>

\* The last one is used only for a lease that allows for it ...
Degrade(r, l) ==
  /\ asked[r] = {l}
  /\ busy # r
  /\ l.lkg
  /\ good # NoPolicy
  /\ Answers(r, Reply("degraded_ready", good))
  /\ UNCHANGED <<signed, policy, good, busy>>

\* ... and whoever may use it is refused only if there is none.
Deny(r, l) ==
  /\ asked[r] = {l}
  /\ busy # r
  /\ l.lkg => good = NoPolicy
  /\ \E status \in {"failed_closed", "rejected"} : Answers(r, Reply(status, NoPolicy))
  /\ UNCHANGED <<signed, policy, good, busy>>

Sign(a) ==
  /\ signed' = signed \cup {a}
  /\ UNCHANGED <<policy, good, busy, asked, answer>>

\* A restart forgets the policy in force, but not the one that was kept.
Restart ==
  /\ policy' = NoPolicy
  /\ busy' = Nobody
  /\ asked' = [r \in Resolvers |-> {}]
  /\ answer' = [r \in Resolvers |-> Reply("none", NoPolicy)]
  /\ UNCHANGED <<signed, good>>

Next ==
  \/ \E r \in Resolvers, l \in Leases :
       Ask(r, l) \/ Activate(r, l) \/ Keep(r, l) \/ Degrade(r, l) \/ Deny(r, l)
  \/ \E r \in Resolvers : GiveUp(r)
  \/ \E a \in Artifacts : Sign(a)
  \/ Restart

Spec == Init /\ [][Next]_vars
=============================================================================
